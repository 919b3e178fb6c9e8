------------------------ MODULE Authorization_proofs ------------------------
(***************************************************************************)
(* Proofs about Authorization, for any intents, amounts, lifetimes,      *)
(* workers, approvers, policy and bounds.                                *)
(***************************************************************************)
EXTENDS Authorization, Sums_proofs, FiniteSetTheorems, TLAPS

(***************************************************************************)
(* Type correctness, in two parts: the records, and the workers.  A worker*)
(* that is not idle has a job in hand, and what it writes is about the   *)
(* intent of that job.                                                   *)
(***************************************************************************)
StatusSet == {"absent", "received", "approval_required"} \cup Committed \cup Terminal

RecordsOK ==
  /\ now \in 0..MaxTime
  /\ status \in [Intent -> StatusSet]
  /\ created \in [Intent -> 0..MaxTime]
  /\ decision \in [Intent -> {"none", "rejected", "approval_required", "auto_authorized"}]
  /\ request \in [Intent -> {"none", "pending", "approved", "rejected", "expired"}]
  /\ votes \in [Intent -> [Approver -> {"none", "approved", "rejected"}]]
  /\ executedAt \in [Intent -> -1..MaxTime]
  /\ frozen \in BOOLEAN /\ autonomous \in BOOLEAN
  /\ jobs \subseteq Job /\ dead \subseteq Job
  /\ faults \in 0..MaxFaults /\ switches \in 0..MaxSwitches

HandState == [pc : Pc, job : Job \cup {<<"none", NoIntent>>}, auto : BOOLEAN]

HandsOK ==
  /\ at \in [Worker -> HandState]
  /\ \A w \in Worker : at[w].pc # "idle" => at[w].job \in Job

TypeInv == RecordsOK /\ HandsOK

\* The inductive type invariant contains TypeOK.
LEMMA TypeInvType == TypeInv => TypeOK
BY DEF TypeInv, RecordsOK, HandsOK, HandState, TypeOK, StatusSet

\* A job is a kind and an intent.
LEMMA JobShape ==
  /\ \A e \in Job : e[1] \in {"evaluate", "expire", "execute", "confirm"} /\ e[2] \in Intent
  /\ \A i \in Intent : /\ <<"evaluate", i>> \in Job
                       /\ <<"expire", i>> \in Job
                       /\ <<"execute", i>> \in Job
                       /\ <<"confirm", i>> \in Job
BY DEF Job

\* The statuses there are.
LEMMA StatusShape ==
  StatusSet = {"absent", "received", "approval_required", "approved", "executing", "submitted",
               "paid", "failed", "rejected", "expired"}
BY DEF StatusSet, Committed, Underway, Terminal

\* Moving on within a handler keeps the job.
LEMMA GotoEffect ==
  ASSUME NEW w \in Worker, NEW pc \in Pc, HandsOK, at[w].pc # "idle", Goto(w, pc)
  PROVE  /\ HandsOK'
         /\ at'[w].pc = pc /\ at'[w].job = at[w].job
         /\ \A v \in Worker : v # w => at'[v] = at[v]
BY DEF Goto, HandsOK, HandState

\* Giving a job back leaves the worker idle.
LEMMA IdleEffect ==
  ASSUME NEW w \in Worker, HandsOK, at' = [at EXCEPT ![w] = Idle]
  PROVE  /\ HandsOK'
         /\ at'[w].pc = "idle"
         /\ \A v \in Worker : v # w => at'[v] = at[v]
BY DEF Idle, HandsOK, HandState, Pc

\* A busy worker works on an intent.
LEMMA InHand ==
  ASSUME HandsOK, NEW w \in Worker, at[w].pc # "idle"
  PROVE  IntentOf(w) \in Intent
BY JobShape DEF HandsOK, IntentOf

\* The first state is well typed.
LEMMA TypeInit == Init => TypeInv
<1> SUFFICES ASSUME Init PROVE TypeInv
  OBVIOUS
<1>1. RecordsOK
  <2>1. frozen \in BOOLEAN /\ autonomous \in BOOLEAN
    BY DEF Init
  <2>2. executedAt \in [Intent -> -1..MaxTime] /\ created \in [Intent -> 0..MaxTime]
    BY AuthorizationAssumption DEF Init
  <2>3. votes \in [Intent -> [Approver -> {"none", "approved", "rejected"}]]
    BY DEF Init
  <2>4. now \in 0..MaxTime /\ faults \in 0..MaxFaults /\ switches \in 0..MaxSwitches
    BY AuthorizationAssumption DEF Init
  <2> QED
    BY <2>1, <2>2, <2>3, <2>4, StatusShape DEF Init, RecordsOK
<1>2. HandsOK
  BY DEF Init, HandsOK, HandState, Idle, Pc
<1> QED
  BY <1>1, <1>2 DEF TypeInv

\* A step that leaves records alone, or workers alone, keeps them well typed.
LEMMA RecordsStutter ==
  RecordsOK /\ UNCHANGED <<now, records, created, gates, queue, faults>> => RecordsOK'
BY DEF RecordsOK, records, gates, queue

\* A step that moves no worker keeps them well typed.
LEMMA HandsStutter == HandsOK /\ UNCHANGED at => HandsOK'
BY DEF HandsOK

\* Every step keeps the records and the workers well typed.
LEMMA TypeStep == TypeInv /\ [Next]_vars => TypeInv'
<1> SUFFICES ASSUME TypeInv, [Next]_vars PROVE RecordsOK' /\ HandsOK'
  BY DEF TypeInv
<1> USE DEF TypeInv
<1>1. ASSUME NEW i \in Intent, Create(i) PROVE RecordsOK' /\ HandsOK'
  <2>1. HandsOK'
    BY <1>1, HandsStutter DEF Create
  <2>2. RecordsOK'
    BY <1>1, JobShape, StatusShape DEF Create, RecordsOK, gates
  <2> QED
    BY <2>1, <2>2
<1>2. ASSUME NEW w \in Worker, NEW e \in Job, Take(w, e) PROVE RecordsOK' /\ HandsOK'
  <2>1. HandsOK'
    BY <1>2 DEF Take, HandsOK, HandState, Pc
  <2> QED
    BY <1>2, <2>1, RecordsStutter DEF Take
<1>3. ASSUME NEW w \in Worker, Complete(w) PROVE RecordsOK' /\ HandsOK'
  <2>1. HandsOK'
    BY <1>3, IdleEffect DEF Complete
  <2>2. RecordsOK'
    BY <1>3 DEF Complete, RecordsOK, records, gates
  <2> QED
    BY <2>1, <2>2
<1>4. ASSUME NEW w \in Worker, Interrupt(w) PROVE RecordsOK' /\ HandsOK'
  <2>1. HandsOK'
    BY <1>4, IdleEffect DEF Interrupt, GiveBack
  <2>2. RecordsOK'
    <3>1. faults' \in 0..MaxFaults /\ UNCHANGED <<now, records, created, gates>>
      BY <1>4, AuthorizationAssumption DEF Interrupt, RecordsOK
    <3>2. jobs' \subseteq Job /\ dead' \subseteq Job
      <4>1. at[w].job \in Job
        BY <1>4 DEF Interrupt, HandsOK
      <4> QED
        BY <1>4, <4>1 DEF Interrupt, RecordsOK, queue
    <3> QED
      BY <3>1, <3>2 DEF RecordsOK, records, gates
  <2> QED
    BY <2>1, <2>2
<1>5. ASSUME NEW w \in Worker, ReadIntake(w) PROVE RecordsOK' /\ HandsOK'
  <2>1. CASE \E pc \in {"done", "lapse", "refuse"} : Goto(w, pc)
    BY <1>5, <2>1, GotoEffect, RecordsStutter DEF ReadIntake, Pc
  <2>2. CASE at' = [at EXCEPT ![w] = [@ EXCEPT !.pc = "spend", !.auto = autonomous]]
    <3> PICK g : g = [at[w] EXCEPT !.pc = "spend", !.auto = autonomous]
      OBVIOUS
    <3>1. at' = [at EXCEPT ![w] = g] /\ g \in HandState /\ g.job = at[w].job /\ at[w].pc = "context"
      BY <1>5, <2>2 DEF ReadIntake, HandsOK, HandState, Pc, RecordsOK
    <3>2. HandsOK'
      BY <3>1 DEF HandsOK
    <3> QED
      BY <1>5, <3>2, RecordsStutter DEF ReadIntake
  <2> QED
    BY <1>5, <2>1, <2>2 DEF ReadIntake
<1>6. ASSUME NEW w \in Worker, DecideIntake(w) PROVE RecordsOK' /\ HandsOK'
  BY <1>6, GotoEffect, RecordsStutter DEF DecideIntake, Pc
<1>7. ASSUME NEW w \in Worker, CommitIntake(w) PROVE RecordsOK' /\ HandsOK'
  <2>1. HandsOK'
    BY <1>7, GotoEffect DEF CommitIntake, Pc
  <2>2. IntentOf(w) \in Intent
    BY <1>7, InHand DEF CommitIntake
  <2>3. CASE UNCHANGED <<status, decision, request, jobs>>
    BY <1>7, <2>1, <2>3, RecordsStutter DEF CommitIntake, records, queue
  <2>4. ASSUME NEW s \in {"expired", "rejected", "approved", "approval_required"},
               NEW d \in {"none", "rejected", "approval_required", "auto_authorized"},
               NEW r \in {"none", "approved", "pending"}, NEW new \in SUBSET Job,
               Become(IntentOf(w), s, d, r, new)
        PROVE  RecordsOK'
    <3>1. status' \in [Intent -> StatusSet]
      BY <2>2, <2>4, StatusShape DEF Become, RecordsOK
    <3>2. UNCHANGED <<now, created, votes, executedAt, frozen, autonomous, dead, faults, switches>>
      BY <1>7 DEF CommitIntake, gates
    <3> QED
      BY <2>2, <2>4, <3>1, <3>2 DEF Become, RecordsOK
  <2>5. /\ {} \in SUBSET Job /\ {<<"execute", IntentOf(w)>>} \in SUBSET Job
        /\ Expiry(IntentOf(w)) \in SUBSET Job
        /\ decision[IntentOf(w)] \in {"none", "rejected", "approval_required", "auto_authorized"}
    BY <2>2, JobShape DEF Expiry, RecordsOK
  <2> QED
    BY <1>7, <2>1, <2>3, <2>4, <2>5 DEF CommitIntake
<1>8. ASSUME NEW w \in Worker, ExpireApproval(w) PROVE RecordsOK' /\ HandsOK'
  <2>1. HandsOK'
    BY <1>8, GotoEffect DEF ExpireApproval, Pc
  <2>2. RecordsOK'
    BY <1>8, StatusShape DEF ExpireApproval, RecordsOK, gates, queue
  <2> QED
    BY <2>1, <2>2
<1>9. ASSUME NEW w \in Worker, ReadExecution(w) PROVE RecordsOK' /\ HandsOK'
  BY <1>9, GotoEffect, RecordsStutter DEF ReadExecution, Pc
<1>10. ASSUME NEW w \in Worker, Recheck(w) PROVE RecordsOK' /\ HandsOK'
  BY <1>10, GotoEffect, RecordsStutter DEF Recheck, Pc
<1>11. ASSUME NEW w \in Worker, RecordSimulation(w) PROVE RecordsOK' /\ HandsOK'
  <2>1. HandsOK'
    BY <1>11, GotoEffect DEF RecordSimulation, Pc
  <2>2. RecordsOK'
    <3>1. executedAt' \in [Intent -> -1..MaxTime]
      <4>1. now \in -1..MaxTime
        BY DEF RecordsOK
      <4>2. executedAt' = [executedAt EXCEPT ![IntentOf(w)] = IF @ = -1 THEN now ELSE @]
        BY <1>11 DEF RecordSimulation
      <4>3. executedAt \in [Intent -> -1..MaxTime]
        BY DEF RecordsOK
      <4> QED
        BY <4>1, <4>2, <4>3
    <3>2. status' \in [Intent -> StatusSet]
      BY <1>11, StatusShape DEF RecordSimulation, RecordsOK
    <3> QED
      BY <1>11, <3>1, <3>2 DEF RecordSimulation, RecordsOK, gates, queue
  <2> QED
    BY <2>1, <2>2
<1>12. ASSUME NEW w \in Worker, Resume(w) PROVE RecordsOK' /\ HandsOK'
  BY <1>12, GotoEffect, RecordsStutter DEF Resume, Pc
<1>18. ASSUME NEW w \in Worker, Submit(w) PROVE RecordsOK' /\ HandsOK'
  <2>1. HandsOK'
    BY <1>18, GotoEffect DEF Submit, Pc
  <2>2. IntentOf(w) \in Intent
    BY <1>18, InHand DEF Submit
  <2>3. RecordsOK'
    BY <1>18, <2>2, JobShape, StatusShape DEF Submit, RecordsOK, gates
  <2> QED
    BY <2>1, <2>3
<1>19. ASSUME NEW w \in Worker, Confirm(w) PROVE RecordsOK' /\ HandsOK'
  <2>1. HandsOK'
    BY <1>19, GotoEffect, IdleEffect DEF Confirm, GiveBack, Pc
  <2>2. status' \in [Intent -> StatusSet]
    BY <1>19, StatusShape DEF Confirm, RecordsOK
  <2>3. RecordsOK'
    BY <1>19, <2>2 DEF Confirm, RecordsOK, gates, queue
  <2> QED
    BY <2>1, <2>3
<1>13. ASSUME NEW w \in Worker, MarkFailed(w) PROVE RecordsOK' /\ HandsOK'
  <2>1. HandsOK'
    BY <1>13, GotoEffect DEF MarkFailed, Pc
  <2>2. RecordsOK'
    BY <1>13, StatusShape DEF MarkFailed, RecordsOK, gates, queue
  <2> QED
    BY <2>1, <2>2
<1>14. ASSUME NEW a \in Approver, NEW i \in Intent, NEW vote \in {"approved", "rejected"},
              DecideIntent(a, i, vote)
       PROVE  RecordsOK' /\ HandsOK'
  <2>1. HandsOK'
    BY <1>14, HandsStutter DEF DecideIntent
  <2>2. votes' \in [Intent -> [Approver -> {"none", "approved", "rejected"}]]
    BY <1>14 DEF DecideIntent, RecordsOK
  <2>3. RecordsOK'
    <3>1. CASE UNCHANGED <<status, request, jobs>>
      BY <1>14, <2>2, <3>1 DEF DecideIntent, RecordsOK, gates
    <3>2. ASSUME NEW outcome \in {"approved", "rejected"},
                 status' = [status EXCEPT ![i] = outcome], request' = [request EXCEPT ![i] = outcome],
                 jobs' = IF outcome = "approved" THEN jobs \cup {<<"execute", i>>} ELSE jobs
          PROVE  RecordsOK'
      <4>1. status' \in [Intent -> StatusSet]
        BY <3>2, StatusShape DEF RecordsOK
      <4>2. request' \in [Intent -> {"none", "pending", "approved", "rejected", "expired"}] /\ jobs' \subseteq Job
        BY <3>2, JobShape DEF RecordsOK
      <4>3. UNCHANGED <<now, created, decision, executedAt, frozen, autonomous, dead, faults, switches>>
        BY <1>14 DEF DecideIntent, gates
      <4> QED
        BY <2>2, <4>1, <4>2, <4>3 DEF RecordsOK
    <3> QED
      BY <1>14, <3>1, <3>2 DEF DecideIntent
  <2> QED
    BY <2>1, <2>3
<1>15. ASSUME Switch PROVE RecordsOK' /\ HandsOK'
  <2>1. HandsOK'
    BY <1>15, HandsStutter DEF Switch
  <2>2. RecordsOK'
    <3>1. frozen' \in BOOLEAN /\ autonomous' \in BOOLEAN
      BY <1>15, Zenon DEF Switch, RecordsOK
    <3>2. switches' \in 0..MaxSwitches
      BY <1>15, AuthorizationAssumption DEF Switch, RecordsOK
    <3> QED
      BY <1>15, <3>1, <3>2 DEF Switch, RecordsOK, records, queue
  <2> QED
    BY <2>1, <2>2
<1>16. ASSUME Tick PROVE RecordsOK' /\ HandsOK'
  <2>1. HandsOK'
    BY <1>16, HandsStutter DEF Tick
  <2>2. RecordsOK'
    BY <1>16, AuthorizationAssumption DEF Tick, RecordsOK, records, gates, queue
  <2> QED
    BY <2>1, <2>2
<1>17. ASSUME UNCHANGED vars PROVE RecordsOK' /\ HandsOK'
  BY <1>17, RecordsStutter, HandsStutter DEF vars
<1> QED
  BY <1>1, <1>2, <1>3, <1>4, <1>5, <1>6, <1>7, <1>8, <1>9, <1>10, <1>11, <1>12, <1>13, <1>14,
    <1>15, <1>16, <1>17, <1>18, <1>19 DEF Next, WorkerStep

\* Records and workers are well typed in every reachable state (Authorization's
\* counterpart of the schema's check constraints).
THEOREM RecordsTyped == Spec => []TypeOK
<1>1. Init => TypeInv
  BY TypeInit
<1>2. TypeInv /\ [Next]_vars => TypeInv'
  BY TypeStep
<1> QED
  BY <1>1, <1>2, TypeInvType, PTL DEF Spec

(***************************************************************************)
(* The ends of an intent are final: every write of a status is guarded by*)
(* the status it replaces.                                               *)
(***************************************************************************)
\* Intents that are not the job's keep their status, and the job's own leaves
\* no terminal one.
LEMMA OneStatus ==
  ASSUME NEW i \in Intent, NEW s, TypeInv, status[i] \notin Terminal,
         status' = [status EXCEPT ![i] = s]
  PROVE  \A j \in Intent : status[j] \in Terminal => status'[j] = status[j]
BY DEF TypeInv, RecordsOK

\* No step rewrites a terminal status.
LEMMA TerminalStep ==
  TypeInv /\ [Next]_vars => \A i \in Intent : status[i] \in Terminal => status'[i] = status[i]
<1> DEFINE Kept == \A i \in Intent : status[i] \in Terminal => status'[i] = status[i]
<1> SUFFICES ASSUME TypeInv, [Next]_vars PROVE Kept
  OBVIOUS
<1>1. CASE UNCHANGED status
  BY <1>1
<1>2. ASSUME NEW i \in Intent, Create(i) PROVE Kept
  BY <1>2, OneStatus DEF Create, Terminal
<1>3. ASSUME NEW w \in Worker, CommitIntake(w) PROVE Kept
  <2>1. IntentOf(w) \in Intent
    BY <1>3, InHand DEF CommitIntake, TypeInv
  <2>2. CASE status[IntentOf(w)] = "received"
    BY <1>3, <2>1, <2>2, OneStatus DEF CommitIntake, Become, Terminal
  <2> QED
    BY <1>3, <2>2 DEF CommitIntake
<1>4. ASSUME NEW w \in Worker, ExpireApproval(w) PROVE Kept
  BY <1>4, InHand, OneStatus DEF ExpireApproval, Terminal, TypeInv
<1>5. ASSUME NEW w \in Worker, RecordSimulation(w) PROVE Kept
  BY <1>5 DEF RecordSimulation, Terminal, TypeInv, RecordsOK
<1>6. ASSUME NEW w \in Worker, Submit(w) \/ Confirm(w) PROVE Kept
  BY <1>6, InHand, OneStatus DEF Submit, Confirm, Terminal, TypeInv
<1>7. ASSUME NEW w \in Worker, MarkFailed(w) PROVE Kept
  BY <1>7 DEF MarkFailed, TypeInv, RecordsOK
<1>8. ASSUME NEW a \in Approver, NEW i \in Intent, NEW vote \in {"approved", "rejected"},
             DecideIntent(a, i, vote)
      PROVE  Kept
  BY <1>8, OneStatus DEF DecideIntent, Decidable, Terminal
<1>9. ASSUME NEW w \in Worker,
             \/ Complete(w) \/ Interrupt(w) \/ ReadIntake(w) \/ DecideIntake(w)
             \/ ReadExecution(w) \/ Recheck(w) \/ Resume(w)
             \/ \E e \in Job : Take(w, e)
      PROVE  UNCHANGED status
  BY <1>9 DEF Complete, Interrupt, ReadIntake, DecideIntake, ReadExecution, Recheck, Resume, Take, records
<1>10. Switch \/ Tick \/ UNCHANGED vars => UNCHANGED status
  BY DEF Switch, Tick, vars, records
<1> QED
  BY <1>1, <1>2, <1>3, <1>4, <1>5, <1>6, <1>7, <1>8, <1>9, <1>10 DEF Next, WorkerStep

\* However intake, decisions, expiry and execution race, an intent that is
\* rejected, expired, failed or paid stays so (the status guards of
\* evaluateIntent, decideIntent, expireApproval, recordSimulation, markFailed).
THEOREM EndsAreFinal == Spec => TerminalIsFinal
<1>1. Init => TypeInv
  BY TypeInit
<1>2. TypeInv /\ [Next]_vars => TypeInv'
  BY TypeStep
<1>3. TypeInv /\ [Next]_vars
        => [\A i \in Intent : status[i] \in Terminal => status'[i] = status[i]]_vars
  BY TerminalStep
<1> QED
  BY <1>1, <1>2, <1>3, PTL DEF Spec, TerminalIsFinal

(***************************************************************************)
(* Authority.  QuorumOrDelegated is not inductive: a worker authorizes   *)
(* from what it decided an await earlier, and an approval counts only the*)
(* votes for it, so that nobody voted against it must be known before.   *)
(***************************************************************************)
AuthorizedWithinLimit ==
  \A w \in Worker : at[w].pc = "authorize" => Amount[IntentOf(w)] <= AutoUpTo

\* While a decision is open nobody has said no.
NoRejectionYet ==
  \A i \in Intent : status[i] = "approval_required" =>
    \A a \in Approver : votes[i][a] # "rejected"

NoVotesYet ==
  \A i \in Intent : status[i] \in {"absent", "received"} =>
    \A a \in Approver : votes[i][a] = "none"

AuthorityInv ==
  TypeInv /\ AuthorizedWithinLimit /\ NoVotesYet /\ NoRejectionYet /\ QuorumOrDelegated

\* What AuthorityInv says of one intent.
Authorized(i) ==
  /\ status[i] \in {"absent", "received"} => \A a \in Approver : votes[i][a] = "none"
  /\ status[i] = "approval_required" => \A a \in Approver : votes[i][a] # "rejected"
  /\ status[i] \in Committed =>
       \/ decision[i] = "auto_authorized" /\ Amount[i] <= AutoUpTo
       \/ /\ Cardinality(ApprovedBy(i)) >= MinApprovals
          /\ \A a \in Approver : votes[i][a] # "rejected"

\* The parts about intents are the conjunction over them.
LEMMA PerIntent ==
  (\A i \in Intent : Authorized(i)) <=> (NoVotesYet /\ NoRejectionYet /\ QuorumOrDelegated)
BY DEF Authorized, NoVotesYet, NoRejectionYet, QuorumOrDelegated

\* An intent whose votes and decision stay, and whose status stays or leaves
\* for one that claims no more, keeps its authority.
LEMMA AuthorityKept ==
  ASSUME NEW i \in Intent, Authorized(i), votes'[i] = votes[i], decision'[i] = decision[i],
         \/ status'[i] = status[i]
         \/ status[i] \in Committed /\ status'[i] \in Committed
         \/ status'[i] \in {"rejected", "expired", "failed"}
         \/ status[i] = "absent" /\ status'[i] = "received"
         \/ status[i] = "received" /\ status'[i] = "approval_required"
  PROVE  Authorized(i)'
<1>1. ApprovedBy(i)' = ApprovedBy(i)
  BY DEF ApprovedBy
<1> QED
  BY <1>1 DEF Authorized, Committed, Underway

\* Initially no intent exists.
LEMMA AuthorityInit == Init => AuthorityInv
<1> SUFFICES ASSUME Init PROVE AuthorityInv
  OBVIOUS
<1>1. AuthorizedWithinLimit
  BY DEF Init, AuthorizedWithinLimit, Idle
<1>2. \A i \in Intent : Authorized(i)
  BY DEF Init, Authorized, Committed, Underway
<1> QED
  BY <1>1, <1>2, TypeInit, PerIntent DEF AuthorityInv

\* Every step keeps the authority of every intent.
LEMMA AuthorityStep == AuthorityInv /\ [Next]_vars => AuthorityInv'
<1> SUFFICES ASSUME AuthorityInv, [Next]_vars
             PROVE  AuthorizedWithinLimit' /\ \A i \in Intent : Authorized(i)'
  BY TypeStep, PerIntent DEF AuthorityInv, Authorized, NoVotesYet, NoRejectionYet, QuorumOrDelegated
<1> DEFINE Goal == AuthorizedWithinLimit' /\ \A i \in Intent : Authorized(i)'
<1>a. TypeInv /\ RecordsOK /\ HandsOK /\ AuthorizedWithinLimit /\ \A i \in Intent : Authorized(i)
  BY PerIntent DEF AuthorityInv, TypeInv
<1>b. ASSUME NEW w \in Worker, NEW pc \in Pc \ {"authorize"}, Goto(w, pc), at[w].pc # "idle"
      PROVE  AuthorizedWithinLimit'
  BY <1>a, <1>b, GotoEffect DEF AuthorizedWithinLimit, IntentOf
<1>c. ASSUME UNCHANGED at PROVE AuthorizedWithinLimit'
  BY <1>a, <1>c DEF AuthorizedWithinLimit, IntentOf
<1>d. ASSUME NEW w \in Worker, at' = [at EXCEPT ![w] = Idle] PROVE AuthorizedWithinLimit'
  BY <1>a, <1>d, IdleEffect DEF AuthorizedWithinLimit, IntentOf
<1>e. ASSUME UNCHANGED <<status, votes, decision>> PROVE \A i \in Intent : Authorized(i)'
  BY <1>a, <1>e, AuthorityKept
<1>1. ASSUME NEW i \in Intent, Create(i) PROVE Goal
  <2>1. \A j \in Intent : Authorized(j)'
    BY <1>1, <1>a, AuthorityKept DEF Create, RecordsOK
  <2> QED
    BY <1>1, <1>c, <2>1 DEF Create
<1>2. ASSUME NEW w \in Worker, NEW e \in Job, Take(w, e) PROVE Goal
  <2>1. AuthorizedWithinLimit'
    BY <1>2, <1>a DEF Take, AuthorizedWithinLimit, IntentOf, HandsOK
  <2> QED
    BY <1>2, <1>e, <2>1 DEF Take, records
<1>3. ASSUME NEW w \in Worker, Complete(w) \/ Interrupt(w) PROVE Goal
  BY <1>3, <1>d, <1>e DEF Complete, Interrupt, GiveBack, records
<1>4. ASSUME NEW w \in Worker, ReadIntake(w) PROVE Goal
  <2>1. AuthorizedWithinLimit'
    <3>1. CASE \E pc \in {"done", "lapse", "refuse"} : Goto(w, pc)
      BY <1>4, <1>b, <3>1 DEF ReadIntake, Pc
    <3>2. CASE at' = [at EXCEPT ![w] = [@ EXCEPT !.pc = "spend", !.auto = autonomous]]
      BY <1>a, <3>2 DEF AuthorizedWithinLimit, IntentOf, HandsOK, HandState
    <3> QED
      BY <1>4, <3>1, <3>2 DEF ReadIntake
  <2> QED
    BY <1>4, <1>e, <2>1 DEF ReadIntake, records
<1>5. ASSUME NEW w \in Worker, DecideIntake(w) PROVE Goal
  <2>1. AuthorizedWithinLimit'
    <3>1. CASE Goto(w, "authorize") /\ Delegated(IntentOf(w))
      <4>1. /\ at'[w].pc = "authorize" /\ at'[w].job = at[w].job
            /\ \A v \in Worker : v # w => at'[v] = at[v]
        BY <1>5, <1>a, <3>1, GotoEffect DEF DecideIntake, Pc
      <4> QED
        BY <1>a, <3>1, <4>1 DEF AuthorizedWithinLimit, IntentOf, Delegated
    <3>2. CASE Goto(w, "refuse") \/ Goto(w, "ask")
      BY <1>5, <1>b, <3>2 DEF DecideIntake, Pc
    <3> QED
      BY <1>5, <3>1, <3>2 DEF DecideIntake
  <2> QED
    BY <1>5, <1>e, <2>1 DEF DecideIntake, records
<1>6. ASSUME NEW w \in Worker, CommitIntake(w) PROVE Goal
  <2>1. AuthorizedWithinLimit'
    BY <1>6, <1>b DEF CommitIntake, Pc
  <2>2. PICK i \in Intent : i = IntentOf(w)
    BY <1>6, <1>a, InHand DEF CommitIntake
  <2>3. CASE UNCHANGED <<status, decision, request, jobs>>
    BY <1>6, <1>e, <2>1, <2>3 DEF CommitIntake
  <2>4. ASSUME status[IntentOf(w)] = "received", UNCHANGED votes,
               NEW s, NEW d, NEW r, NEW new, Become(IntentOf(w), s, d, r, new),
               \/ s \in {"expired", "rejected", "approval_required"}
               \/ s = "approved" /\ d = "auto_authorized" /\ Amount[IntentOf(w)] <= AutoUpTo
        PROVE  \A j \in Intent : Authorized(j)'
    <3>1. ASSUME NEW j \in Intent, j # i PROVE Authorized(j)'
      BY <1>a, <2>2, <2>4, <3>1, AuthorityKept DEF Become, RecordsOK
    <3>2. status'[i] = s /\ decision'[i] = d /\ votes' = votes
      BY <1>a, <2>2, <2>4 DEF Become, RecordsOK
    <3>3. Authorized(i)'
      BY <1>a, <2>2, <2>4, <3>2 DEF Authorized, Committed, Underway
    <3> QED
      BY <3>1, <3>3
  <2>5. CASE status[IntentOf(w)] = "received"
    <3>1. at[w].pc = "authorize" => Amount[IntentOf(w)] <= AutoUpTo
      BY <1>a DEF AuthorizedWithinLimit
    <3>2. UNCHANGED votes
      BY <1>6 DEF CommitIntake
    <3> QED
      BY <1>6, <2>1, <2>4, <2>5, <3>1, <3>2 DEF CommitIntake
  <2> QED
    BY <1>6, <2>3, <2>5 DEF CommitIntake
<1>7. ASSUME NEW w \in Worker, ExpireApproval(w) PROVE Goal
  <2>1. AuthorizedWithinLimit'
    BY <1>7, <1>b DEF ExpireApproval, Pc
  <2>2. \A i \in Intent : Authorized(i)'
    BY <1>7, <1>a, InHand, AuthorityKept DEF ExpireApproval, RecordsOK
  <2> QED
    BY <2>1, <2>2
<1>8. ASSUME NEW w \in Worker, ReadExecution(w) \/ Recheck(w) \/ Resume(w) PROVE Goal
  <2>1. AuthorizedWithinLimit'
    BY <1>8, <1>b DEF ReadExecution, Recheck, Resume, Pc
  <2> QED
    BY <1>8, <1>e, <2>1 DEF ReadExecution, Recheck, Resume, records
<1>9. ASSUME NEW w \in Worker, RecordSimulation(w) \/ Submit(w) \/ Confirm(w) \/ MarkFailed(w) PROVE Goal
  <2>1. AuthorizedWithinLimit'
    BY <1>9, <1>b, <1>d DEF RecordSimulation, Submit, Confirm, GiveBack, MarkFailed, Pc
  <2>2. \A i \in Intent : \/ status'[i] = status[i]
                          \/ status[i] \in Committed /\ status'[i] \in Committed
                          \/ status'[i] = "failed"
    BY <1>9, <1>a, InHand DEF RecordSimulation, Submit, Confirm, MarkFailed, RecordsOK, Committed, Underway
  <2>3. UNCHANGED <<votes, decision>>
    BY <1>9 DEF RecordSimulation, Submit, Confirm, MarkFailed
  <2> QED
    BY <1>a, <2>1, <2>2, <2>3, AuthorityKept
<1>10. ASSUME NEW a \in Approver, NEW i \in Intent, NEW vote \in {"approved", "rejected"},
              DecideIntent(a, i, vote)
       PROVE  Goal
  <2>1. AuthorizedWithinLimit'
    BY <1>10, <1>c DEF DecideIntent
  <2>2. ASSUME NEW j \in Intent, j # i PROVE Authorized(j)'
    BY <1>10, <1>a, <2>2, AuthorityKept DEF DecideIntent, RecordsOK
  <2>3. status[i] = "approval_required"
    BY <1>10 DEF DecideIntent, Decidable
  <2>4. vote = "approved" => \A b \in Approver : votes'[i][b] # "rejected"
    BY <1>10, <1>a, <2>3 DEF DecideIntent, RecordsOK, Authorized
  <2>5. \/ status'[i] = "rejected"
        \/ vote = "approved" /\ UNCHANGED status
        \/ vote = "approved" /\ status'[i] = "approved" /\ Enough(i)
    BY <1>10, <1>a DEF DecideIntent, RecordsOK
  <2>6. Authorized(i)'
    BY <2>3, <2>4, <2>5 DEF Authorized, Committed, Underway, Enough
  <2> QED
    BY <2>1, <2>2, <2>6
<1>11. ASSUME Switch \/ Tick \/ UNCHANGED vars PROVE Goal
  BY <1>11, <1>c, <1>e DEF Switch, Tick, vars, records
<1> QED
  BY <1>1, <1>2, <1>3, <1>4, <1>5, <1>6, <1>7, <1>8, <1>9, <1>10, <1>11 DEF Next, WorkerStep

\* No intent is ever approved, executing or paid without the delegated
\* authority or the quorum the policy asks for, for any policy and however many
\* workers and approvers act at once (evaluateIntent, decideIntent).
THEOREM ApprovedByAuthority == Spec => []QuorumOrDelegated
<1>1. Init => AuthorityInv
  BY AuthorityInit
<1>2. AuthorityInv /\ [Next]_vars => AuthorityInv'
  BY AuthorityStep
<1>3. AuthorityInv => QuorumOrDelegated
  BY DEF AuthorityInv
<1> QED
  BY <1>1, <1>2, <1>3, PTL DEF Spec

(***************************************************************************)
(* A job for every request.  A status only ever moves on, a job exists     *)
(* from the status that posts it, and a worker is done with it only when   *)
(* the status is past those of which the job is owed.                      *)
(***************************************************************************)
Rank(s) ==
  CASE s = "absent" -> 0
    [] s = "received" -> 1
    [] s = "approval_required" -> 2
    [] s = "approved" -> 3
    [] s = "executing" -> 4
    [] s = "submitted" -> 5
    [] OTHER -> 6

\* The first and the last rank of the statuses of which a job is owed.
From(k) == CASE k = "evaluate" -> 1 [] k = "expire" -> 2 [] k = "execute" -> 3 [] OTHER -> 5
Till(k) == CASE k = "evaluate" -> 1 [] k = "expire" -> 2 [] k = "execute" -> 4 [] OTHER -> 5

PostedInTime == \A e \in jobs \cup dead : Rank(status[e[2]]) >= From(e[1])
HeldInTime == \A w \in Worker : at[w].pc # "idle" => Rank(status[IntentOf(w)]) >= From(at[w].job[1])
DoneIsPast == \A w \in Worker : at[w].pc = "done" => Rank(status[IntentOf(w)]) > Till(at[w].job[1])
AskedIsPending == \A i \in Intent : status[i] = "approval_required" => request[i] = "pending"
\* The handler is that of the job, where what it does next depends on it.
KindFits ==
  \A w \in Worker :
    /\ at[w].pc \in {"spend", "lapse", "refuse", "authorize", "ask"} => at[w].job[1] = "evaluate"
    /\ at[w].pc = "expiring" => at[w].job[1] = "expire"
    /\ at[w].pc \in {"recheck", "record", "resume", "run", "condemn"} => at[w].job[1] = "execute"

JobsInv == TypeInv /\ PostedInTime /\ HeldInTime /\ DoneIsPast /\ AskedIsPending /\ KindFits /\ NeverAbandoned

\* An intent is owed the job whose ranks hold its own.
LEMMA OwedByRank ==
  ASSUME NEW i \in Intent, TypeInv
  PROVE  /\ Rank(status[i]) \in 0..6
         /\ status[i] \notin {"absent"} \cup Terminal <=> Rank(status[i]) \in 1..5
         /\ \A k \in {"evaluate", "expire", "execute", "confirm"} :
              status[i] \notin {"absent"} \cup Terminal =>
                (Owed(i) = k <=> Rank(status[i]) >= From(k) /\ Rank(status[i]) <= Till(k))
<1>1. status[i] \in StatusSet
  BY DEF TypeInv, RecordsOK
<1> QED
  BY <1>1, StatusShape DEF Rank, From, Till, Owed, Terminal

\* No status is taken back.
LEMMA RankGrows ==
  ASSUME TypeInv, [Next]_vars
  PROVE  \A i \in Intent : Rank(status'[i]) >= Rank(status[i])
<1> DEFINE Grown == \A i \in Intent : Rank(status'[i]) >= Rank(status[i])
<1>0. status \in [Intent -> StatusSet] /\ \A i \in Intent : Rank(status[i]) \in 0..6
  BY OwedByRank DEF TypeInv, RecordsOK
<1>1. ASSUME NEW i \in Intent, NEW s, status' = [status EXCEPT ![i] = s], Rank(s) >= Rank(status[i])
      PROVE  Grown
  BY <1>0, <1>1
<1>2. CASE UNCHANGED status
  BY <1>0, <1>2
<1>3. ASSUME NEW i \in Intent, Create(i) PROVE Grown
  BY <1>1, <1>3 DEF Create, Rank
<1>4. ASSUME NEW w \in Worker, CommitIntake(w) PROVE Grown
  <2>1. IntentOf(w) \in Intent
    BY <1>4, InHand DEF CommitIntake, TypeInv
  <2>2. CASE UNCHANGED status
    BY <1>2, <2>2
  <2>3. ASSUME status[IntentOf(w)] = "received",
               NEW s \in {"expired", "rejected", "approved", "approval_required"},
               status' = [status EXCEPT ![IntentOf(w)] = s]
        PROVE  Grown
    BY <1>1, <2>1, <2>3 DEF Rank
  <2> QED
    BY <1>4, <2>2, <2>3 DEF CommitIntake, Become
<1>5. ASSUME NEW w \in Worker, ExpireApproval(w) PROVE Grown
  BY <1>1, <1>2, <1>5, InHand DEF ExpireApproval, Rank, TypeInv
<1>6. ASSUME NEW w \in Worker, RecordSimulation(w) PROVE Grown
  BY <1>0, <1>6 DEF RecordSimulation, Rank
<1>7. ASSUME NEW w \in Worker, Submit(w) \/ Confirm(w) PROVE Grown
  BY <1>1, <1>2, <1>7, InHand DEF Submit, Confirm, Rank, TypeInv
<1>8. ASSUME NEW w \in Worker, MarkFailed(w) PROVE Grown
  BY <1>0, <1>8 DEF MarkFailed, Rank
<1>9. ASSUME NEW a \in Approver, NEW i \in Intent, NEW vote \in {"approved", "rejected"},
             DecideIntent(a, i, vote)
      PROVE  Grown
  BY <1>1, <1>2, <1>9 DEF DecideIntent, Decidable, Rank
<1>10. ASSUME NEW w \in Worker,
             \/ Complete(w) \/ Interrupt(w) \/ ReadIntake(w) \/ DecideIntake(w)
             \/ ReadExecution(w) \/ Recheck(w) \/ Resume(w)
             \/ \E e \in Job : Take(w, e)
      PROVE  UNCHANGED status
  BY <1>10 DEF Complete, Interrupt, ReadIntake, DecideIntake, ReadExecution, Recheck, Resume, Take, records
<1>11. Switch \/ Tick \/ UNCHANGED vars => UNCHANGED status
  BY DEF Switch, Tick, vars, records
<1> QED
  BY <1>2, <1>3, <1>4, <1>5, <1>6, <1>7, <1>8, <1>9, <1>10, <1>11 DEF Next, WorkerStep

\* What a job or a worker that is done needs of a status, a later one has too.
LEMMA JobsStay ==
  ASSUME JobsInv, TypeInv', [Next]_vars, jobs \cup dead \subseteq jobs' \cup dead',
         \A e \in (jobs' \cup dead') \ (jobs \cup dead) : Rank(status'[e[2]]) >= From(e[1]),
         \A i \in Intent : status'[i] = status[i] \/ status'[i] \in {"absent"} \cup Terminal
                           \/ <<Owed(i)', i>> \in jobs' \cup dead' \/ {status[i], status'[i]} \subseteq {"approved", "executing"}
  PROVE  PostedInTime' /\ NeverAbandoned'
<1>1. \A i \in Intent : Rank(status[i]) \in 0..6 /\ Rank(status'[i]) \in 0..6 /\ Rank(status'[i]) >= Rank(status[i])
  <2>1. \A i \in Intent : Rank(status'[i]) \in 0..6
    BY StatusShape DEF TypeInv, RecordsOK, Rank
  <2> QED
    BY <2>1, RankGrows, OwedByRank DEF JobsInv
<1>2. PostedInTime'
  <2> SUFFICES ASSUME NEW e \in jobs' \cup dead' PROVE Rank(status'[e[2]]) >= From(e[1])
    BY DEF PostedInTime
  <2>1. CASE e \notin jobs \cup dead
    BY <2>1
  <2>2. CASE e \in jobs \cup dead
    <3>1. e[2] \in Intent /\ From(e[1]) \in Nat /\ Rank(status[e[2]]) >= From(e[1])
      BY <2>2, JobShape DEF JobsInv, TypeInv, RecordsOK, PostedInTime, From
    <3> QED
      BY <1>1, <3>1
  <2> QED
    BY <2>1, <2>2
<1>3. NeverAbandoned'
  <2> SUFFICES ASSUME NEW i \in Intent, status'[i] \notin {"absent"} \cup Terminal
               PROVE  <<Owed(i)', i>> \in jobs' \cup dead'
    BY DEF NeverAbandoned
  <2>1. CASE status'[i] = status[i] \/ {status[i], status'[i]} \subseteq {"approved", "executing"}
    <3>1. Owed(i)' = Owed(i) /\ status[i] \notin {"absent"} \cup Terminal
      BY <2>1 DEF Owed, Terminal
    <3> QED
      BY <3>1 DEF JobsInv, NeverAbandoned
  <2> QED
    BY <2>1
<1> QED
  BY <1>2, <1>3

\* A worker that stays at its job, lets it go, or has one that is due, is done only
\* with what is past.
LEMMA WorkersStay ==
  ASSUME JobsInv, TypeInv', [Next]_vars, NEW w \in Worker,
         \A v \in Worker : v # w => at'[v] = at[v],
         \/ at'[w] = at[w] \/ at'[w].pc = "idle"
         \/ /\ Rank(status'[at'[w].job[2]]) >= From(at'[w].job[1])
            /\ at'[w].pc = "done" => Rank(status'[at'[w].job[2]]) > Till(at'[w].job[1])
            /\ at'[w].pc \in {"spend", "lapse", "refuse", "authorize", "ask"} => at'[w].job[1] = "evaluate"
            /\ at'[w].pc = "expiring" => at'[w].job[1] = "expire"
            /\ at'[w].pc \in {"recheck", "record", "resume", "run", "condemn"} => at'[w].job[1] = "execute"
  PROVE  HeldInTime' /\ DoneIsPast' /\ KindFits'
<1>1. KindFits'
  BY DEF JobsInv, KindFits
<1>2. ASSUME NEW v \in Worker, at'[v] = at[v], at[v].pc # "idle"
      PROVE  /\ Rank(status'[at[v].job[2]]) >= From(at[v].job[1])
             /\ at[v].pc = "done" => Rank(status'[at[v].job[2]]) > Till(at[v].job[1])
  <2>1. at[v].job \in Job /\ at[v].job[2] \in Intent
    BY <1>2, JobShape DEF JobsInv, TypeInv, HandsOK
  <2>2. Till(at[v].job[1]) \in Nat /\ From(at[v].job[1]) \in Nat
    BY DEF From, Till
  <2>3. /\ Rank(status[at[v].job[2]]) >= From(at[v].job[1])
        /\ at[v].pc = "done" => Rank(status[at[v].job[2]]) > Till(at[v].job[1])
    BY <1>2 DEF JobsInv, HeldInTime, DoneIsPast, IntentOf
  <2>4. Rank(status'[at[v].job[2]]) >= Rank(status[at[v].job[2]])
    BY <2>1, RankGrows DEF JobsInv
  <2>5. Rank(status[at[v].job[2]]) \in Nat /\ Rank(status'[at[v].job[2]]) \in Nat
    BY DEF Rank
  <2> QED
    BY <2>2, <2>3, <2>4, <2>5
<1>3. HeldInTime'
  BY <1>2 DEF HeldInTime, IntentOf
<1>4. DoneIsPast'
  BY <1>2 DEF DoneIsPast, IntentOf
<1> QED
  BY <1>1, <1>3, <1>4

\* The job a worker has in hand, and the ranks its intent may have.
LEMMA Hand ==
  ASSUME JobsInv, NEW w \in Worker, at[w].pc # "idle"
  PROVE  /\ IntentOf(w) \in Intent /\ at[w].job \in Job
         /\ at[w].job[1] \in {"evaluate", "expire", "execute", "confirm"}
         /\ status[IntentOf(w)] \in StatusSet
         /\ Rank(status[IntentOf(w)]) >= From(at[w].job[1])
BY InHand, JobShape DEF JobsInv, TypeInv, HandsOK, RecordsOK, HeldInTime

\* The workers: every handler leaves its job for done only past its ranks.
LEMMA HandsStep == JobsInv /\ [Next]_vars => HeldInTime' /\ DoneIsPast' /\ KindFits'
<1> DEFINE Goal == HeldInTime' /\ DoneIsPast' /\ KindFits'
<1> SUFFICES ASSUME JobsInv, [Next]_vars PROVE Goal
  OBVIOUS
<1>0. TypeInv /\ HandsOK /\ TypeInv'
  BY TypeStep DEF JobsInv, TypeInv
<1>1. ASSUME NEW w \in Worker, UNCHANGED at PROVE Goal
  BY <1>0, <1>1, WorkersStay
<1>2. ASSUME NEW w \in Worker, at' = [at EXCEPT ![w] = Idle] PROVE Goal
  BY <1>0, <1>2, IdleEffect, WorkersStay
<1>3. ASSUME NEW w \in Worker, NEW pc \in Pc, at[w].pc # "idle", Goto(w, pc),
             pc = "done" => Rank(status'[IntentOf(w)]) > Till(at[w].job[1]),
             pc \in {"spend", "lapse", "refuse", "authorize", "ask"} => at[w].job[1] = "evaluate",
             pc # "expiring",
             pc \in {"recheck", "record", "resume", "run", "condemn"} => at[w].job[1] = "execute"
      PROVE  Goal
  <2>1. at'[w].pc = pc /\ at'[w].job = at[w].job /\ \A v \in Worker : v # w => at'[v] = at[v]
    BY <1>0, <1>3, GotoEffect
  <2>2. Rank(status'[IntentOf(w)]) >= From(at[w].job[1])
    <3>1. Rank(status'[IntentOf(w)]) >= Rank(status[IntentOf(w)])
      BY <1>0, <1>3, Hand, RankGrows
    <3>2. /\ Rank(status[IntentOf(w)]) \in Nat /\ Rank(status'[IntentOf(w)]) \in Nat
          /\ From(at[w].job[1]) \in Nat
      BY DEF Rank, From
    <3> QED
      BY <1>3, <3>1, <3>2, Hand
  <2> QED
    BY <1>0, <1>3, <2>1, <2>2, WorkersStay DEF IntentOf
<1>4. ASSUME NEW w \in Worker, NEW e \in Job, Take(w, e) PROVE Goal
  <2>1. /\ at'[w].job = e /\ at'[w].pc \in {"context", "expiring"}
        /\ at'[w].pc = "expiring" <=> e[1] = "expire"
        /\ \A v \in Worker : v # w => at'[v] = at[v]
    BY <1>0, <1>4 DEF Take, HandsOK
  <2>2. Rank(status'[e[2]]) >= From(e[1])
    BY <1>4 DEF Take, JobsInv, PostedInTime, records
  <2> QED
    BY <1>0, <2>1, <2>2, WorkersStay
<1>5. ASSUME NEW w \in Worker, ReadIntake(w) PROVE Goal
  <2>1. CASE at' = [at EXCEPT ![w] = [@ EXCEPT !.pc = "spend", !.auto = autonomous]]
    <3>1. at'[w] = [at[w] EXCEPT !.pc = "spend", !.auto = autonomous] /\ \A v \in Worker : v # w => at'[v] = at[v]
      BY <1>0, <2>1 DEF HandsOK
    <3>2. at'[w].pc = "spend" /\ at'[w].job = at[w].job
      BY <1>0, <3>1 DEF HandsOK, HandState
    <3>3. at[w].job[1] = "evaluate" /\ at[w].pc # "idle" /\ UNCHANGED status
      BY <1>5 DEF ReadIntake, records
    <3>4. Rank(status'[at'[w].job[2]]) >= From(at'[w].job[1])
      BY <3>2, <3>3, Hand DEF IntentOf
    <3> QED
      BY <1>0, <3>1, <3>2, <3>3, <3>4, WorkersStay
  <2>2. CASE Goto(w, "lapse") \/ Goto(w, "refuse")
    BY <1>3, <1>5, <2>2 DEF ReadIntake, Pc
  <2>3. CASE status[IntentOf(w)] # "received" /\ Goto(w, "done")
    <3>1. Rank(status'[IntentOf(w)]) > Till(at[w].job[1])
      BY <1>5, <2>3, Hand, StatusShape DEF ReadIntake, records, Rank, From, Till
    <3> QED
      BY <1>3, <1>5, <2>3, <3>1 DEF ReadIntake, Pc
  <2> QED
    BY <1>5, <2>1, <2>2, <2>3 DEF ReadIntake
<1>6. ASSUME NEW w \in Worker, DecideIntake(w) PROVE Goal
  <2>1. at[w].job[1] = "evaluate"
    BY <1>6 DEF DecideIntake, JobsInv, KindFits
  <2> QED
    BY <1>3, <1>6, <2>1 DEF DecideIntake, Pc
<1>7. ASSUME NEW w \in Worker, CommitIntake(w) PROVE Goal
  <2>1. at[w].job[1] = "evaluate" /\ at[w].pc # "idle" /\ Goto(w, "done")
    BY <1>7 DEF CommitIntake, JobsInv, KindFits
  <2>2. IntentOf(w) \in Intent /\ status \in [Intent -> StatusSet]
    BY <1>0, <2>1, Hand DEF TypeInv, RecordsOK
  <2>3. status'[IntentOf(w)] \in StatusSet \ {"absent", "received"}
    <3>1. CASE status[IntentOf(w)] # "received" /\ UNCHANGED status
      BY <2>1, <3>1, Hand, StatusShape DEF Rank, From
    <3>2. CASE status[IntentOf(w)] = "received"
      BY <1>7, <2>2, <3>2, StatusShape DEF CommitIntake, Become
    <3> QED
      BY <1>7, <3>1, <3>2 DEF CommitIntake
  <2>4. Rank(status'[IntentOf(w)]) > Till(at[w].job[1])
    BY <2>1, <2>3, StatusShape DEF Rank, Till
  <2> QED
    BY <1>3, <2>1, <2>4 DEF Pc
<1>8. ASSUME NEW w \in Worker, ExpireApproval(w) PROVE Goal
  <2>1. at[w].job[1] = "expire" /\ at[w].pc # "idle" /\ Goto(w, "done")
    BY <1>8 DEF ExpireApproval, JobsInv, KindFits
  <2>2. IntentOf(w) \in Intent /\ status \in [Intent -> StatusSet]
    BY <1>0, <2>1, Hand DEF TypeInv, RecordsOK
  <2>3. status'[IntentOf(w)] \in StatusSet \ {"absent", "received", "approval_required"}
    <3>1. CASE status[IntentOf(w)] = "approval_required"
      BY <1>8, <2>2, <3>1, StatusShape DEF ExpireApproval, JobsInv, AskedIsPending
    <3>2. CASE status[IntentOf(w)] # "approval_required"
      BY <1>8, <2>1, <3>2, Hand, StatusShape DEF ExpireApproval, Rank, From
    <3> QED
      BY <3>1, <3>2
  <2>4. Rank(status'[IntentOf(w)]) > Till(at[w].job[1])
    BY <2>1, <2>3, StatusShape DEF Rank, Till
  <2> QED
    BY <1>3, <2>1, <2>4 DEF Pc
<1>9. ASSUME NEW w \in Worker, ReadExecution(w) PROVE Goal
  <2>1. at[w].job[1] = "execute" /\ at[w].pc # "idle" /\ UNCHANGED status
    BY <1>9 DEF ReadExecution, records
  <2>2. CASE \E pc \in {"condemn", "recheck", "resume"} : Goto(w, pc)
    BY <1>3, <2>1, <2>2 DEF Pc
  <2>3. CASE status[IntentOf(w)] \notin {"approved", "executing"} /\ Goto(w, "done")
    <3>1. Rank(status'[IntentOf(w)]) > Till(at[w].job[1])
      BY <2>1, <2>3, Hand, StatusShape DEF Rank, From, Till
    <3> QED
      BY <1>3, <2>1, <2>3, <3>1 DEF Pc
  <2> QED
    BY <1>9, <2>2, <2>3 DEF ReadExecution
<1>10. ASSUME NEW w \in Worker, Recheck(w) \/ RecordSimulation(w) \/ Resume(w) PROVE Goal
  <2>1. at[w].job[1] = "execute" /\ at[w].pc # "idle"
    BY <1>10 DEF Recheck, RecordSimulation, Resume, JobsInv, KindFits
  <2>2. \E pc \in {"condemn", "record", "run"} : Goto(w, pc)
    BY <1>10 DEF Recheck, RecordSimulation, Resume
  <2> QED
    BY <1>3, <2>1, <2>2 DEF Pc
<1>11. ASSUME NEW w \in Worker, Submit(w) \/ MarkFailed(w) PROVE Goal
  <2>1. at[w].job[1] = "execute" /\ at[w].pc # "idle" /\ Goto(w, "done")
    BY <1>11 DEF Submit, MarkFailed, JobsInv, KindFits
  <2>2. IntentOf(w) \in Intent /\ status \in [Intent -> StatusSet]
    BY <1>0, <2>1, Hand DEF TypeInv, RecordsOK
  <2>3. status'[IntentOf(w)] \in {"submitted"} \cup Terminal
    BY <1>11, <2>2 DEF Submit, MarkFailed, Terminal
  <2>4. Rank(status'[IntentOf(w)]) > Till(at[w].job[1])
    BY <2>1, <2>3 DEF Rank, Till, Terminal
  <2> QED
    BY <1>3, <2>1, <2>4 DEF Pc
<1>12. ASSUME NEW w \in Worker, Confirm(w) PROVE Goal
  <2>1. at[w].job[1] = "confirm" /\ at[w].pc # "idle"
    BY <1>12 DEF Confirm
  <2>2. IntentOf(w) \in Intent /\ status \in [Intent -> StatusSet]
    BY <1>0, <2>1, Hand DEF TypeInv, RecordsOK
  <2>3. CASE GiveBack(w)
    BY <1>2, <2>3 DEF GiveBack
  <2>4. CASE Goto(w, "done") /\ (\/ UNCHANGED status /\ status[IntentOf(w)] # "submitted"
                                 \/ \E s \in {"paid", "failed"} : status' = [status EXCEPT ![IntentOf(w)] = s])
    <3>1. status'[IntentOf(w)] \in Terminal
      BY <2>1, <2>2, <2>4, Hand, StatusShape DEF Rank, From, Terminal
    <3>2. Rank(status'[IntentOf(w)]) > Till(at[w].job[1])
      BY <2>1, <3>1 DEF Rank, Till, Terminal
    <3> QED
      BY <1>3, <2>1, <2>4, <3>2 DEF Pc
  <2> QED
    BY <1>12, <2>3, <2>4 DEF Confirm
<1>13. ASSUME NEW w \in Worker, Complete(w) \/ Interrupt(w) PROVE Goal
  BY <1>2, <1>13 DEF Complete, Interrupt, GiveBack
<1>14. CASE \/ \E i \in Intent : Create(i)
            \/ \E a \in Approver, i \in Intent, vote \in {"approved", "rejected"} : DecideIntent(a, i, vote)
            \/ Switch \/ Tick \/ UNCHANGED vars
  <2>1. UNCHANGED at
    BY <1>14 DEF Create, DecideIntent, Switch, Tick, vars
  <2>2. CASE Worker = {}
    BY <2>2 DEF HeldInTime, DoneIsPast, KindFits
  <2> QED
    BY <1>1, <2>1, <2>2
<1> QED
  BY <1>4, <1>5, <1>6, <1>7, <1>8, <1>9, <1>10, <1>11, <1>12, <1>13, <1>14 DEF Next, WorkerStep

\* A request waits for approvers as long as its intent does.
LEMMA AskedStep == TypeInv /\ AskedIsPending /\ [Next]_vars => AskedIsPending'
<1> SUFFICES ASSUME TypeInv, AskedIsPending, [Next]_vars PROVE AskedIsPending'
  OBVIOUS
<1>0. status \in [Intent -> StatusSet] /\ request \in [Intent -> {"none", "pending", "approved", "rejected", "expired"}]
  BY DEF TypeInv, RecordsOK
<1>1. CASE UNCHANGED <<status, request>>
  BY <1>1 DEF AskedIsPending
<1>2. ASSUME NEW i \in Intent, NEW s \in StatusSet \ {"approval_required"},
             status' = [status EXCEPT ![i] = s],
             UNCHANGED request \/ \E r : request' = [request EXCEPT ![i] = r]
      PROVE  AskedIsPending'
  BY <1>0, <1>2 DEF AskedIsPending
<1>3. ASSUME NEW i \in Intent, Create(i) PROVE AskedIsPending'
  BY <1>2, <1>3, StatusShape DEF Create
<1>4. ASSUME NEW w \in Worker, CommitIntake(w) PROVE AskedIsPending'
  <2>1. IntentOf(w) \in Intent
    BY <1>4, InHand DEF CommitIntake, TypeInv
  <2>2. CASE UNCHANGED <<status, request>>
    BY <1>1, <2>2
  <2>3. ASSUME NEW s \in {"expired", "rejected", "approved"}, NEW d, NEW r, NEW new,
               Become(IntentOf(w), s, d, r, new)
        PROVE  AskedIsPending'
    BY <1>2, <2>1, <2>3, StatusShape DEF Become
  <2>4. CASE Become(IntentOf(w), "approval_required", "approval_required", "pending", Expiry(IntentOf(w)))
    BY <1>0, <2>1, <2>4 DEF Become, AskedIsPending
  <2> QED
    BY <1>4, <2>2, <2>3, <2>4 DEF CommitIntake
<1>5. ASSUME NEW w \in Worker, ExpireApproval(w) PROVE AskedIsPending'
  BY <1>1, <1>2, <1>5, InHand, StatusShape DEF ExpireApproval, TypeInv
<1>6. ASSUME NEW w \in Worker, RecordSimulation(w) \/ MarkFailed(w) PROVE AskedIsPending'
  BY <1>0, <1>6 DEF RecordSimulation, MarkFailed, AskedIsPending, Terminal
<1>7. ASSUME NEW w \in Worker, Submit(w) \/ Confirm(w) PROVE AskedIsPending'
  BY <1>1, <1>2, <1>7, InHand, StatusShape DEF Submit, Confirm, TypeInv
<1>8. ASSUME NEW a \in Approver, NEW i \in Intent, NEW vote \in {"approved", "rejected"},
             DecideIntent(a, i, vote)
      PROVE  AskedIsPending'
  BY <1>1, <1>2, <1>8, StatusShape DEF DecideIntent
<1>9. ASSUME NEW w \in Worker,
             \/ Complete(w) \/ Interrupt(w) \/ ReadIntake(w) \/ DecideIntake(w)
             \/ ReadExecution(w) \/ Recheck(w) \/ Resume(w)
             \/ \E e \in Job : Take(w, e)
      PROVE  UNCHANGED <<status, request>>
  BY <1>9 DEF Complete, Interrupt, ReadIntake, DecideIntake, ReadExecution, Recheck, Resume, Take, records
<1>10. Switch \/ Tick \/ UNCHANGED vars => UNCHANGED <<status, request>>
  BY DEF Switch, Tick, vars, records
<1> QED
  BY <1>1, <1>3, <1>4, <1>5, <1>6, <1>7, <1>8, <1>9, <1>10 DEF Next, WorkerStep

\* Nothing else than what is past is deleted, and a new status comes with its job.
LEMMA QueueStep == JobsInv /\ [Next]_vars => PostedInTime' /\ NeverAbandoned'
<1> DEFINE Goal == PostedInTime' /\ NeverAbandoned'
<1> SUFFICES ASSUME JobsInv, [Next]_vars PROVE Goal
  OBVIOUS
<1>0. /\ TypeInv /\ TypeInv'
      /\ status \in [Intent -> StatusSet] /\ status' \in [Intent -> StatusSet]
  BY TypeStep DEF JobsInv, TypeInv, RecordsOK
<1>1. CASE UNCHANGED <<status, jobs, dead>>
  BY <1>1 DEF JobsInv, PostedInTime, NeverAbandoned, Owed, Terminal
<1>2. ASSUME NEW i \in Intent, NEW s \in {"absent"} \cup Terminal, status' = [status EXCEPT ![i] = s],
             UNCHANGED queue
      PROVE  Goal
  BY <1>0, <1>2, JobsStay DEF queue
<1> DEFINE Posts(i, s, k) ==
             /\ status' = [status EXCEPT ![i] = s]
             /\ jobs' = jobs \cup {<<k, i>>} /\ UNCHANGED dead
<1>3. ASSUME NEW i \in Intent, NEW s, NEW k, Posts(i, s, k),
             \/ s = "received" /\ k = "evaluate"
             \/ s = "approval_required" /\ k = "expire"
             \/ s = "approved" /\ k = "execute"
             \/ s = "submitted" /\ k = "confirm"
      PROVE  Goal
  <2>1. status'[i] = s /\ \A j \in Intent : j # i => status'[j] = status[j]
    BY <1>0, <1>3
  <2>2. Owed(i)' = k /\ Rank(s) >= From(k)
    BY <1>3, <2>1 DEF Owed, Rank, From
  <2>3. \A e \in (jobs' \cup dead') \ (jobs \cup dead) : Rank(status'[e[2]]) >= From(e[1])
    BY <1>3, <2>1, <2>2
  <2>4. \A j \in Intent : status'[j] = status[j] \/ <<Owed(j)', j>> \in jobs' \cup dead'
    <3>1. <<Owed(i)', i>> \in jobs' \cup dead'
      BY <1>3, <2>2
    <3> QED
      BY <2>1, <3>1
  <2>5. jobs \cup dead \subseteq jobs' \cup dead'
    BY <1>3
  <2> QED
    BY <1>0, <2>3, <2>4, <2>5, JobsStay
<1>4. ASSUME NEW i \in Intent, Create(i) PROVE Goal
  <2>1. Posts(i, "received", "evaluate")
    BY <1>4 DEF Create
  <2> HIDE DEF Posts
  <2> QED
    BY <1>3, <2>1
<1>5. ASSUME NEW w \in Worker, CommitIntake(w) PROVE Goal
  <2>1. IntentOf(w) \in Intent /\ UNCHANGED dead
    BY <1>0, <1>5, InHand DEF CommitIntake, TypeInv
  <2>2. CASE UNCHANGED <<status, jobs>>
    BY <1>1, <2>1, <2>2
  <2>3. ASSUME NEW s \in {"expired", "rejected"}, NEW d, NEW r, Become(IntentOf(w), s, d, r, {})
        PROVE  Goal
    BY <1>2, <2>1, <2>3 DEF Become, queue, Terminal
  <2>4. CASE Become(IntentOf(w), "approved", "auto_authorized", "approved", {<<"execute", IntentOf(w)>>})
    <3>1. Posts(IntentOf(w), "approved", "execute")
      BY <2>1, <2>4 DEF Become
    <3> HIDE DEF Posts
    <3> QED
      BY <1>3, <2>1, <3>1
  <2>5. CASE Become(IntentOf(w), "approval_required", "approval_required", "pending", Expiry(IntentOf(w)))
    <3>1. Posts(IntentOf(w), "approval_required", "expire")
      BY <2>1, <2>5 DEF Become, Expiry
    <3> HIDE DEF Posts
    <3> QED
      BY <1>3, <2>1, <3>1
  <2> QED
    BY <1>5, <2>2, <2>3, <2>4, <2>5 DEF CommitIntake
<1>6. ASSUME NEW w \in Worker, ExpireApproval(w) PROVE Goal
  <2>1. IntentOf(w) \in Intent
    BY <1>0, <1>6, InHand DEF ExpireApproval, TypeInv
  <2> QED
    BY <1>1, <1>2, <1>6, <2>1 DEF ExpireApproval, queue, Terminal
<1>7. ASSUME NEW w \in Worker, RecordSimulation(w) PROVE Goal
  <2>1. \A i \in Intent : status'[i] = status[i] \/ {status[i], status'[i]} \subseteq {"approved", "executing"}
    BY <1>0, <1>7 DEF RecordSimulation
  <2> QED
    BY <1>0, <1>7, <2>1, JobsStay DEF RecordSimulation, queue
<1>8. ASSUME NEW w \in Worker, Submit(w) PROVE Goal
  <2>1. IntentOf(w) \in Intent
    BY <1>0, <1>8, InHand DEF Submit, TypeInv
  <2> QED
    <3>1. Posts(IntentOf(w), "submitted", "confirm")
      BY <1>8 DEF Submit
    <3> HIDE DEF Posts
    <3> QED
      BY <1>3, <2>1, <3>1
<1>9. ASSUME NEW w \in Worker, Confirm(w) PROVE Goal
  <2>1. IntentOf(w) \in Intent
    BY <1>0, <1>9, InHand DEF Confirm, TypeInv
  <2> QED
    BY <1>1, <1>2, <1>9, <2>1 DEF Confirm, queue, Terminal
<1>10. ASSUME NEW w \in Worker, MarkFailed(w) PROVE Goal
  <2>1. \A i \in Intent : status'[i] = status[i] \/ status'[i] \in Terminal
    BY <1>0, <1>10 DEF MarkFailed, Terminal
  <2> QED
    BY <1>0, <1>10, <2>1, JobsStay DEF MarkFailed, queue
<1>11. ASSUME NEW a \in Approver, NEW i \in Intent, NEW vote \in {"approved", "rejected"},
             DecideIntent(a, i, vote)
      PROVE  Goal
  <2>1. CASE UNCHANGED <<status, jobs>>
    BY <1>1, <1>11, <2>1 DEF DecideIntent
  <2>2. CASE status' = [status EXCEPT ![i] = "rejected"] /\ UNCHANGED jobs
    BY <1>2, <1>11, <2>2 DEF DecideIntent, queue, Terminal
  <2>3. CASE status' = [status EXCEPT ![i] = "approved"] /\ jobs' = jobs \cup {<<"execute", i>>}
    <3>1. Posts(i, "approved", "execute")
      BY <1>11, <2>3 DEF DecideIntent
    <3> HIDE DEF Posts
    <3> QED
      BY <1>3, <3>1
  <2> QED
    BY <1>11, <2>1, <2>2, <2>3 DEF DecideIntent
<1>12. ASSUME NEW w \in Worker, Interrupt(w) PROVE Goal
  <2>1. CASE UNCHANGED queue
    BY <1>1, <1>12, <2>1 DEF Interrupt, queue, records
  <2>2. CASE jobs' = jobs \ {at[w].job} /\ dead' = dead \cup {at[w].job}
    <3>1. jobs' \cup dead' = jobs \cup dead \cup {at[w].job} /\ UNCHANGED status
      BY <1>12, <2>2 DEF Interrupt, records
    <3>2. Rank(status[at[w].job[2]]) >= From(at[w].job[1])
      BY <1>12, Hand DEF Interrupt, IntentOf
    <3> QED
      BY <1>0, <3>1, <3>2, JobsStay
  <2> QED
    BY <1>12, <2>1, <2>2 DEF Interrupt
<1>13. ASSUME NEW w \in Worker, Complete(w) PROVE Goal
  <2>1. UNCHANGED <<status, dead>> /\ jobs' = jobs \ {at[w].job}
    BY <1>13 DEF Complete, records
  <2>2. PostedInTime'
    BY <2>1 DEF JobsInv, PostedInTime
  <2>3. NeverAbandoned'
    <3> SUFFICES ASSUME NEW i \in Intent, status[i] \notin {"absent"} \cup Terminal
                 PROVE  <<Owed(i), i>> \in (jobs \ {at[w].job}) \cup dead
      BY <2>1 DEF NeverAbandoned, Owed, Terminal
    <3>1. <<Owed(i), i>> \in jobs \cup dead
      BY DEF JobsInv, NeverAbandoned
    <3>2. CASE <<Owed(i), i>> = at[w].job
      <4>1. i = IntentOf(w) /\ at[w].job[1] = Owed(i)
        BY <3>2 DEF IntentOf
      <4>2. Rank(status[i]) > Till(at[w].job[1])
        BY <1>13, <4>1 DEF Complete, JobsInv, DoneIsPast
      <4>3. Rank(status[i]) <= Till(Owed(i))
        BY <1>0, StatusShape DEF Rank, Till, Owed, Terminal
      <4>4. Rank(status[i]) \in Nat /\ Till(Owed(i)) \in Nat
        BY DEF Rank, Till
      <4> QED
        BY <4>1, <4>2, <4>3, <4>4
    <3> QED
      BY <3>1, <3>2
  <2> QED
    BY <2>2, <2>3
<1>14. ASSUME NEW w \in Worker,
             \/ ReadIntake(w) \/ DecideIntake(w) \/ ReadExecution(w) \/ Recheck(w) \/ Resume(w)
             \/ \E e \in Job : Take(w, e)
      PROVE  UNCHANGED <<status, jobs, dead>>
  BY <1>14 DEF ReadIntake, DecideIntake, ReadExecution, Recheck, Resume, Take, records, queue
<1>15. Switch \/ Tick \/ UNCHANGED vars => UNCHANGED <<status, jobs, dead>>
  BY DEF Switch, Tick, vars, records, queue
<1> QED
  BY <1>1, <1>4, <1>5, <1>6, <1>7, <1>8, <1>9, <1>10, <1>11, <1>12, <1>13, <1>14, <1>15 DEF Next, WorkerStep

\* A request that has not ended has the job that takes it further, for any number
\* of intents, workers and approvers and any faults: a worker that completes a job
\* has seen or made its intent pass beyond it (evaluateIntent, decideIntent,
\* expireApproval, markSubmitted, runOnce).
THEOREM RequestsKeepTheirJob == Spec => []NeverAbandoned
<1>1. Init => JobsInv
  <2>1. Init => PostedInTime /\ HeldInTime /\ DoneIsPast /\ AskedIsPending /\ KindFits /\ NeverAbandoned
    BY DEF Init, Idle, PostedInTime, HeldInTime, DoneIsPast, AskedIsPending, KindFits, NeverAbandoned
  <2> QED
    BY <2>1, TypeInit DEF JobsInv
<1>2. JobsInv /\ [Next]_vars => JobsInv'
  BY TypeStep, QueueStep, HandsStep, AskedStep DEF JobsInv
<1>3. JobsInv => NeverAbandoned
  BY DEF JobsInv
<1> QED
  BY <1>1, <1>2, <1>3, PTL DEF Spec

(***************************************************************************)
(* The daily limit.  WithinDailyLimit is about the moments at which        *)
(* executions started; what makes it inductive is about now: the intents   *)
(* that started, and those that a worker found room for and will start,    *)
(* fit the limit as far as they are a day old or less.                     *)
(***************************************************************************)
\* A handler is at work on a job of its kind; what passed the recheck is still approved.
HandsFit ==
  \A w \in Worker :
    /\ at[w].pc \in {"recheck", "record"} =>
         at[w].job[1] = "execute" /\ status[IntentOf(w)] = "approved"
    /\ at[w].pc \in {"resume", "run", "condemn"} => at[w].job[1] = "execute"

\* No two workers have one job.
OneHolder ==
  \A w, v \in Worker : w # v /\ at[w].pc # "idle" => at[w].job # at[v].job

\* Executions started in the past, and of what is paid or being paid.
Timing ==
  \A i \in Intent :
    /\ executedAt[i] <= now
    /\ executedAt[i] >= 0 => status[i] \in Underway \cup {"failed"}
    /\ status[i] \in Underway => executedAt[i] >= 0

\* The intents that started, and those that are about to.
Passed(i) == Started(i) \/ \E w \in Worker : at[w].pc = "record" /\ IntentOf(w) = i
Recent == {i \in Intent : Passed(i) /\ created[i] > now - Day}
Room == Total(Recent) <= DailyLimit

\* What the limit is held against when i started.
Against(i) == {j \in Intent : /\ Started(j) /\ executedAt[j] <= executedAt[i]
                              /\ created[j] > executedAt[i] - Day}

\* The library's sum is the one of Sums_proofs.
LEMMA TotalIsSum == ASSUME NEW S PROVE Total(S) = SumOver(Amount, S)
BY DEF Total, MapThenSumSet, MapThenFoldSet, SumOver, Adds, Pick

\* Fewer intents have a smaller total.
LEMMA TotalOfPart ==
  ASSUME NEW S \in SUBSET Intent, NEW T \in SUBSET S
  PROVE  Total(T) \in Nat /\ Total(S) \in Nat /\ Total(T) <= Total(S)
<1>1. IsFiniteSet(S) /\ IsFiniteSet(T) /\ \A i \in S : Amount[i] \in Nat
  BY AuthorizationAssumption, FS_Subset
<1>2. SumOver(Amount, T) \in Nat /\ SumOver(Amount, S) \in Nat
  BY <1>1, SumType
<1>3. SumOver(Amount, T) <= SumOver(Amount, S)
  BY <1>1, SumOfPart
<1> QED
  BY <1>2, <1>3, TotalIsSum

\* One more intent adds its amount.
LEMMA TotalWith ==
  ASSUME NEW S \in SUBSET Intent, NEW i \in Intent, i \notin S
  PROVE  Total(S \cup {i}) = Amount[i] + Total(S)
<1>1. IsFiniteSet(S) /\ \A j \in S \cup {i} : Amount[j] \in Int
  BY AuthorizationAssumption, FS_Subset
<1>2. SumOver(Amount, S \cup {i}) = SumOver(Amount, S) + Amount[i]
  BY <1>1, SumAdds
<1>3. SumOver(Amount, S) \in Nat /\ Amount[i] \in Nat
  BY TotalOfPart, TotalIsSum, AuthorizationAssumption
<1> HIDE AuthorizationAssumption
<1> DEFINE rest == SumOver(Amount, S)
<1>4. Total(S \cup {i}) = rest + Amount[i] /\ Total(S) = rest
  BY <1>2, TotalIsSum
<1> HIDE DEF rest
<1> QED
  BY <1>3, <1>4 DEF rest

\* A set within a set that fits the limit fits it.
LEMMA FitsPart ==
  ASSUME NEW S \in SUBSET Intent, NEW T \in SUBSET S, Total(S) <= DailyLimit
  PROVE  Total(T) <= DailyLimit
BY TotalOfPart, AuthorizationAssumption


\* Jobs that agree in kind and intent are one.
LEMMA SameJob ==
  ASSUME NEW e \in Job, NEW f \in Job, e[1] = f[1], e[2] = f[2]
  PROVE  e = f
BY DEF Job

\* A worker goes on with its job, gives it up, or takes one nobody has.
Moves(w) ==
  /\ \A v \in Worker : v # w => at'[v] = at[v]
  /\ \/ at[w].pc # "idle" /\ at'[w].pc # "idle" /\ at'[w].job = at[w].job
     \/ at'[w].pc = "idle" /\ at'[w].job \notin Job
     \/ \A v \in Worker : at[v].job # at'[w].job

\* Whatever happens, at most one worker moves.
LEMMA OneMoves == TypeInv /\ [Next]_vars => UNCHANGED at \/ \E w \in Worker : Moves(w)
<1> SUFFICES ASSUME TypeInv, [Next]_vars PROVE UNCHANGED at \/ \E w \in Worker : Moves(w)
  OBVIOUS
<1>0. HandsOK
  BY DEF TypeInv
<1>1. ASSUME NEW w \in Worker, NEW pc \in Pc \ {"idle"}, at[w].pc # "idle", Goto(w, pc)
      PROVE  Moves(w)
  BY <1>0, <1>1, GotoEffect DEF Moves
<1>2. ASSUME NEW w \in Worker, at' = [at EXCEPT ![w] = Idle] PROVE Moves(w)
  <2>1. at'[w] = Idle /\ \A v \in Worker : v # w => at'[v] = at[v]
    BY <1>0, <1>2 DEF HandsOK
  <2>2. <<"none", NoIntent>> \notin Job
    BY AuthorizationAssumption DEF Job
  <2> QED
    BY <2>1, <2>2 DEF Moves, Idle
<1>3. ASSUME NEW w \in Worker, NEW e \in Job, Take(w, e) PROVE Moves(w)
  <2>1. at'[w].job = e /\ \A v \in Worker : v # w => at'[v] = at[v]
    BY <1>0, <1>3 DEF Take, HandsOK
  <2> QED
    BY <1>3, <2>1 DEF Moves, Take
<1>4. ASSUME NEW w \in Worker, ReadIntake(w) PROVE Moves(w)
  <2>1. CASE at' = [at EXCEPT ![w] = [@ EXCEPT !.pc = "spend", !.auto = autonomous]]
    <3>1. at'[w] = [at[w] EXCEPT !.pc = "spend", !.auto = autonomous] /\ \A v \in Worker : v # w => at'[v] = at[v]
      BY <1>0, <2>1 DEF HandsOK
    <3>2. at'[w].pc = "spend" /\ at'[w].job = at[w].job
      BY <1>0, <3>1 DEF HandsOK, HandState
    <3> QED
      BY <1>4, <3>1, <3>2 DEF ReadIntake, Moves
  <2> QED
    BY <1>1, <1>4, <2>1 DEF ReadIntake, Pc
<1>5. ASSUME NEW w \in Worker,
             \/ DecideIntake(w) \/ CommitIntake(w) \/ ExpireApproval(w) \/ ReadExecution(w)
             \/ Recheck(w) \/ RecordSimulation(w) \/ Resume(w) \/ Submit(w) \/ MarkFailed(w)
      PROVE  Moves(w)
  <2>1. at[w].pc # "idle" /\ \E pc \in Pc \ {"idle"} : Goto(w, pc)
    BY <1>5 DEF DecideIntake, CommitIntake, ExpireApproval, ReadExecution, Recheck, RecordSimulation,
      Resume, Submit, MarkFailed, Pc
  <2> QED
    BY <1>1, <2>1
<1>6. ASSUME NEW w \in Worker, Complete(w) \/ Interrupt(w) PROVE Moves(w)
  BY <1>2, <1>6 DEF Complete, Interrupt, GiveBack
<1>10. ASSUME NEW w \in Worker, Confirm(w) PROVE Moves(w)
  <2>1. at[w].pc # "idle" /\ (Goto(w, "done") \/ GiveBack(w))
    BY <1>10 DEF Confirm
  <2> QED
    BY <1>1, <1>2, <2>1 DEF GiveBack, Pc
<1>7. ASSUME NEW i \in Intent, Create(i) PROVE UNCHANGED at
  BY <1>7 DEF Create
<1>8. ASSUME NEW a \in Approver, NEW i \in Intent, NEW vote \in {"approved", "rejected"},
             DecideIntent(a, i, vote)
      PROVE  UNCHANGED at
  BY <1>8 DEF DecideIntent
<1>9. Switch \/ Tick \/ UNCHANGED vars => UNCHANGED at
  BY DEF Switch, Tick, vars
<1> QED
  BY <1>3, <1>4, <1>5, <1>6, <1>7, <1>8, <1>9, <1>10 DEF Next, WorkerStep

\* Nobody takes the job of another (claim, TaskPool).
LEMMA HolderStep == TypeInv /\ OneHolder /\ [Next]_vars => OneHolder'
<1> SUFFICES ASSUME TypeInv, OneHolder, [Next]_vars PROVE OneHolder'
  OBVIOUS
<1>1. CASE UNCHANGED at
  BY <1>1 DEF OneHolder
<1>2. ASSUME NEW w \in Worker, Moves(w) PROVE OneHolder'
  <2>1. \A v \in Worker : at[v].pc # "idle" => at[v].job \in Job
    BY DEF TypeInv, HandsOK
  <2> QED
    BY <1>2, <2>1 DEF OneHolder, Moves
<1> QED
  BY <1>1, <1>2, OneMoves

\* What HandsFit says of one worker.
Fits(w) ==
  /\ at[w].pc \in {"recheck", "record"} =>
       at[w].job[1] = "execute" /\ status[IntentOf(w)] = "approved"
  /\ at[w].pc \in {"resume", "run", "condemn"} => at[w].job[1] = "execute"

\* An approved intent whose job another worker has stays approved.
LEMMA ApprovedStays ==
  ASSUME TypeInv, HandsFit, OneHolder, [Next]_vars, NEW v \in Worker,
         at[v].pc \in {"recheck", "record"}, at'[v] = at[v]
  PROVE  status'[IntentOf(v)] = "approved"
<1>0. HandsOK /\ RecordsOK /\ IntentOf(v) \in Intent /\ status[IntentOf(v)] = "approved"
      /\ at[v].job \in Job /\ at[v].job[1] = "execute"
  BY InHand DEF TypeInv, HandsFit, HandsOK
<1> DEFINE i == IntentOf(v)
<1>1. CASE UNCHANGED status
  BY <1>0, <1>1
<1>2. ASSUME NEW w \in Worker, w # v, at[w].pc # "idle", at[w].job[1] = "execute"
      PROVE  IntentOf(w) # i
  BY <1>0, <1>2, SameJob DEF HandsOK, OneHolder, IntentOf
<1>3. ASSUME NEW j \in Intent, Create(j) PROVE status'[i] = "approved"
  BY <1>0, <1>3 DEF Create, RecordsOK
<1>4. ASSUME NEW w \in Worker, CommitIntake(w) PROVE status'[i] = "approved"
  BY <1>0, <1>4 DEF CommitIntake, Become, RecordsOK
<1>5. ASSUME NEW w \in Worker, ExpireApproval(w) PROVE status'[i] = "approved"
  BY <1>0, <1>5 DEF ExpireApproval, RecordsOK
<1>6. ASSUME NEW w \in Worker, RecordSimulation(w) \/ MarkFailed(w) PROVE status'[i] = "approved"
  <2>1. at'[w].pc # at[w].pc
    BY <1>0, <1>6, GotoEffect DEF RecordSimulation, MarkFailed, Pc
  <2>2. at[w].job[1] = "execute" /\ at[w].pc # "idle"
    BY <1>6 DEF HandsFit, RecordSimulation, MarkFailed
  <2>3. IntentOf(w) # i
    BY <1>2, <2>1, <2>2
  <2> QED
    BY <1>0, <1>6, <2>3 DEF RecordSimulation, MarkFailed, RecordsOK
<1>7. ASSUME NEW w \in Worker, Submit(w) \/ Confirm(w) PROVE status'[i] = "approved"
  BY <1>0, <1>7 DEF Submit, Confirm, RecordsOK
<1>8. ASSUME NEW a \in Approver, NEW j \in Intent, NEW vote \in {"approved", "rejected"},
             DecideIntent(a, j, vote)
      PROVE  status'[i] = "approved"
  BY <1>0, <1>8 DEF DecideIntent, Decidable, RecordsOK
<1>9. ASSUME NEW w \in Worker,
             \/ Complete(w) \/ Interrupt(w) \/ ReadIntake(w) \/ DecideIntake(w)
             \/ ReadExecution(w) \/ Recheck(w) \/ Resume(w)
             \/ \E e \in Job : Take(w, e)
      PROVE  UNCHANGED status
  BY <1>9 DEF Complete, Interrupt, ReadIntake, DecideIntake, ReadExecution, Recheck, Resume, Take, records
<1>10. Switch \/ Tick \/ UNCHANGED vars => UNCHANGED status
  BY DEF Switch, Tick, vars, records
<1> QED
  BY <1>1, <1>3, <1>4, <1>5, <1>6, <1>7, <1>8, <1>9, <1>10 DEF Next, WorkerStep

\* A worker that moves is at work on a job of the right kind.
LEMMA MoverFits ==
  ASSUME TypeInv, HandsFit, [Next]_vars, NEW v \in Worker, at'[v] # at[v]
  PROVE  Fits(v)'
<1>0. HandsOK
  BY DEF TypeInv
<1>1. ASSUME NEW w \in Worker, NEW pc \in Pc, at[w].pc # "idle", Goto(w, pc)
      PROVE  /\ w = v /\ at'[v].pc = pc /\ at'[v].job = at[v].job
             /\ IntentOf(v)' = IntentOf(v)
  BY <1>0, <1>1, GotoEffect DEF IntentOf
<1>2. ASSUME NEW w \in Worker, NEW pc \in Pc \ {"recheck", "record", "resume", "run", "condemn"},
             at[w].pc # "idle", Goto(w, pc)
      PROVE  Fits(v)'
  BY <1>1, <1>2 DEF Fits
<1>3. ASSUME NEW w \in Worker, Complete(w) \/ Interrupt(w) \/ (Confirm(w) /\ GiveBack(w))
      PROVE  Fits(v)'
  BY <1>0, <1>3, IdleEffect DEF Complete, Interrupt, GiveBack, Fits
<1>4. ASSUME NEW w \in Worker, NEW e \in Job, Take(w, e) PROVE Fits(v)'
  <2>1. /\ \A u \in Worker : u # w => at'[u] = at[u]
        /\ at'[w].pc \in {"context", "expiring"}
    BY <1>0, <1>4 DEF Take, HandsOK
  <2> QED
    BY <2>1 DEF Fits
<1>5. ASSUME NEW w \in Worker, ReadIntake(w) PROVE Fits(v)'
  <2>1. CASE at' = [at EXCEPT ![w] = [@ EXCEPT !.pc = "spend", !.auto = autonomous]]
    <3>1. at'[w] = [at[w] EXCEPT !.pc = "spend", !.auto = autonomous] /\ w = v
      BY <1>0, <2>1 DEF HandsOK
    <3>2. at'[v].pc = "spend"
      BY <1>0, <3>1 DEF HandsOK, HandState
    <3> QED
      BY <3>2 DEF Fits
  <2> QED
    BY <1>2, <1>5, <2>1 DEF ReadIntake, Pc
<1>6. ASSUME NEW w \in Worker,
             \/ DecideIntake(w) \/ CommitIntake(w) \/ ExpireApproval(w) \/ Submit(w) \/ MarkFailed(w)
             \/ Confirm(w) /\ Goto(w, "done")
      PROVE  Fits(v)'
  BY <1>2, <1>6 DEF DecideIntake, CommitIntake, ExpireApproval, Submit, MarkFailed, Confirm, Pc
<1>7. ASSUME NEW w \in Worker, ReadExecution(w) PROVE Fits(v)'
  <2>1. CASE Goto(w, "recheck") /\ status[IntentOf(w)] = "approved"
    <3>1. w = v /\ at'[v].pc = "recheck" /\ at'[v].job = at[v].job /\ IntentOf(v)' = IntentOf(v)
      BY <1>1, <1>7, <2>1 DEF ReadExecution, Pc
    <3> QED
      BY <1>7, <2>1, <3>1 DEF ReadExecution, Fits, records
  <2>2. CASE Goto(w, "condemn") \/ Goto(w, "resume")
    <3>1. w = v /\ at'[v].pc \in {"condemn", "resume"} /\ at'[v].job = at[v].job
      BY <1>1, <1>7, <2>2 DEF ReadExecution, Pc
    <3> QED
      BY <1>7, <3>1 DEF ReadExecution, Fits
  <2> QED
    BY <1>2, <1>7, <2>1, <2>2 DEF ReadExecution, Pc
<1>11. ASSUME NEW w \in Worker, Resume(w) PROVE Fits(v)'
  <2>1. w = v /\ at'[v].pc \in {"condemn", "run"} /\ at'[v].job = at[v].job
    BY <1>1, <1>11 DEF Resume, Pc
  <2> QED
    BY <1>11, <2>1 DEF Resume, Fits, HandsFit
<1>8. ASSUME NEW w \in Worker, Recheck(w) \/ RecordSimulation(w) PROVE Fits(v)'
  <2>1. /\ w = v /\ at'[v].job = at[v].job /\ IntentOf(v)' = IntentOf(v)
        /\ at'[v].pc = "record" => Recheck(w)
        /\ at'[v].pc \in {"record", "run", "condemn"}
    BY <1>1, <1>8 DEF Recheck, RecordSimulation, Pc
  <2>2. at[v].job[1] = "execute" /\ status[IntentOf(v)] = "approved"
    BY <1>8, <2>1 DEF HandsFit, Recheck, RecordSimulation
  <2>3. Recheck(w) => status' = status
    BY DEF Recheck, records
  <2> QED
    BY <2>1, <2>2, <2>3 DEF Fits
<1>9. (\E i \in Intent : Create(i)) \/ Switch \/ Tick \/ UNCHANGED vars => UNCHANGED at
  BY DEF Create, Switch, Tick, vars
<1>10. ASSUME NEW a \in Approver, NEW i \in Intent, NEW vote \in {"approved", "rejected"},
              DecideIntent(a, i, vote)
       PROVE  UNCHANGED at
  BY <1>10 DEF DecideIntent
<1> QED
  BY <1>3, <1>4, <1>5, <1>6, <1>7, <1>8, <1>9, <1>10, <1>11 DEF Next, WorkerStep, Confirm

\* The hands stay as they are described (ReadExecution to Submit and MarkFailed).
LEMMA FitStep == TypeInv /\ HandsFit /\ OneHolder /\ [Next]_vars => HandsFit'
<1> SUFFICES ASSUME TypeInv, HandsFit, OneHolder, [Next]_vars, NEW v \in Worker PROVE Fits(v)'
  BY DEF HandsFit, Fits
<1>1. CASE at'[v] # at[v]
  BY <1>1, MoverFits
<1>2. CASE at'[v] = at[v]
  <2>1. Fits(v)
    BY DEF HandsFit, Fits
  <2>2. at[v].pc \in {"recheck", "record"} => status'[IntentOf(v)] = "approved"
    BY <1>2, ApprovedStays
  <2> QED
    BY <1>2, <2>1, <2>2 DEF Fits, IntentOf
<1> QED
  BY <1>1, <1>2

\* Executions start when recordSimulation says so, now.
LEMMA StartsAreRecorded ==
  TypeInv /\ [Next]_vars =>
    \A i \in Intent :
      \/ executedAt'[i] = executedAt[i]
      \/ /\ executedAt[i] = -1 /\ executedAt'[i] = now /\ now' = now
         /\ \E w \in Worker : RecordSimulation(w) /\ IntentOf(w) = i
<1> SUFFICES ASSUME TypeInv, [Next]_vars, NEW i \in Intent, executedAt'[i] # executedAt[i]
             PROVE  /\ executedAt[i] = -1 /\ executedAt'[i] = now /\ now' = now
                    /\ \E w \in Worker : RecordSimulation(w) /\ IntentOf(w) = i
  OBVIOUS
<1>1. ASSUME NEW w \in Worker, RecordSimulation(w)
      PROVE  /\ executedAt[i] = -1 /\ executedAt'[i] = now /\ now' = now
             /\ IntentOf(w) = i
  BY <1>1 DEF RecordSimulation, TypeInv, RecordsOK
<1>2. ASSUME NEW w \in Worker,
             \/ Complete(w) \/ Interrupt(w) \/ ReadIntake(w) \/ DecideIntake(w) \/ CommitIntake(w)
             \/ ExpireApproval(w) \/ ReadExecution(w) \/ Recheck(w) \/ Resume(w) \/ Submit(w)
             \/ Confirm(w) \/ MarkFailed(w)
             \/ \E e \in Job : Take(w, e)
      PROVE  UNCHANGED executedAt
  BY <1>2 DEF Complete, Interrupt, ReadIntake, DecideIntake, CommitIntake, ExpireApproval, ReadExecution,
    Recheck, Resume, Submit, Confirm, MarkFailed, Take, records
<1>3. ASSUME NEW a \in Approver, NEW j \in Intent, NEW vote \in {"approved", "rejected"},
             DecideIntent(a, j, vote)
      PROVE  UNCHANGED executedAt
  BY <1>3 DEF DecideIntent
<1>4. (\E j \in Intent : Create(j)) \/ Switch \/ Tick \/ UNCHANGED vars => UNCHANGED executedAt
  BY DEF Create, Switch, Tick, vars, records
<1> QED
  BY <1>1, <1>2, <1>3, <1>4 DEF Next, WorkerStep

\* An intent begins to execute when its start is recorded, and is paid after that.
LEMMA PaidStarted ==
  ASSUME TypeInv, [Next]_vars, NEW i \in Intent, status'[i] # status[i]
  PROVE  \/ status'[i] = "executing" /\ \E w \in Worker : RecordSimulation(w) /\ IntentOf(w) = i
         \/ status'[i] \in {"submitted", "paid"} /\ status[i] \in {"executing", "submitted"}
         \/ status'[i] = "failed"
         \/ status[i] \in {"absent", "received", "approval_required"}
            /\ status'[i] \in {"received", "approval_required", "approved", "rejected", "expired"}
<1> DEFINE Goal ==
         \/ status'[i] = "executing" /\ \E w \in Worker : RecordSimulation(w) /\ IntentOf(w) = i
         \/ status'[i] \in {"submitted", "paid"} /\ status[i] \in {"executing", "submitted"}
         \/ status'[i] = "failed"
         \/ status[i] \in {"absent", "received", "approval_required"}
            /\ status'[i] \in {"received", "approval_required", "approved", "rejected", "expired"}
<1>0. RecordsOK
  BY DEF TypeInv
<1>1. ASSUME NEW j \in Intent, Create(j) PROVE Goal
  BY <1>0, <1>1 DEF Create, RecordsOK
<1>2. ASSUME NEW w \in Worker, CommitIntake(w) PROVE Goal
  BY <1>0, <1>2 DEF CommitIntake, Become, RecordsOK
<1>3. ASSUME NEW w \in Worker, ExpireApproval(w) PROVE Goal
  BY <1>0, <1>3 DEF ExpireApproval, RecordsOK
<1>4. ASSUME NEW w \in Worker, RecordSimulation(w) PROVE Goal
  <2>1. IntentOf(w) = i /\ status'[i] = "executing"
    BY <1>0, <1>4 DEF RecordSimulation, RecordsOK
  <2> QED
    BY <1>4, <2>1
<1>5. ASSUME NEW w \in Worker, Submit(w) \/ Confirm(w) \/ MarkFailed(w) PROVE Goal
  BY <1>0, <1>5 DEF Submit, Confirm, MarkFailed, RecordsOK
<1>6. ASSUME NEW a \in Approver, NEW j \in Intent, NEW vote \in {"approved", "rejected"},
             DecideIntent(a, j, vote)
      PROVE  Goal
  BY <1>0, <1>6 DEF DecideIntent, Decidable, RecordsOK
<1>7. ASSUME NEW w \in Worker,
             \/ Complete(w) \/ Interrupt(w) \/ ReadIntake(w) \/ DecideIntake(w)
             \/ ReadExecution(w) \/ Recheck(w) \/ Resume(w)
             \/ \E e \in Job : Take(w, e)
      PROVE  UNCHANGED status
  BY <1>7 DEF Complete, Interrupt, ReadIntake, DecideIntake, ReadExecution, Recheck, Resume, Take, records
<1>8. Switch \/ Tick \/ UNCHANGED vars => UNCHANGED status
  BY DEF Switch, Tick, vars, records
<1> QED
  BY <1>1, <1>2, <1>3, <1>4, <1>5, <1>6, <1>7, <1>8 DEF Next, WorkerStep

\* No handler changes the time, or when an intent was created.
LEMMA WorkersKeepTime ==
  ASSUME NEW w \in Worker, WorkerStep(w) \/ Interrupt(w)
  PROVE  UNCHANGED <<now, created>>
<1>1. Complete(w) \/ Interrupt(w) \/ ReadIntake(w) \/ DecideIntake(w) => UNCHANGED <<now, created>>
  BY DEF Complete, Interrupt, ReadIntake, DecideIntake
<1>2. CommitIntake(w) \/ ExpireApproval(w) \/ ReadExecution(w) \/ Recheck(w) => UNCHANGED <<now, created>>
  BY DEF CommitIntake, ExpireApproval, ReadExecution, Recheck
<1>3. RecordSimulation(w) \/ Resume(w) \/ Submit(w) \/ Confirm(w) \/ MarkFailed(w) => UNCHANGED <<now, created>>
  BY DEF RecordSimulation, Resume, Submit, Confirm, MarkFailed
<1> QED
  BY <1>1, <1>2, <1>3 DEF WorkerStep

\* Time does not run backwards.
LEMMA NowGrows == TypeInv /\ [Next]_vars => now' = now \/ now' = now + 1
<1>1. ASSUME NEW w \in Worker, WorkerStep(w) \/ Interrupt(w) PROVE UNCHANGED <<now, created>>
  BY <1>1, WorkersKeepTime
<1>2. (\E i \in Intent : Create(i)) \/ Switch \/ UNCHANGED vars => now' = now
  BY DEF Create, Switch, vars
<1>3. ASSUME NEW a \in Approver, NEW i \in Intent, NEW vote \in {"approved", "rejected"},
             DecideIntent(a, i, vote)
      PROVE  now' = now
  BY <1>3 DEF DecideIntent
<1>4. ASSUME NEW w \in Worker, NEW e \in Job, Take(w, e) PROVE now' = now
  BY <1>4 DEF Take
<1>5. Tick => now' = now + 1
  BY DEF Tick
<1> QED
  BY <1>1, <1>2, <1>3, <1>4, <1>5 DEF Next

\* The part of the invariant that is not about amounts.
HandsInv == TypeInv /\ HandsFit /\ OneHolder /\ Timing

\* A start is recorded once, before anything is paid.
LEMMA TimingStep == HandsInv /\ [Next]_vars => Timing'
<1> SUFFICES ASSUME HandsInv, [Next]_vars, NEW i \in Intent
             PROVE  /\ executedAt'[i] <= now'
                    /\ executedAt'[i] >= 0 => status'[i] \in Underway \cup {"failed"}
                    /\ status'[i] \in Underway => executedAt'[i] >= 0
  BY DEF Timing
<1>0. /\ TypeInv /\ RecordsOK /\ now \in Nat /\ executedAt[i] \in Int
      /\ executedAt[i] <= now
      /\ executedAt[i] >= 0 => status[i] \in Underway \cup {"failed"}
      /\ status[i] \in Underway => executedAt[i] >= 0
  BY AuthorizationAssumption DEF HandsInv, Timing, TypeInv, RecordsOK
<1>1. now' = now \/ now' = now + 1
  BY <1>0, NowGrows
<1>2. ASSUME NEW w \in Worker, RecordSimulation(w), IntentOf(w) = i
      PROVE  executedAt'[i] >= 0 /\ status'[i] = "executing"
  <2>1. status[i] = "approved" /\ executedAt[i] \in -1..MaxTime
    BY <1>0, <1>2 DEF HandsInv, HandsFit, RecordSimulation, RecordsOK
  <2> QED
    BY <1>0, <1>2, <2>1 DEF RecordSimulation, RecordsOK
<1>3. \/ executedAt'[i] = executedAt[i]
      \/ executedAt'[i] = now /\ now' = now /\ \E w \in Worker : RecordSimulation(w) /\ IntentOf(w) = i
  BY <1>0, StartsAreRecorded
<1>4. CASE \E w \in Worker : RecordSimulation(w) /\ IntentOf(w) = i
  BY <1>0, <1>1, <1>2, <1>3, <1>4 DEF Underway
<1>5. CASE ~\E w \in Worker : RecordSimulation(w) /\ IntentOf(w) = i
  <2>1. executedAt'[i] = executedAt[i]
    BY <1>3, <1>5
  <2>2. \/ status'[i] = status[i]
        \/ status'[i] \in {"submitted", "paid"} /\ status[i] \in {"executing", "submitted"}
        \/ status'[i] = "failed"
        \/ status[i] \in {"absent", "received", "approval_required"}
           /\ status'[i] \in {"received", "approval_required", "approved", "rejected", "expired"}
    BY <1>0, <1>5, PaidStarted
  <2> QED
    BY <1>0, <1>1, <2>1, <2>2 DEF Underway
<1> QED
  BY <1>4, <1>5

\* The inductive invariant.
LimitInv == HandsInv /\ Room /\ WithinDailyLimit

\* A worker that is about to record a start was so before, or found room just now.
LEMMA AboutToRecord ==
  ASSUME TypeInv, [Next]_vars, NEW v \in Worker, at'[v].pc = "record"
  PROVE  \/ at'[v] = at[v]
         \/ Recheck(v) /\ ~PolicyRejects(IntentOf(v)) /\ IntentOf(v)' = IntentOf(v)
<1> DEFINE Goal ==
      \/ at'[v] = at[v]
      \/ Recheck(v) /\ ~PolicyRejects(IntentOf(v)) /\ IntentOf(v)' = IntentOf(v)
<1>0. HandsOK
  BY DEF TypeInv
<1>1. ASSUME NEW w \in Worker, NEW pc \in Pc, at[w].pc # "idle", Goto(w, pc)
      PROVE  \/ at'[v] = at[v]
             \/ w = v /\ pc = "record" /\ IntentOf(v)' = IntentOf(v)
  BY <1>0, <1>1, GotoEffect DEF IntentOf
<1>2. ASSUME NEW w \in Worker, Complete(w) \/ Interrupt(w) \/ GiveBack(w) PROVE Goal
  BY <1>0, <1>2, IdleEffect DEF Complete, Interrupt, GiveBack
<1>3. ASSUME NEW w \in Worker, NEW e \in Job, Take(w, e) PROVE Goal
  BY <1>0, <1>3 DEF Take, HandsOK
<1>4. ASSUME NEW w \in Worker, ReadIntake(w) PROVE Goal
  <2>1. CASE at' = [at EXCEPT ![w] = [@ EXCEPT !.pc = "spend", !.auto = autonomous]]
    <3> PICK g : g = [at[w] EXCEPT !.pc = "spend", !.auto = autonomous]
      OBVIOUS
    <3>1. at'[w] = [at[w] EXCEPT !.pc = "spend", !.auto = autonomous] /\ (v # w => at'[v] = at[v])
      <4>1. at' = [at EXCEPT ![w] = g]
        BY <2>1
      <4> QED
        BY <1>0, <4>1 DEF HandsOK
    <3>2. at'[w].pc = "spend"
      BY <1>0, <3>1 DEF HandsOK, HandState
    <3> QED
      BY <3>1, <3>2
  <2> QED
    BY <1>1, <1>4, <2>1 DEF ReadIntake, Pc
<1>5. ASSUME NEW w \in Worker,
             \/ DecideIntake(w) \/ CommitIntake(w) \/ ExpireApproval(w) \/ ReadExecution(w)
             \/ RecordSimulation(w) \/ Resume(w) \/ Submit(w) \/ MarkFailed(w)
             \/ Confirm(w) /\ Goto(w, "done")
      PROVE  Goal
  <2>1. at[w].pc # "idle" /\ \E pc \in Pc \ {"record"} : Goto(w, pc)
    BY <1>5 DEF DecideIntake, CommitIntake, ExpireApproval, ReadExecution, RecordSimulation,
      Resume, Submit, Confirm, MarkFailed, Pc
  <2> QED
    BY <1>1, <2>1
<1>6. ASSUME NEW w \in Worker, Recheck(w) PROVE Goal
  <2>1. CASE Goto(w, "condemn")
    BY <1>1, <1>6, <2>1 DEF Recheck, Pc
  <2>2. CASE Goto(w, "record") /\ ~PolicyRejects(IntentOf(w))
    BY <1>1, <1>6, <2>2 DEF Recheck, Pc
  <2> QED
    BY <1>6, <2>1, <2>2 DEF Recheck
<1>7. (\E i \in Intent : Create(i)) \/ Switch \/ Tick \/ UNCHANGED vars => UNCHANGED at
  BY DEF Create, Switch, Tick, vars
<1>8. ASSUME NEW a \in Approver, NEW i \in Intent, NEW vote \in {"approved", "rejected"},
             DecideIntent(a, i, vote)
      PROVE  UNCHANGED at
  BY <1>8 DEF DecideIntent
<1> QED
  BY <1>2, <1>3, <1>4, <1>5, <1>6, <1>7, <1>8 DEF Next, WorkerStep, Confirm

\* Only an intent that is not there yet is created.
LEMMA CreatedOnce ==
  ASSUME TypeInv, [Next]_vars, NEW i \in Intent
  PROVE  created'[i] = created[i] \/ status[i] = "absent"
<1>1. ASSUME NEW j \in Intent, Create(j) PROVE created'[i] = created[i] \/ status[i] = "absent"
  BY <1>1 DEF Create, TypeInv, RecordsOK
<1>2. (~\E j \in Intent : Create(j)) => UNCHANGED created
  <2>1. ASSUME NEW w \in Worker, WorkerStep(w) \/ Interrupt(w) PROVE UNCHANGED created
    BY <2>1, WorkersKeepTime
  <2>2. Switch \/ Tick \/ UNCHANGED vars => UNCHANGED created
    BY DEF Switch, Tick, vars
  <2>3. ASSUME NEW a \in Approver, NEW j \in Intent, NEW vote \in {"approved", "rejected"},
               DecideIntent(a, j, vote)
        PROVE  UNCHANGED created
    BY <2>3 DEF DecideIntent
  <2>4. ASSUME NEW w \in Worker, NEW e \in Job, Take(w, e) PROVE UNCHANGED created
    BY <2>4 DEF Take
  <2> QED
    BY <2>1, <2>2, <2>3, <2>4 DEF Next
<1> QED
  BY <1>1, <1>2

\* What has started had started or was recorded by a worker that found room for it.
LEMMA StartedBefore ==
  ASSUME HandsInv, [Next]_vars, NEW i \in Intent, Started(i)'
  PROVE  /\ created'[i] = created[i]
         /\ \/ Started(i) /\ executedAt'[i] = executedAt[i]
            \/ ~Started(i) /\ Passed(i) /\ executedAt'[i] = now /\ now' = now
<1>0. /\ TypeInv /\ HandsFit /\ now \in Nat /\ executedAt[i] \in Int
      /\ executedAt[i] >= 0 => status[i] \in Underway \cup {"failed"}
  BY AuthorizationAssumption DEF HandsInv, Timing, TypeInv, RecordsOK
<1>1. CASE executedAt'[i] = executedAt[i]
  <2>1. status[i] # "failed"
    BY <1>0, TerminalStep DEF Terminal, Started
  <2>2. Started(i) /\ status[i] # "absent"
    BY <1>0, <1>1, <2>1 DEF Started, Underway
  <2> QED
    BY <1>0, <1>1, <2>2, CreatedOnce
<1>2. CASE executedAt'[i] # executedAt[i]
  <2>1. PICK w \in Worker : RecordSimulation(w) /\ IntentOf(w) = i
    BY <1>0, <1>2, StartsAreRecorded
  <2>2. executedAt[i] = -1 /\ executedAt'[i] = now /\ now' = now
    BY <1>0, <1>2, StartsAreRecorded
  <2>3. at[w].pc = "record" /\ status[i] = "approved"
    BY <1>0, <2>1 DEF HandsFit, RecordSimulation
  <2> QED
    BY <1>0, <2>1, <2>2, <2>3, CreatedOnce DEF Started, Passed
<1> QED
  BY <1>1, <1>2

\* Of the intents that are about to start all but one were before, and that one
\* was just found to fit.
LEMMA PassedBefore ==
  ASSUME HandsInv, [Next]_vars, NEW i \in Intent, Passed(i)', ~Passed(i)
  PROVE  \E w \in Worker : Recheck(w) /\ IntentOf(w) = i /\ ~PolicyRejects(i)
<1>1. ~Started(i)'
  BY StartedBefore DEF Passed
<1>2. PICK w \in Worker : at'[w].pc = "record" /\ IntentOf(w)' = i
  BY <1>1 DEF Passed
<1>3. at'[w] # at[w]
  BY <1>2 DEF Passed, IntentOf
<1> QED
  BY <1>2, <1>3, AboutToRecord DEF HandsInv

\* What has started or is about to is approved, or being paid.
LEMMA PassedIsThere ==
  ASSUME HandsInv, NEW i \in Intent, Passed(i)
  PROVE  status[i] \in Committed
BY DEF HandsInv, Timing, HandsFit, Passed, Started, Committed

\* Totals are of amounts, which no step changes.
LEMMA RoomNext == Room' <=> Total(Recent') <= DailyLimit
BY DEF Room, Total, MapThenSumSet, MapThenFoldSet

\* A payment that is about to start was found to fit with all that started and
\* all that are about to (spentToday, evaluatePaymentIntent).
LEMMA RoomStep == HandsInv /\ Room /\ [Next]_vars => Room'
<1> SUFFICES ASSUME HandsInv, Room, [Next]_vars PROVE Total(Recent') <= DailyLimit
  BY RoomNext
<1>0. /\ TypeInv /\ RecordsOK /\ HandsOK /\ now \in Nat /\ Day \in Nat
      /\ Recent \in SUBSET Intent /\ Recent' \in SUBSET Intent
  BY AuthorizationAssumption DEF HandsInv, TypeInv, RecordsOK, Recent
<1>1. CASE \A i \in Recent' : Passed(i)
  <2>1. ASSUME NEW i \in Recent' PROVE i \in Recent
    <3>1. Passed(i) /\ i \in Intent /\ created'[i] > now' - Day
      BY <1>1, <2>1 DEF Recent
    <3>2. created'[i] = created[i]
      BY <1>0, <3>1, PassedIsThere, CreatedOnce DEF Committed, Underway
    <3>3. created[i] \in Nat
      BY <1>0, <3>1 DEF RecordsOK
    <3>4. now' = now \/ now' = now + 1
      BY <1>0, NowGrows
    <3> QED
      BY <1>0, <3>1, <3>2, <3>3, <3>4 DEF Recent
  <2>2. Recent' \in SUBSET Recent
    BY <2>1
  <2>3. Total(Recent) <= DailyLimit
    BY DEF Room
  <2> QED
    BY <1>0, <2>2, <2>3, FitsPart
<1>2. ASSUME NEW i \in Recent', ~Passed(i) PROVE Total(Recent') <= DailyLimit
  <2>0. i \in Intent /\ Passed(i)'
    BY <1>2 DEF Recent
  <2>1. PICK w \in Worker : Recheck(w) /\ IntentOf(w) = i /\ ~PolicyRejects(i)
    BY <1>2, <2>0, PassedBefore
  <2>2. /\ status' = status /\ created' = created /\ now' = now
        /\ \A v \in Worker : v # w => at'[v] = at[v]
    BY <1>0, <2>1, GotoEffect DEF Recheck, records, Pc
  <2>3. ASSUME NEW j \in Intent, Passed(j)', ~Passed(j) PROVE j = i
    <3>1. PICK v \in Worker : Recheck(v) /\ IntentOf(v) = j
      BY <2>3, PassedBefore
    <3>2. at'[v].pc # at[v].pc
      BY <1>0, <3>1, GotoEffect DEF Recheck, Pc
    <3> QED
      BY <2>1, <2>2, <3>1, <3>2
  <2> DEFINE C == {j \in Intent \ {i} : Counted(j)}
  <2>4. ASSUME NEW j \in Recent', j # i PROVE j \in C
    <3>1. j \in Intent /\ Passed(j)' /\ created'[j] > now' - Day
      BY <2>4 DEF Recent
    <3>2. Passed(j)
      BY <2>3, <2>4, <3>1
    <3>3. status[j] \in Committed
      BY <3>1, <3>2, PassedIsThere
    <3> QED
      BY <2>2, <2>4, <3>1, <3>3 DEF Counted
  <2>5. Amount[i] + Total(C) <= DailyLimit
    <3>1. Amount[i] \in Nat /\ Total(C) \in Nat /\ DailyLimit \in Nat
      BY <2>0, TotalOfPart, AuthorizationAssumption
    <3>2. ~(Amount[i] + Total(C) > DailyLimit)
      BY <2>1 DEF PolicyRejects, OverLimit
    <3> HIDE DEF C
    <3> QED
      BY <3>1, <3>2
  <2>6. Total(C \cup {i}) = Amount[i] + Total(C)
    BY <2>0, TotalWith
  <2>7. C \cup {i} \in SUBSET Intent /\ Recent' \in SUBSET (C \cup {i})
    BY <1>0, <2>0, <2>4
  <2>8. Total(C \cup {i}) <= DailyLimit
    BY <2>5, <2>6
  <2> HIDE DEF C
  <2> QED
    BY <2>7, <2>8, FitsPart
<1> QED
  BY <1>1, <1>2

\* The limit, with the set that is held against it named.
LEMMA LimitNamed ==
  /\ WithinDailyLimit <=> \A i \in Intent : Started(i) => Total(Against(i)) <= DailyLimit
  /\ WithinDailyLimit' <=> \A i \in Intent : Started(i)' => Total(Against(i)') <= DailyLimit
BY DEF WithinDailyLimit, Against, Started, Total, MapThenSumSet, MapThenFoldSet

\* Every step keeps the limit: one that starts a payment counts it with what is
\* recent, and no other adds to what an earlier start was held against.
LEMMA LimitStep == LimitInv /\ [Next]_vars => LimitInv'
<1> SUFFICES ASSUME LimitInv, [Next]_vars PROVE LimitInv'
  OBVIOUS
<1>1. HandsInv'
  BY TypeStep, FitStep, HolderStep, TimingStep DEF LimitInv, HandsInv
<1>2. Room'
  BY RoomStep DEF LimitInv
<1>3. WithinDailyLimit'
  <2> SUFFICES ASSUME NEW i \in Intent, Started(i)' PROVE Total(Against(i)') <= DailyLimit
    BY LimitNamed
  <2>0. now \in Nat /\ now' \in Nat /\ \A j \in Intent : executedAt'[j] \in Int /\ executedAt'[j] <= now'
    BY <1>1, AuthorizationAssumption DEF LimitInv, HandsInv, Timing, TypeInv, RecordsOK
  <2>1. CASE executedAt'[i] = now'
    <3>1. Against(i)' \in SUBSET Recent' /\ Recent' \in SUBSET Intent
      BY <2>1 DEF Against, Recent, Passed
    <3>2. Total(Recent') <= DailyLimit
      BY <1>2, RoomNext
    <3> QED
      BY <3>1, <3>2, FitsPart
  <2>2. CASE executedAt'[i] # now'
    <3>1. Started(i) /\ executedAt'[i] = executedAt[i]
      BY <2>2, StartedBefore DEF LimitInv
    <3>2. ASSUME NEW j \in Against(i)' PROVE j \in Against(i)
      <4>1. j \in Intent /\ Started(j)' /\ executedAt'[j] <= executedAt'[i]
            /\ created'[j] > executedAt'[i] - Day
        BY DEF Against
      <4>2. created'[j] = created[j]
        BY <4>1, StartedBefore DEF LimitInv
      <4>3. executedAt'[j] # now'
        BY <2>0, <2>2, <4>1
      <4>4. Started(j) /\ executedAt'[j] = executedAt[j]
        BY <4>1, <4>3, StartedBefore DEF LimitInv
      <4> QED
        BY <3>1, <4>1, <4>2, <4>4 DEF Against
    <3>3. Against(i)' \in SUBSET Against(i) /\ Against(i) \in SUBSET Intent
      BY <3>2 DEF Against
    <3>4. Total(Against(i)) <= DailyLimit
      BY <3>1, LimitNamed DEF LimitInv
    <3> QED
      BY <3>3, <3>4, FitsPart
  <2> QED
    BY <2>1, <2>2
<1> QED
  BY <1>1, <1>2, <1>3 DEF LimitInv

\* Initially nothing has passed.
LEMMA LimitInit == Init => LimitInv
<1> SUFFICES ASSUME Init PROVE LimitInv
  OBVIOUS
<1>1. TypeInv
  BY TypeInit
<1>2. HandsFit /\ OneHolder /\ Timing
  BY AuthorizationAssumption DEF Init, HandsFit, OneHolder, Timing, Idle, Underway
<1>3. \A i \in Intent : ~Passed(i)
  BY DEF Init, Passed, Started, Idle
<1>4. Total({}) = 0
  BY TotalIsSum, SumOfNone
<1>5. Room
  <2>1. Recent = {}
    BY <1>3 DEF Recent
  <2> QED
    BY <1>4, <2>1, AuthorizationAssumption DEF Room
<1>6. WithinDailyLimit
  BY <1>3, LimitNamed DEF Passed
<1> QED
  BY <1>1, <1>2, <1>5, <1>6 DEF LimitInv, HandsInv

\* The executions that start stay within the daily limit, however many workers
\* decide at once and over any number of days, although the spending is read
\* without a lock: each intent counts against the others before it looks at them
\* (spentToday, getExecutionContext, recordSimulation).
THEOREM LimitHolds == Spec => []WithinDailyLimit
<1>1. Init => LimitInv
  BY LimitInit
<1>2. LimitInv /\ [Next]_vars => LimitInv'
  BY LimitStep
<1>3. LimitInv => WithinDailyLimit
  BY DEF LimitInv
<1> QED
  BY <1>1, <1>2, <1>3, PTL DEF Spec

(***************************************************************************)
(* Within one day the limit is a budget: what is recorded as executing     *)
(* takes its share then, and what ends otherwise than paid gives it back.  *)
(***************************************************************************)
Holding == {i \in Intent : status[i] \in Underway}
Done == {i \in Intent : status[i] \in {"failed", "rejected", "expired"}}

\* The status of one intent changes at a time.
LEMMA OneStatusChanges ==
  ASSUME TypeInv, [Next]_vars
  PROVE  UNCHANGED status \/ \E i \in Intent : \E s : status' = [status EXCEPT ![i] = s]
<1> DEFINE Goal == UNCHANGED status \/ \E i \in Intent : \E s : status' = [status EXCEPT ![i] = s]
<1>0. HandsOK
  BY DEF TypeInv
<1>1. ASSUME NEW i \in Intent, Create(i) PROVE Goal
  BY <1>1 DEF Create
<1>2. ASSUME NEW w \in Worker,
             \/ CommitIntake(w) \/ ExpireApproval(w) \/ RecordSimulation(w) \/ Submit(w) \/ Confirm(w)
             \/ MarkFailed(w)
      PROVE  Goal
  <2>1. IntentOf(w) \in Intent
    BY <1>0, <1>2, InHand DEF CommitIntake, ExpireApproval, RecordSimulation, Submit, Confirm, MarkFailed
  <2>2. CASE CommitIntake(w)
    BY <2>1, <2>2 DEF CommitIntake, Become
  <2>3. CASE ExpireApproval(w) \/ Submit(w) \/ Confirm(w)
    BY <2>1, <2>3 DEF ExpireApproval, Submit, Confirm
  <2>4. CASE RecordSimulation(w) \/ MarkFailed(w)
    <3>1. \E s : status' = [status EXCEPT ![IntentOf(w)] = s]
      BY <2>4 DEF RecordSimulation, MarkFailed
    <3> QED
      BY <2>1, <3>1
  <2> QED
    BY <1>2, <2>2, <2>3, <2>4
<1>3. ASSUME NEW a \in Approver, NEW i \in Intent, NEW vote \in {"approved", "rejected"},
             DecideIntent(a, i, vote)
      PROVE  Goal
  <2> DEFINE outcome == IF vote = "rejected" THEN "rejected" ELSE IF Enough(i) THEN "approved" ELSE "undecided"
  <2>1. UNCHANGED status \/ status' = [status EXCEPT ![i] = outcome]
    BY <1>3 DEF DecideIntent
  <2> QED
    BY <2>1
<1>4. ASSUME NEW w \in Worker,
             \/ Complete(w) \/ Interrupt(w) \/ ReadIntake(w) \/ DecideIntake(w)
             \/ ReadExecution(w) \/ Recheck(w) \/ Resume(w)
             \/ \E e \in Job : Take(w, e)
      PROVE  UNCHANGED status
  BY <1>4 DEF Complete, Interrupt, ReadIntake, DecideIntake, ReadExecution, Recheck, Resume, Take, records
<1>5. Switch \/ Tick \/ UNCHANGED vars => UNCHANGED status
  BY DEF Switch, Tick, vars, records
<1> QED
  BY <1>1, <1>2, <1>3, <1>4, <1>5 DEF Next, WorkerStep

\* What is being paid fits the limit together with what is about to start.
LEMMA ShareFits ==
  ASSUME LimitInv, MaxTime < Day, NEW i \in Intent, Passed(i)
  PROVE  B!Total(Holding \cup {i}) <= DailyLimit
<1>1. ASSUME NEW j \in Holding \cup {i} PROVE j \in Recent
  <2>1. j \in Intent /\ Passed(j)
    BY <1>1 DEF LimitInv, HandsInv, Timing, Holding, Passed, Started, Underway
  <2>2. created[j] \in 0..MaxTime /\ now \in 0..MaxTime
    BY <2>1 DEF LimitInv, HandsInv, TypeInv, RecordsOK
  <2> QED
    BY <2>1, <2>2, AuthorizationAssumption DEF Recent
<1>2. Holding \cup {i} \in SUBSET Recent /\ Recent \in SUBSET Intent
  BY <1>1 DEF Recent
<1>3. Total(Recent) <= DailyLimit
  BY DEF LimitInv, Room
<1>4. Total(Holding \cup {i}) <= DailyLimit
  BY <1>2, <1>3, FitsPart
<1> QED
  BY <1>4 DEF Total, MapThenSumSet, MapThenFoldSet, B!Total, B!MapThenSumSet, B!MapThenFoldSet

\* Every step takes a share there is room for, gives one back, or does neither.
LEMMA BudgetStep ==
  ASSUME LimitInv, MaxTime < Day, [Next]_vars
  PROVE  [B!Next]_(B!vars)
<1>0. TypeInv /\ RecordsOK /\ HandsFit
  BY DEF LimitInv, HandsInv, TypeInv
<1>1. CASE UNCHANGED status
  BY <1>1 DEF B!vars
<1>2. ASSUME NEW i \in Intent, NEW s, status' = [status EXCEPT ![i] = s] PROVE [B!Next]_(B!vars)
  <2>1. status'[i] = s /\ \A j \in Intent : j # i => status'[j] = status[j]
    BY <1>0, <1>2 DEF RecordsOK
  <2>2. CASE UNCHANGED <<Holding, Done>>
    BY <2>2 DEF B!vars, Holding, Done
  <2>3. CASE status'[i] = status[i]
    BY <2>1, <2>2, <2>3 DEF Holding, Done
  <2>4. ASSUME status'[i] = "executing", NEW w \in Worker, RecordSimulation(w), IntentOf(w) = i
        PROVE  B!Reserve(i)
    <3>1. status[i] = "approved" /\ Passed(i)
      BY <1>0, <2>4 DEF HandsFit, RecordSimulation, Passed
    <3>2. i \notin Holding \cup Done
      BY <3>1 DEF Holding, Done, Underway
    <3>3. Holding' = Holding \cup {i} /\ Done' = Done
      BY <2>1, <2>4, <3>1 DEF Holding, Done, Underway
    <3>4. B!Total(Holding \cup {i}) <= DailyLimit
      BY <3>1, ShareFits
    <3> QED
      BY <3>2, <3>3, <3>4 DEF B!Reserve, Holding, Done
  <2>5. ASSUME s \in {"failed", "rejected", "expired"}, status'[i] # status[i] PROVE B!Release(i)
    <3>1. status[i] \notin Terminal
      BY <1>0, <2>5, TerminalStep
    <3>2. i \notin Done
      BY <3>1 DEF Done, Terminal
    <3>3. Holding' = Holding \ {i} /\ Done' = Done \cup {i}
      BY <2>1, <2>5 DEF Holding, Done, Underway
    <3> QED
      BY <3>2, <3>3 DEF B!Release, Holding, Done
  <2>6. ASSUME s \in {"submitted", "paid"}, status[i] \in {"executing", "submitted"}
        PROVE  UNCHANGED <<Holding, Done>>
    BY <2>1, <2>6 DEF Holding, Done, Underway
  <2>7. ASSUME status[i] \in {"absent", "received", "approval_required"},
               s \in {"received", "approval_required", "approved"}
        PROVE  UNCHANGED <<Holding, Done>>
    BY <2>1, <2>7 DEF Holding, Done, Underway
  <2> QED
    BY <1>0, <2>1, <2>2, <2>3, <2>4, <2>5, <2>6, <2>7, PaidStarted DEF B!Next
<1> QED
  BY <1>0, <1>1, <1>2, OneStatusChanges

\* In a behaviour of less than a day the executions implement the abstract
\* budget, whose shares are taken in one indivisible step each, for any amounts,
\* limit, workers and intents (getExecutionContext, recordSimulation).
THEOREM SpendsABudget == ASSUME MaxTime < Day PROVE Spec => ImplementsBudget
<1>1. Init => LimitInv
  BY LimitInit
<1>2. LimitInv /\ [Next]_vars => LimitInv'
  BY LimitStep
<1>3. Init => B!Init
  BY DEF Init, B!Init, Underway
<1>4. LimitInv /\ [Next]_vars => [B!Next]_(B!vars)
  BY BudgetStep
<1> QED
  BY <1>1, <1>2, <1>3, <1>4, PTL DEF Spec, ImplementsBudget, B!Spec
=============================================================================
