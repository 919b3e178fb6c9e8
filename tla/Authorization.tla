---------------------------- MODULE Authorization ----------------------------
(***************************************************************************)
(* From a payment request to its execution: intake (intent.evaluate), the  *)
(* decisions of approvers, their expiry (approval.expire), and the gates,  *)
(* policy and spending limit checked again when the intent is executed     *)
(* (packages/database/src/jobs.ts, packages/database/src/index.ts).        *)
(*                                                                         *)
(* The intents are those of one requester in one asset, paid from a direct *)
(* treasury, so that all of them share one daily limit.  A step of a       *)
(* worker is one await; decideIntent and expireApproval lock the intent    *)
(* and its approval request and are one step each.  What follows           *)
(* recordSimulation is PaymentExecution's subject, await by await: here it *)
(* is resumed after a crash, submitted or not, and then confirmed, found   *)
(* to have failed, or awaited, for ever if the network never tells.        *)
(***************************************************************************)
EXTENDS Integers, FiniteSetsExt

CONSTANTS
  Intent,        \* intents of one requester
  Worker,        \* worker processes
  Approver,      \* active humans with the role owner or approver
  NoIntent,
  Amount,        \* Amount[i], base units
  Lifetime,      \* Lifetime[i]: expires_at - created_at, 24 hours unless the caller says
  DailyLimit,    \* policy.maxDailyBaseUnits
  AutoUpTo,      \* policy.autoApproveUpToBaseUnits
  MinApprovals,  \* policy.minApprovals
  Day,           \* 24 hours, in ticks
  MaxTime,       \* bound: ticks
  MaxFaults,     \* bound: errors and crashes, of those that leave a job with another
                 \* attempt or take its last one; earlier ones change nothing here
  MaxSwitches    \* bound: times a gate is closed or opened

ASSUME AuthorizationAssumption ==
  /\ NoIntent \notin Intent /\ IsFiniteSet(Intent)
  /\ Amount \in [Intent -> Nat \ {0}]
  /\ Lifetime \in [Intent -> Nat \ {0}]
  /\ DailyLimit \in Nat
  /\ AutoUpTo \in Nat
  /\ MinApprovals \in Nat \ {0}
  /\ Day \in Nat \ {0}
  /\ MaxTime \in Nat
  /\ MaxFaults \in Nat
  /\ MaxSwitches \in Nat

VARIABLES
  now,
  status,       \* intents.status; "paid" stands for finalized and reconciled
  created,      \* intents.created_at
  decision,     \* intents.policy_decision.outcome
  request,      \* approval_requests.status, "none" before the row exists
  votes,        \* votes[i][a]: the approvals row of a, "none" before it exists
  executedAt,   \* executions.created_at, -1 before the row exists
  frozen,       \* organizations.frozen; a frozen treasury or agent has the same effect
  autonomous,   \* organizations.autonomous_execution
  jobs,         \* open jobs, of kinds "evaluate", "expire", "execute" and "confirm"
  dead,         \* jobs that are dead-lettered
  at,           \* at[w]: program counter, job in hand, autonomous as it was read
  faults,
  switches

gates == <<frozen, autonomous, switches>>
records == <<status, decision, request, votes, executedAt>>
queue == <<jobs, dead>>
vars == <<now, records, created, gates, queue, at, faults>>

Underway == {"executing", "submitted", "paid"}
Committed == {"approved"} \cup Underway
Terminal == {"rejected", "expired", "failed", "paid"}
Job == {"evaluate", "expire", "execute", "confirm"} \X Intent
Pc == {"idle", "spend", "refuse", "lapse", "ask", "authorize", "expiring", "context",
       "recheck", "record", "resume", "run", "condemn", "done"}
Idle == [pc |-> "idle", job |-> <<"none", NoIntent>>, auto |-> FALSE]

\* Every record and every worker stays within the states the schema's check
\* constraints and the code's queries know (001_initial.sql, jobs.ts).
TypeOK ==
  /\ now \in 0..MaxTime
  /\ status \in [Intent -> {"absent", "received", "approval_required"} \cup Committed \cup Terminal]
  /\ created \in [Intent -> 0..MaxTime]
  /\ decision \in [Intent -> {"none", "rejected", "approval_required", "auto_authorized"}]
  /\ request \in [Intent -> {"none", "pending", "approved", "rejected", "expired"}]
  /\ votes \in [Intent -> [Approver -> {"none", "approved", "rejected"}]]
  /\ executedAt \in [Intent -> -1..MaxTime]
  /\ frozen \in BOOLEAN /\ autonomous \in BOOLEAN
  /\ jobs \subseteq Job /\ dead \subseteq Job
  /\ at \in [Worker -> [pc : Pc, job : Job \cup {<<"none", NoIntent>>}, auto : BOOLEAN]]
  /\ faults \in 0..MaxFaults /\ switches \in 0..MaxSwitches

Init ==
  /\ now = 0
  /\ status = [i \in Intent |-> "absent"]
  /\ created = [i \in Intent |-> 0]
  /\ decision = [i \in Intent |-> "none"]
  /\ request = [i \in Intent |-> "none"]
  /\ votes = [i \in Intent |-> [a \in Approver |-> "none"]]
  /\ executedAt = [i \in Intent |-> -1]
  /\ frozen = FALSE /\ autonomous \in BOOLEAN
  /\ jobs = {} /\ dead = {}
  /\ at = [w \in Worker |-> Idle]
  /\ faults = 0 /\ switches = 0

IntentOf(w) == at[w].job[2]
Expired(i) == now >= created[i] + Lifetime[i]

Total(S) == MapThenSumSet(LAMBDA i : Amount[i], S)

\* spentToday: what the requester committed to, by the age of the intents.
CountedOnceExecuting(j) == status[j] \in Underway /\ created[j] > now - Day
Counted(j) ==
  /\ status[j] \in {"approval_required"} \cup Committed
  /\ created[j] > now - Day

\* evaluatePaymentIntent, as far as intents of one kind, network, asset and
\* destination can differ.
OverLimit(i) == Amount[i] + Total({j \in Intent \ {i} : Counted(j)}) > DailyLimit
PolicyRejects(i) == Expired(i) \/ OverLimit(i)
DelegatedToAnyAmount(i) == TRUE
Delegated(i) == Amount[i] <= AutoUpTo

(***************************************************************************)
(* Requests and workers.                                                   *)
(***************************************************************************)
\* submitIntent and createIntent; a second submission with the same key
\* returns the intent that is there.
Create(i) ==
  /\ status[i] = "absent"
  /\ ~frozen
  /\ now + Lifetime[i] <= MaxTime   \* bound: so that it can still expire
  /\ status' = [status EXCEPT ![i] = "received"]
  /\ created' = [created EXCEPT ![i] = now]
  /\ jobs' = jobs \cup {<<"evaluate", i>>}
  /\ UNCHANGED <<now, decision, request, votes, executedAt, gates, dead, at, faults>>

Goto(w, pc) == at' = [at EXCEPT ![w].pc = pc]

\* A job is held by one live worker (TaskPool).  approval.expire is not
\* available before the intent expires.
Take(w, e) ==
  /\ at[w] = Idle
  /\ e \in jobs
  /\ \A v \in Worker : at[v].job # e
  /\ e[1] = "expire" => Expired(e[2])
  /\ \E pc \in {"context", "expiring"} :
       /\ pc = "expiring" <=> e[1] = "expire"
       /\ at' = [at EXCEPT ![w] = [pc |-> pc, job |-> e, auto |-> FALSE]]
  /\ UNCHANGED <<now, records, created, gates, queue, faults>>

Complete(w) ==
  /\ at[w].pc = "done"
  /\ jobs' = jobs \ {at[w].job}
  /\ at' = [at EXCEPT ![w] = Idle]
  /\ UNCHANGED <<now, records, created, gates, dead, faults>>

GiveBack(w) == at' = [at EXCEPT ![w] = Idle]

\* An error, or the end of the process: the job is run again from its start, or,
\* after an error in its last attempt, is dead-lettered.
Interrupt(w) ==
  /\ at[w].pc # "idle"
  /\ faults < MaxFaults
  /\ faults' = faults + 1
  /\ GiveBack(w)
  /\ \/ UNCHANGED queue
     \/ jobs' = jobs \ {at[w].job} /\ dead' = dead \cup {at[w].job}
  /\ UNCHANGED <<now, records, created, gates>>

(***************************************************************************)
(* evaluateIntent.  Everything is read before the simulation and committed *)
(* after it; the commit looks only at whether the intent is still received.*)
(***************************************************************************)
ReadIntake(w) ==
  LET i == IntentOf(w) IN
  /\ at[w].pc = "context" /\ at[w].job[1] = "evaluate"
  /\ \/ status[i] # "received" /\ Goto(w, "done")
     \/ status[i] = "received" /\ Expired(i) /\ Goto(w, "lapse")
     \/ status[i] = "received" /\ ~Expired(i) /\ frozen /\ Goto(w, "refuse")
     \/ /\ status[i] = "received" /\ ~Expired(i) /\ ~frozen
        /\ at' = [at EXCEPT ![w] = [@ EXCEPT !.pc = "spend", !.auto = autonomous]]
  /\ UNCHANGED <<now, records, created, gates, queue, faults>>

\* The policy, what was spent, and the simulation, which may refuse.
DecideIntake(w) ==
  LET i == IntentOf(w) IN
  /\ at[w].pc = "spend"
  /\ \/ Goto(w, "refuse")
     \/ ~PolicyRejects(i) /\ Goto(w, IF Delegated(i) /\ at[w].auto THEN "authorize" ELSE "ask")
  /\ UNCHANGED <<now, records, created, gates, queue, faults>>

\* The job that ends an approval nobody gives.
NoExpiry(i) == {}
Misrouted(i) == {<<"approval", i>>}
Expiry(i) == {<<"expire", i>>}

Become(i, s, d, r, new) ==
  /\ status' = [status EXCEPT ![i] = s]
  /\ decision' = [decision EXCEPT ![i] = d]
  /\ request' = [request EXCEPT ![i] = r]
  /\ jobs' = jobs \cup new

CommitIntake(w) ==
  LET i == IntentOf(w) IN
  /\ at[w].pc \in {"lapse", "refuse", "authorize", "ask"}
  /\ \/ status[i] # "received" /\ UNCHANGED <<status, decision, request, jobs>>
     \/ /\ status[i] = "received"
        /\ \/ at[w].pc = "lapse" /\ Become(i, "expired", decision[i], "none", {})
           \/ at[w].pc = "refuse" /\ Become(i, "rejected", "rejected", "none", {})
           \/ /\ at[w].pc = "authorize"
              /\ Become(i, "approved", "auto_authorized", "approved", {<<"execute", i>>})
           \/ /\ at[w].pc = "ask"
              /\ Become(i, "approval_required", "approval_required", "pending", Expiry(i))
  /\ Goto(w, "done")
  /\ UNCHANGED <<now, created, votes, executedAt, gates, dead, faults>>

(***************************************************************************)
(* Approvals.                                                              *)
(***************************************************************************)
ApprovedBy(i) == {a \in Approver : votes[i][a] = "approved"}

Enough(i) == Cardinality(ApprovedBy(i)') >= MinApprovals

\* decideIntent.  One rejection rejects; an approver decides once.  When the
\* intent has expired its updates are rolled back by the error it then throws.
Decidable(i) == status[i] = "approval_required" /\ request[i] = "pending" /\ ~Expired(i)

DecideIntent(a, i, vote) ==
  /\ Decidable(i)
  /\ votes[i][a] = "none"
  /\ vote = "approved" => ~frozen
  /\ votes' = [votes EXCEPT ![i][a] = vote]
  /\ LET outcome == IF vote = "rejected" THEN "rejected"
                    ELSE IF Enough(i) THEN "approved" ELSE "undecided"
     IN IF outcome = "undecided" THEN UNCHANGED <<status, request, jobs>>
        ELSE /\ status' = [status EXCEPT ![i] = outcome]
             /\ request' = [request EXCEPT ![i] = outcome]
             /\ jobs' = IF outcome = "approved" THEN jobs \cup {<<"execute", i>>} ELSE jobs
  /\ UNCHANGED <<now, created, decision, executedAt, gates, dead, at, faults>>

ExpireWhateverStatus(w) ==
  LET i == IntentOf(w) IN
  /\ at[w].pc = "expiring"
  /\ status' = [status EXCEPT ![i] = "expired"]
  /\ request' = [request EXCEPT ![i] = "expired"]
  /\ Goto(w, "done")
  /\ UNCHANGED <<now, created, decision, votes, executedAt, gates, queue, faults>>

\* expireApproval, after it could take its locks.
ExpireApproval(w) ==
  LET i == IntentOf(w) IN
  /\ at[w].pc = "expiring"
  /\ IF status[i] = "approval_required" /\ request[i] = "pending"
     THEN /\ status' = [status EXCEPT ![i] = "expired"]
          /\ request' = [request EXCEPT ![i] = "expired"]
     ELSE UNCHANGED <<status, request>>
  /\ Goto(w, "done")
  /\ UNCHANGED <<now, created, decision, votes, executedAt, gates, queue, faults>>

(***************************************************************************)
(* transaction.execute, up to recordSimulation.                            *)
(***************************************************************************)
\* getExecutionContext: the row.  Its policy is looked at by a later query.
\* A job whose intent is past execution fails until it is dead.
ReadExecution(w) ==
  LET i == IntentOf(w) IN
  /\ at[w].pc = "context" /\ at[w].job[1] = "execute"
  /\ \/ status[i] \notin {"approved", "executing"} /\ Goto(w, "done")
     \/ /\ status[i] \in {"approved", "executing"}
        /\ \/ frozen \/ request[i] # "approved" \/ (status[i] = "approved" /\ Expired(i))
        /\ Goto(w, "condemn")
     \/ status[i] = "approved" /\ request[i] = "approved" /\ ~frozen /\ ~Expired(i) /\ Goto(w, "recheck")
     \/ status[i] = "executing" /\ request[i] = "approved" /\ ~frozen /\ Goto(w, "resume")
  /\ UNCHANGED <<now, records, created, gates, queue, faults>>

\* The policy again, and the build, which may refuse.
RecheckNothing(w) ==
  /\ at[w].pc = "recheck"
  /\ Goto(w, "condemn") \/ Goto(w, "record")
  /\ UNCHANGED <<now, records, created, gates, queue, faults>>

Recheck(w) ==
  /\ at[w].pc = "recheck"
  /\ Goto(w, "condemn") \/ (~PolicyRejects(IntentOf(w)) /\ Goto(w, "record"))
  /\ UNCHANGED <<now, records, created, gates, queue, faults>>

RecordSimulation(w) ==
  LET i == IntentOf(w) IN
  /\ at[w].pc = "record"
  /\ executedAt' = [executedAt EXCEPT ![i] = IF @ = -1 THEN now ELSE @]
  /\ status' = [status EXCEPT ![i] = IF @ = "approved" THEN "executing" ELSE @]
  /\ Goto(w, "run")
  /\ UNCHANGED <<now, created, decision, request, votes, gates, queue, faults>>

\* A run that finds an execution row: what was signed is looked up on the network,
\* what was not is built again; either may tell that it can never be paid.
Resume(w) ==
  /\ at[w].pc = "resume"
  /\ Goto(w, "condemn") \/ Goto(w, "run")
  /\ UNCHANGED <<now, records, created, gates, queue, faults>>

\* Signing, broadcasting and markSubmitted, which fails unless the intent executes.
Submit(w) ==
  LET i == IntentOf(w) IN
  /\ at[w].pc = "run"
  /\ status[i] = "executing"
  /\ status' = [status EXCEPT ![i] = "submitted"]
  /\ jobs' = jobs \cup {<<"confirm", i>>}
  /\ Goto(w, "done")
  /\ UNCHANGED <<now, created, decision, request, votes, executedAt, gates, dead, faults>>

\* transaction.confirm: what the network tells, or a deferral, which counts no
\* attempt and may be repeated for ever.
Confirm(w) ==
  LET i == IntentOf(w) IN
  /\ at[w].pc = "context" /\ at[w].job[1] = "confirm"
  /\ \/ status[i] # "submitted" /\ UNCHANGED status /\ Goto(w, "done")
     \/ /\ status[i] = "submitted"
        /\ \E s \in {"paid", "failed"} : status' = [status EXCEPT ![i] = s]
        /\ Goto(w, "done")
     \/ status[i] = "submitted" /\ UNCHANGED status /\ GiveBack(w)
  /\ UNCHANGED <<now, created, decision, request, votes, executedAt, gates, queue, faults>>

MarkFailed(w) ==
  LET i == IntentOf(w) IN
  /\ at[w].pc = "condemn"
  /\ status' = [status EXCEPT ![i] = IF @ \in Terminal THEN @ ELSE "failed"]
  /\ Goto(w, "done")
  /\ UNCHANGED <<now, created, decision, request, votes, executedAt, gates, queue, faults>>

(***************************************************************************)
(* The organisation, and time.                                             *)
(***************************************************************************)
Switch ==
  /\ switches < MaxSwitches
  /\ switches' = switches + 1
  /\ \/ frozen' = ~frozen /\ UNCHANGED autonomous
     \/ autonomous' = ~autonomous /\ UNCHANGED frozen
  /\ UNCHANGED <<now, records, created, queue, at, faults>>

Tick ==
  /\ now < MaxTime
  /\ now' = now + 1
  /\ UNCHANGED <<records, created, gates, queue, at, faults>>

WorkerStep(w) ==
  \/ Complete(w)
  \/ ReadIntake(w) \/ DecideIntake(w) \/ CommitIntake(w)
  \/ ExpireApproval(w)
  \/ ReadExecution(w) \/ Recheck(w) \/ RecordSimulation(w) \/ Resume(w) \/ Submit(w)
  \/ MarkFailed(w) \/ Confirm(w)

Next ==
  \/ \E i \in Intent : Create(i)
  \/ \E w \in Worker, e \in Job : Take(w, e)
  \/ \E w \in Worker : WorkerStep(w) \/ Interrupt(w)
  \/ \E a \in Approver, i \in Intent, vote \in {"approved", "rejected"} : DecideIntent(a, i, vote)
  \/ Switch
  \/ Tick

Spec == Init /\ [][Next]_vars

(***************************************************************************)
(* Properties.                                                             *)
(***************************************************************************)
\* An intent is approved because its amount is within the delegated authority
\* of an autonomous organisation, or because enough different approvers said
\* yes and none said no, whatever the order of intake, decisions and expiry
\* (evaluateIntent, decideIntent).
QuorumOrDelegated ==
  \A i \in Intent : status[i] \in Committed =>
    \/ decision[i] = "auto_authorized" /\ Amount[i] <= AutoUpTo
    \/ /\ Cardinality(ApprovedBy(i)) >= MinApprovals
       /\ \A a \in Approver : votes[i][a] # "rejected"

Started(i) == executedAt[i] >= 0 /\ status[i] # "failed"

\* When an execution starts, it and the earlier ones among the intents of the
\* 24 hours before it pay no more than the daily limit, although no
\* reservation is made: spentToday is read without a lock and acted on later
\* (jobs.ts: spentToday, getExecutionContext, recordSimulation).
WithinDailyLimit ==
  \A i \in {j \in Intent : Started(j)} :
    Total({j \in Intent : /\ Started(j) /\ executedAt[j] <= executedAt[i]
                          /\ created[j] > executedAt[i] - Day}) <= DailyLimit

\* The same with the 24 hours before the start counted by when the payments
\* were committed, as spentToday's comment has it, and not by when they were
\* asked for.  The code does not keep this.
CommittedWithinLimit ==
  \A i \in {j \in Intent : Started(j)} :
    Total({j \in Intent : /\ Started(j) /\ executedAt[j] <= executedAt[i]
                          /\ executedAt[j] > executedAt[i] - Day}) <= DailyLimit

\* Decisions, expiry and execution race, each with what it read before; an
\* intent that has ended stays as it ended (decideIntent, expireApproval,
\* evaluateIntent, markFailed).
TerminalIsFinal ==
  [][\A i \in Intent : status[i] \in Terminal => status'[i] = status[i]]_vars

\* Executions that start within one day take their shares of the limit as if
\* in one indivisible step each (getExecutionContext, recordSimulation).
B == INSTANCE Budget WITH
       Limit <- DailyLimit,
       holding <- {i \in Intent : status[i] \in Underway},
       done <- {i \in Intent : status[i] \in {"failed", "rejected", "expired"}}
ImplementsBudget == B!Spec

\* The job that takes the intent further, whatever approvers do or leave undone.
Owed(i) ==
  CASE status[i] = "received" -> "evaluate"
    [] status[i] = "approval_required" -> "expire"
    [] status[i] \in {"approved", "executing"} -> "execute"
    [] status[i] = "submitted" -> "confirm"

\* A request that has not ended has a job that will take it further, however
\* intake, decisions, expiry and crashes race: no worker completes the last one on
\* a status that somebody has moved on from or not yet reached, and no approval
\* waits without its expiry (evaluateIntent, decideIntent, expireApproval,
\* markSubmitted, runOnce).  At worst that job is a dead letter, where an operator
\* finds it, or a confirmation that is deferred again and again.
NeverAbandoned ==
  \A i \in Intent : status[i] \notin {"absent"} \cup Terminal => <<Owed(i), i>> \in jobs \cup dead
=============================================================================
