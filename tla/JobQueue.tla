------------------------------ MODULE JobQueue ------------------------------
(***************************************************************************)
(* The transactional outbox and the leased job queue                       *)
(* (packages/database/src/jobs.ts, driven by apps/worker/src/worker.ts).   *)
(*                                                                         *)
(* An outbox row is inserted in the transaction of the change that needs   *)
(* the work; every worker pumps due rows into jobs, then leases one job,   *)
(* runs its handler, and reports success, a deferral or an error; success  *)
(* whose answer is lost is followed by the report of an error.  Time is    *)
(* abstracted: a delay (available_at, run_at, backoff) only ever postpones *)
(* a step, and a lease lapses by a step of its own.                        *)
(***************************************************************************)
EXTENDS Naturals, FiniteSets

CONSTANTS
  Worker,                 \* worker processes
  Event,                  \* outbox events (dedupe key "outbox:<id>")
  Bucket,                 \* periodic jobs (dedupe key "<kind>:<interval>")
  NoJob,                  \* a worker that runs nothing
  MaxAttempts,            \* jobs.max_attempts
  MaxFaults,              \* bound: errors, lost answers and worker crashes in a run
  MaxDefers,              \* bound: deferrals in a run
  Brief                   \* jobs whose handlers are done before their leases lapse

Key == Event \cup Bucket

ASSUME JobQueueAssumption ==
  /\ Event \cap Bucket = {}
  /\ NoJob \notin Key
  /\ MaxAttempts \in Nat \ {0}
  /\ MaxFaults \in Nat
  /\ MaxDefers \in Nat
  /\ Brief \subseteq Key

VARIABLES
  outbox,    \* outbox[e]: "absent", "pending" or "processed"
  job,       \* job[k]: the jobs row with that dedupe key
  run,       \* run[w]: the JobRecord w holds, with the attempts it read, and whether
             \* its complete was committed but not answered
  faults,    \* errors and crashes so far
  defers     \* deferrals so far

vars == <<outbox, job, run, faults, defers>>

NoRow  == [status |-> "absent", attempts |-> 0, leased |-> FALSE]
Queued == [status |-> "queued", attempts |-> 0, leased |-> FALSE]
Idle   == [job |-> NoJob, attempts |-> 0, unanswered |-> FALSE]

Running(k) == {w \in Worker : run[w].job = k}

\* A claim of a brief job ends in success, in a deferral, which gives the attempt
\* back, or in a fault: its attempts stay within the faults.
TypeOK ==
  /\ outbox \in [Event -> {"absent", "pending", "processed"}]
  /\ job \in [Key -> [status : {"absent", "queued", "running", "retry", "succeeded", "dead"},
                      attempts : Nat, leased : BOOLEAN]]
  /\ run \in [Worker -> [job : Key \cup {NoJob}, attempts : Nat, unanswered : BOOLEAN]]
  /\ \A k \in Brief : job[k].attempts <= MaxFaults + 1
  /\ faults \in 0..MaxFaults
  /\ defers \in 0..MaxDefers

Init ==
  /\ outbox = [e \in Event |-> "absent"]
  /\ job = [k \in Key |-> NoRow]
  /\ run = [w \in Worker |-> Idle]
  /\ faults = 0
  /\ defers = 0

(***************************************************************************)
(* Enqueueing.                                                             *)
(***************************************************************************)
Emit(e) ==                       \* "insert into outbox_events" commits
  /\ outbox[e] = "absent"
  /\ outbox' = [outbox EXCEPT ![e] = "pending"]
  /\ UNCHANGED <<job, run, faults, defers>>

PumpWithoutJobs(batch) ==
  /\ batch # {}
  /\ \A e \in batch : outbox[e] = "pending"
  /\ outbox' = [e \in Event |-> IF e \in batch THEN "processed" ELSE outbox[e]]
  /\ UNCHANGED <<job, run, faults, defers>>

\* pumpOutbox: any batch of due rows becomes jobs; "on conflict do nothing".
PumpOutbox(batch) ==
  /\ batch # {}
  /\ \A e \in batch : outbox[e] = "pending"
  /\ outbox' = [e \in Event |-> IF e \in batch THEN "processed" ELSE outbox[e]]
  /\ job' = [k \in Key |-> IF k \in batch /\ job[k] = NoRow THEN Queued ELSE job[k]]
  /\ UNCHANGED <<run, faults, defers>>

EnqueueJobAnew(b) ==
  /\ job[b].status # "running"
  /\ job' = [job EXCEPT ![b] = Queued]
  /\ UNCHANGED <<outbox, run, faults, defers>>

\* enqueueJob from maintain: several workers reach the same bucket.
EnqueueJob(b) ==
  /\ job[b] = NoRow
  /\ job' = [job EXCEPT ![b] = Queued]
  /\ UNCHANGED <<outbox, run, faults, defers>>

(***************************************************************************)
(* Leasing.                                                                *)
(***************************************************************************)
ClaimableNeverRunning(k) == job[k].status \in {"queued", "retry"}
ClaimableWhileLeased(k) == job[k].status \in {"queued", "retry", "running"}
ClaimableWhenDead(k) == job[k].status \in {"queued", "retry", "dead"}
Claimable(k) ==
  \/ job[k].status \in {"queued", "retry"}
  \/ job[k].status = "running" /\ ~job[k].leased

Claim(w, k) ==
  /\ run[w] = Idle
  /\ Claimable(k)
  /\ job' = [job EXCEPT ![k] = [status |-> "running", attempts |-> @.attempts + 1, leased |-> TRUE]]
  /\ run' = [run EXCEPT ![w] = [job |-> k, attempts |-> job[k].attempts + 1, unanswered |-> FALSE]]
  /\ UNCHANGED <<outbox, faults, defers>>

\* Sixty seconds pass.  Nothing renews a lease while a handler runs, so one
\* lapses under a live worker exactly when its handler takes longer than that.
LapseLease(k) ==
  /\ job[k].status = "running" /\ job[k].leased
  /\ k \in Brief => Running(k) = {}
  /\ job' = [job EXCEPT ![k].leased = FALSE]
  /\ UNCHANGED <<outbox, run, faults, defers>>

(***************************************************************************)
(* Reporting: the three ends of runOnce, and a worker that never reports.  *)
(* complete is guarded by the row's status, defer and fail are not, and    *)
(* none of the three looks at who holds the lease.                         *)
(***************************************************************************)
Handling(w) == run[w].job # NoJob /\ ~run[w].unanswered

Succeeded(row) == IF row.status = "running" THEN [row EXCEPT !.status = "succeeded", !.leased = FALSE] ELSE row

Complete(w) ==
  /\ Handling(w)
  /\ job' = [job EXCEPT ![run[w].job] = Succeeded(@)]
  /\ run' = [run EXCEPT ![w] = Idle]
  /\ UNCHANGED <<outbox, faults, defers>>

\* complete is called inside the try: if its update commits and its answer is
\* lost, the catch goes on to fail a job that has succeeded.
CompleteUnanswered(w) ==
  /\ Handling(w)
  /\ faults < MaxFaults
  /\ job' = [job EXCEPT ![run[w].job] = Succeeded(@)]
  /\ run' = [run EXCEPT ![w].unanswered = TRUE]
  /\ faults' = faults + 1
  /\ UNCHANGED <<outbox, defers>>

Defer(w) ==
  /\ Handling(w)
  /\ defers < MaxDefers
  /\ job' = [job EXCEPT ![run[w].job] =
               [status |-> "retry", leased |-> FALSE,
                attempts |-> IF @.attempts = 0 THEN 0 ELSE @.attempts - 1]]
  /\ run' = [run EXCEPT ![w] = Idle]
  /\ defers' = defers + 1
  /\ UNCHANGED <<outbox, faults>>

Exhausted(w) == run[w].attempts >= MaxAttempts

\* A handler's error, or the lost answer, which is counted already.
Fail(w) ==
  /\ run[w].job # NoJob
  /\ run[w].unanswered \/ faults < MaxFaults
  /\ job' = [job EXCEPT ![run[w].job] =
               [@ EXCEPT !.leased = FALSE,
                         !.status = IF Exhausted(w) THEN "dead" ELSE "retry"]]
  /\ run' = [run EXCEPT ![w] = Idle]
  /\ faults' = IF run[w].unanswered THEN faults ELSE faults + 1
  /\ UNCHANGED <<outbox, defers>>

Crash(w) ==
  /\ run[w].job # NoJob
  /\ faults < MaxFaults
  /\ run' = [run EXCEPT ![w] = Idle]
  /\ faults' = faults + 1
  /\ UNCHANGED <<outbox, job, defers>>

Next ==
  \/ \E e \in Event : Emit(e)
  \/ \E batch \in SUBSET Event : PumpOutbox(batch)
  \/ \E b \in Bucket : EnqueueJob(b)
  \/ \E w \in Worker, k \in Key : Claim(w, k)
  \/ \E k \in Key : LapseLease(k)
  \/ \E w \in Worker : Complete(w) \/ CompleteUnanswered(w) \/ Defer(w) \/ Fail(w) \/ Crash(w)

Spec == Init /\ [][Next]_vars

(***************************************************************************)
(* Fairness.  Every worker loops over pump, claim, handle and report for   *)
(* as long as it lives.  Claims are strongly fair per job because claim    *)
(* takes the job that has been ready longest (order by run_at), so a ready *)
(* job cannot be passed over for ever.  A handler returns, and a worker    *)
(* that lost the answer of complete reports that as an error.              *)
(***************************************************************************)
Fairness ==
  /\ \A e \in Event : WF_vars(\E batch \in SUBSET Event : e \in batch /\ PumpOutbox(batch))
  /\ \A k \in Key : SF_vars(\E w \in Worker : Claim(w, k))
  /\ \A k \in Key : WF_vars(LapseLease(k))
  /\ \A w \in Worker : WF_vars(Complete(w)) /\ WF_vars(run[w].unanswered /\ Fail(w))

FairSpec == Spec /\ Fairness

(***************************************************************************)
(* Properties.                                                             *)
(***************************************************************************)
Ended(k) == job[k].status \in {"succeeded", "dead"}

\* What was emitted and is not ended is waiting in the outbox, claimable, held by
\* a live worker, or under a lease that will lapse.
NothingForgotten ==
  \A e \in Event : outbox[e] # "absent" =>
    \/ outbox[e] = "pending"
    \/ Ended(e)
    \/ Claimable(e)
    \/ Running(e) # {}
    \/ job[e].status = "running" /\ job[e].leased

\* An outbox row is marked processed in the same transaction that creates its
\* job, and a job that was started is never forgotten (pumpOutbox, claim).  It is
\* given up, if its handler is done within its lease, only after MaxAttempts claims,
\* however deferrals, which give an attempt back, crashes and errors alternate
\* (defer, fail).
NoLostWork ==
  /\ NothingForgotten
  /\ \A k \in Brief : job[k].status = "dead" => job[k].attempts >= MaxAttempts

\* The row of a job whose lease outlasts its handler and the worker that runs it
\* agree, whatever other jobs do: one live holder, which knows the attempt it is;
\* the row is running unless that holder is about to fail a job that it completed.
HolderOwnsRow ==
  \A w1, w2 \in Worker :
    (run[w1].job = run[w2].job /\ run[w1].job \in Brief) =>
      /\ w1 = w2
      /\ job[run[w1].job].status = IF run[w1].unanswered THEN "succeeded" ELSE "running"
      /\ job[run[w1].job].attempts = run[w1].attempts

\* Whether or not leases lapse under live workers: an ended job is handed to
\* nobody, and only those who held it when it ended can still revive it, by a late
\* report or after a lost answer (fail and defer do not look at the status).  Once
\* they have let go it stays as it is.
EndedIsFinal ==
  [][\A k \in Key : Ended(k) =>
       /\ Running(k)' \subseteq Running(k)
       /\ Running(k) = {} => job'[k].status = job[k].status]_vars

\* "Enqueue through a transactional outbox so database commits cannot lose
\* work": what was emitted is finally done or dead-lettered, and stays so, through
\* crashes, errors and lost answers.
EmittedEnds == \A e \in Event : outbox[e] = "pending" ~> []Ended(e)

(***************************************************************************)
(* JobQueue implements TaskPool.                                           *)
(***************************************************************************)
AbstractTask(k) ==
  CASE Ended(k) /\ Running(k) = {} -> "closed"
    [] job[k].status = "absent" /\ (k \in Bucket \/ outbox[k] = "absent") -> "absent"
    [] OTHER -> "open"

Pool == INSTANCE TaskPool WITH
  Task <- Key,
  Exclusive <- Brief,
  task <- [k \in Key |-> AbstractTask(k)],
  holders <- [k \in Key |-> Running(k)]

\* Pumping, leasing and lapsing are invisible to the users of the queue: every
\* step of the tables is a step of the task pool or changes nothing in it.  A task
\* is closed when its job has ended and nobody holds it any more: until then a
\* late report, or fail after a lost answer, may still put it back.
ImplementsTaskPool == Pool!Spec
=============================================================================
