--------------------------- MODULE JobQueue_proofs ---------------------------
(***************************************************************************)
(* Proofs about JobQueue, for any workers, events, buckets and bounds.     *)
(***************************************************************************)
EXTENDS JobQueue, TLAPS

(***************************************************************************)
(* What holds whether or not leases lapse under live workers.  A row is    *)
(* created once, when its outbox row is processed, and is never removed.   *)
(***************************************************************************)
JobRow == [status : {"absent", "queued", "running", "retry", "succeeded", "dead"},
           attempts : Nat, leased : BOOLEAN]
Hand == [job : Key \cup {NoJob}, attempts : Nat, unanswered : BOOLEAN]

Shapes ==
  /\ outbox \in [Event -> {"absent", "pending", "processed"}]
  /\ job \in [Key -> JobRow]
  /\ run \in [Worker -> Hand]
  /\ faults \in 0..MaxFaults
  /\ defers \in 0..MaxDefers

AbsentIsNoRow == \A k \in Key : job[k].status = "absent" => job[k] = NoRow
PumpedTogether == \A e \in Event : outbox[e] = "processed" <=> job[e].status # "absent"
EmptyHands == \A w \in Worker : run[w].job = NoJob => run[w] = Idle
HeldIsThere == \A w \in Worker : run[w].job # NoJob => job[run[w].job].status # "absent"

RowsInv == Shapes /\ AbsentIsNoRow /\ PumpedTogether /\ EmptyHands /\ HeldIsThere

(***************************************************************************)
(* What a lease that outlasts the handler adds: one live holder, whose row *)
(* has the attempt the holder read and is running under its lease, or has  *)
(* succeeded without the holder knowing, so that the unguarded reports     *)
(* (defer, fail) always hit the row they are about.                        *)
(***************************************************************************)
OneHolder == \A v, w \in Worker : run[v].job = run[w].job /\ run[v].job \in Brief => v = w
HeldIsLeased ==
  \A w \in Worker : run[w].job \in Brief =>
    /\ IF run[w].unanswered THEN job[run[w].job].status = "succeeded"
       ELSE job[run[w].job].status = "running" /\ job[run[w].job].leased
    /\ job[run[w].job].attempts = run[w].attempts
\* A claim that is over and did not succeed gave its attempt back or was a fault.
AttemptsCounted ==
  /\ \A k \in Brief :
       /\ job[k].attempts <= faults + 1
       /\ Running(k) = {} /\ job[k].status # "succeeded" => job[k].attempts <= faults
  /\ \A w \in Worker : run[w].job \in Brief /\ run[w].unanswered => run[w].attempts <= faults
DeadIsExhausted == \A k \in Brief : job[k].status = "dead" => job[k].attempts >= MaxAttempts

LeaseInv == RowsInv /\ OneHolder /\ HeldIsLeased /\ AttemptsCounted /\ DeadIsExhausted

-----------------------------------------------------------------------------
(***************************************************************************)
(* The rows, whatever leases do.                                           *)
(***************************************************************************)
\* The tables start empty and every worker idle.
LEMMA RowsInit == Init => RowsInv
BY JobQueueAssumption
   DEF Init, RowsInv, Shapes, JobRow, Hand, AbsentIsNoRow, PumpedTogether, EmptyHands, HeldIsThere,
       NoRow, Idle, Key

\* A worker that lets go of its job, and changes at most its row, for one that
\* is there: what Complete, Defer, Fail and Crash have in common.
LEMMA LettingGo ==
  ASSUME RowsInv, NEW w \in Worker, run[w].job # NoJob,
         NEW row \in JobRow, row.status # "absent",
         job' = [job EXCEPT ![run[w].job] = row],
         run' = [run EXCEPT ![w] = Idle],
         outbox' = outbox, faults' \in 0..MaxFaults, defers' \in 0..MaxDefers
  PROVE  RowsInv'
<1>1. run[w].job \in Key
  BY DEF RowsInv, Shapes, Hand
<1>2. Shapes'
  BY <1>1 DEF RowsInv, Shapes, Hand, Idle
<1>3. \A k \in Key : job'[k].status = "absent" <=> job[k].status = "absent"
  BY <1>1 DEF RowsInv, Shapes, HeldIsThere
<1>4. AbsentIsNoRow'
  BY <1>1 DEF RowsInv, Shapes, AbsentIsNoRow, HeldIsThere
<1>5. PumpedTogether'
  BY <1>3 DEF RowsInv, PumpedTogether, Key
<1>6. EmptyHands' /\ HeldIsThere'
  BY <1>1, <1>3 DEF RowsInv, Shapes, Hand, EmptyHands, HeldIsThere, Idle
<1> QED
  BY <1>2, <1>4, <1>5, <1>6 DEF RowsInv

\* Pumping, enqueueing, leasing and reporting keep the rows in order.
LEMMA RowsStep == RowsInv /\ [Next]_vars => RowsInv'
<1> SUFFICES ASSUME RowsInv, [Next]_vars PROVE RowsInv'
  OBVIOUS
<1> USE DEF JobRow, Hand
<1>1. ASSUME NEW e \in Event, Emit(e) PROVE RowsInv'
  BY <1>1 DEF RowsInv, Shapes, AbsentIsNoRow, PumpedTogether, EmptyHands, HeldIsThere, Emit
<1>2. ASSUME NEW batch \in SUBSET Event, PumpOutbox(batch) PROVE RowsInv'
  <2>1. \A k \in Key : job'[k] = IF k \in batch /\ job[k] = NoRow THEN Queued ELSE job[k]
    BY <1>2 DEF PumpOutbox
  <2>2. Shapes'
    BY <1>2 DEF PumpOutbox, RowsInv, Shapes, Queued, NoRow
  <2>3. AbsentIsNoRow' /\ EmptyHands'
    BY <1>2, <2>1 DEF PumpOutbox, RowsInv, AbsentIsNoRow, EmptyHands, Queued, Idle
  <2>4. PumpedTogether'
    BY <1>2, <2>1 DEF PumpOutbox, RowsInv, Shapes, AbsentIsNoRow, PumpedTogether, Queued, NoRow, Key
  <2>5. HeldIsThere'
    BY <1>2, <2>1 DEF PumpOutbox, RowsInv, Shapes, HeldIsThere, Queued
  <2> QED
    BY <2>2, <2>3, <2>4, <2>5 DEF RowsInv
<1>3. ASSUME NEW b \in Bucket, EnqueueJob(b) PROVE RowsInv'
  <2>1. b \in Key /\ b \notin Event
    BY JobQueueAssumption DEF Key
  <2> QED
    BY <1>3, <2>1 DEF EnqueueJob, RowsInv, Shapes, AbsentIsNoRow, PumpedTogether, EmptyHands, HeldIsThere,
                      Queued, Key
<1>4. ASSUME NEW w \in Worker, NEW k \in Key, Claim(w, k) PROVE RowsInv'
  <2>1. job[k].status # "absent" /\ k # NoJob
    BY <1>4, JobQueueAssumption DEF Claim, Claimable
  <2>2. Shapes'
    BY <1>4 DEF Claim, RowsInv, Shapes
  <2>3. /\ job'[k].status = "running" /\ run'[w].job = k /\ UNCHANGED outbox
        /\ \A j \in Key : j # k => job'[j] = job[j]
        /\ \A v \in Worker : v # w => run'[v] = run[v]
    BY <1>4 DEF Claim, RowsInv, Shapes
  <2>4. AbsentIsNoRow' /\ PumpedTogether'
    BY <2>1, <2>3 DEF RowsInv, AbsentIsNoRow, PumpedTogether, Key
  <2>5. EmptyHands'
    BY <2>1, <2>3 DEF RowsInv, EmptyHands
  <2>6. HeldIsThere'
    <3> SUFFICES ASSUME NEW v \in Worker, run'[v].job # NoJob
                 PROVE  job'[run'[v].job].status # "absent"
      BY DEF HeldIsThere
    <3>1. CASE v = w
      BY <2>3, <3>1
    <3>2. CASE v # w
      <4>1. run'[v] = run[v] /\ run[v].job \in Key /\ job[run[v].job].status # "absent"
        BY <2>3, <3>2 DEF RowsInv, Shapes, Hand, HeldIsThere
      <4> QED
        BY <2>3, <4>1
    <3> QED
      BY <3>1, <3>2
  <2> QED
    BY <2>2, <2>4, <2>5, <2>6 DEF RowsInv
<1>5. ASSUME NEW k \in Key, LapseLease(k) PROVE RowsInv'
  <2>1. Shapes'
    BY <1>5 DEF LapseLease, RowsInv, Shapes
  <2>2. UNCHANGED <<outbox, run>> /\ \A j \in Key : job'[j].status = job[j].status /\ (j # k => job'[j] = job[j])
    BY <1>5 DEF LapseLease, RowsInv, Shapes
  <2>3. AbsentIsNoRow' /\ PumpedTogether'
    BY <1>5, <2>2 DEF LapseLease, RowsInv, AbsentIsNoRow, PumpedTogether, Key
  <2>4. EmptyHands' /\ HeldIsThere'
    BY <2>2 DEF RowsInv, Shapes, Hand, EmptyHands, HeldIsThere
  <2> QED
    BY <2>1, <2>3, <2>4 DEF RowsInv
<1>6. ASSUME NEW w \in Worker, Complete(w) \/ Defer(w) \/ Fail(w) \/ Crash(w) PROVE RowsInv'
  <2> DEFINE k == run[w].job
  <2>1. k \in Key /\ k # NoJob /\ job[k] \in JobRow /\ job[k].status # "absent"
    BY <1>6 DEF RowsInv, Shapes, HeldIsThere, Complete, Defer, Fail, Crash, Handling
  <2>2. faults' \in 0..MaxFaults /\ defers' \in 0..MaxDefers /\ outbox' = outbox
        /\ run' = [run EXCEPT ![w] = Idle]
    BY <1>6, JobQueueAssumption DEF RowsInv, Shapes, Complete, Defer, Fail, Crash
  <2>3. \E row \in JobRow : row.status # "absent" /\ job' = [job EXCEPT ![k] = row]
    <3>1. CASE Complete(w)
      <4>1. Succeeded(job[k]) \in JobRow /\ Succeeded(job[k]).status # "absent"
        BY <2>1 DEF Succeeded
      <4> QED
        BY <3>1, <4>1 DEF Complete
    <3>2. CASE Defer(w)
      <4> DEFINE row == [status |-> "retry", leased |-> FALSE,
                         attempts |-> IF job[k].attempts = 0 THEN 0 ELSE job[k].attempts - 1]
      <4>1. row \in JobRow
        BY <2>1
      <4> QED
        BY <2>1, <3>2, <4>1 DEF Defer
    <3>3. CASE Fail(w)
      <4> DEFINE row == [job[k] EXCEPT !.leased = FALSE, !.status = IF Exhausted(w) THEN "dead" ELSE "retry"]
      <4>1. row \in JobRow /\ row.status # "absent"
        BY <2>1
      <4> QED
        BY <2>1, <3>3, <4>1 DEF Fail
    <3>4. CASE Crash(w)
      <4>1. job' = [job EXCEPT ![k] = job[k]]
        BY <2>1, <3>4 DEF Crash, RowsInv, Shapes
      <4> QED
        BY <2>1, <4>1
    <3> QED
      BY <1>6, <3>1, <3>2, <3>3, <3>4
  <2> QED
    BY <2>1, <2>2, <2>3, LettingGo
<1>7. ASSUME NEW w \in Worker, CompleteUnanswered(w) PROVE RowsInv'
  <2> DEFINE k == run[w].job
  <2>0. k \in Key /\ k # NoJob /\ job[k] \in JobRow /\ job[k].status # "absent"
    BY <1>7 DEF RowsInv, Shapes, HeldIsThere, CompleteUnanswered, Handling
  <2>1. k \in Key /\ k # NoJob /\ job[k] \in JobRow /\ job[k].status # "absent" /\ Succeeded(job[k]) \in JobRow
    BY <2>0 DEF Succeeded
  <2>2. /\ job' = [job EXCEPT ![k] = Succeeded(job[k])] /\ UNCHANGED <<outbox, defers>>
        /\ run' = [run EXCEPT ![w].unanswered = TRUE] /\ faults' \in 0..MaxFaults
    BY <1>7, JobQueueAssumption DEF CompleteUnanswered, RowsInv, Shapes
  <2>3. Shapes'
    BY <2>1, <2>2 DEF RowsInv, Shapes
  <2>4. /\ \A j \in Key : (job'[j].status = "absent" <=> job[j].status = "absent") /\ (j # k => job'[j] = job[j])
        /\ \A v \in Worker : run'[v].job = run[v].job /\ (run[v].job = NoJob => run'[v] = run[v])
    BY <2>1, <2>2 DEF RowsInv, Shapes, Succeeded
  <2>5. AbsentIsNoRow' /\ PumpedTogether'
    BY <2>1, <2>2, <2>4 DEF RowsInv, AbsentIsNoRow, PumpedTogether, Key
  <2>6. EmptyHands' /\ HeldIsThere'
    BY <2>4 DEF RowsInv, Shapes, EmptyHands, HeldIsThere
  <2> QED
    BY <2>3, <2>5, <2>6 DEF RowsInv
<1>8. CASE UNCHANGED vars
  BY <1>8 DEF vars, RowsInv, Shapes, AbsentIsNoRow, PumpedTogether, EmptyHands, HeldIsThere
<1> QED
  BY <1>1, <1>2, <1>3, <1>4, <1>5, <1>6, <1>7, <1>8 DEF Next

\* Whatever leases do, the rows stay in order.
LEMMA RowsInOrder == Spec => []RowsInv
BY RowsInit, RowsStep, PTL DEF Spec

-----------------------------------------------------------------------------
(***************************************************************************)
(* One live holder per job, where the lease outlasts the handler.          *)
(***************************************************************************)
LEMMA LeaseInit == Init => LeaseInv
<1> SUFFICES ASSUME Init PROVE LeaseInv
  OBVIOUS
<1>1. RowsInv
  BY RowsInit
<1>2. \A w \in Worker : run[w].job \notin Brief
  BY JobQueueAssumption DEF Init, Idle
<1>3. AttemptsCounted /\ DeadIsExhausted
  BY <1>2, JobQueueAssumption DEF Init, AttemptsCounted, DeadIsExhausted, NoRow
<1> QED
  BY <1>1, <1>2, <1>3 DEF LeaseInv, OneHolder, HeldIsLeased

\* What the holder of a brief job knows of its row.
LEMMA HoldersRow ==
  ASSUME LeaseInv, NEW w \in Worker, run[w].job \in Brief
  PROVE  /\ run[w].job \in Key
         /\ job[run[w].job] \in JobRow
         /\ IF run[w].unanswered THEN job[run[w].job].status = "succeeded"
            ELSE job[run[w].job].status = "running" /\ job[run[w].job].leased
         /\ job[run[w].job].attempts = run[w].attempts
         /\ job[run[w].job].attempts <= faults + 1
         /\ \A v \in Worker : v # w => run[v].job # run[w].job
BY JobQueueAssumption DEF LeaseInv, RowsInv, Shapes, OneHolder, HeldIsLeased, AttemptsCounted

\* The holder lets go: its row is the only one that changes, and nobody else
\* holds it if it is brief.  Then it must pay for its attempts, and be exhausted if dead.
LEMMA HolderLetsGo ==
  ASSUME LeaseInv, RowsInv', NEW w \in Worker, run[w].job # NoJob,
         NEW row \in JobRow,
         job' = [job EXCEPT ![run[w].job] = row],
         run' = [run EXCEPT ![w] = Idle],
         faults' \in {faults, faults + 1},
         run[w].job \in Brief =>
           /\ row.attempts <= faults' + 1
           /\ row.status # "succeeded" => row.attempts <= faults'
           /\ row.status = "dead" => row.attempts >= MaxAttempts
  PROVE  LeaseInv'
<1> DEFINE k == run[w].job
<1>1. k \in Key /\ (k \in Brief => \A v \in Worker : v # w => run[v].job # k)
  BY HoldersRow DEF LeaseInv, RowsInv, Shapes, Hand
<1>2. /\ job'[k] = row
      /\ \A j \in Key : j # k => job'[j] = job[j]
      /\ run'[w].job \notin Brief
      /\ \A v \in Worker : v # w => run'[v] = run[v]
      /\ Brief \subseteq Key
  BY <1>1, JobQueueAssumption DEF LeaseInv, RowsInv, Shapes, Idle
<1>3. OneHolder'
  BY <1>2 DEF LeaseInv, OneHolder
<1>4. HeldIsLeased'
  <2> SUFFICES ASSUME NEW v \in Worker, run'[v].job \in Brief
               PROVE  /\ IF run'[v].unanswered THEN job'[run'[v].job].status = "succeeded"
                         ELSE job'[run'[v].job].status = "running" /\ job'[run'[v].job].leased
                      /\ job'[run'[v].job].attempts = run'[v].attempts
    BY DEF HeldIsLeased
  <2>1. v # w /\ run'[v] = run[v] /\ run[v].job # k /\ run[v].job \in Key
    BY <1>1, <1>2
  <2> QED
    BY <1>2, <2>1 DEF LeaseInv, HeldIsLeased
<1>5. AttemptsCounted'
  <2>0. \A v \in Worker : run'[v].job \in Brief /\ run'[v].unanswered => run'[v].attempts <= faults'
    <3>1. faults \in Nat /\ \A v \in Worker : run[v].attempts \in Nat
      BY JobQueueAssumption DEF LeaseInv, RowsInv, Shapes, Hand
    <3> QED
      BY <1>2, <3>1 DEF LeaseInv, AttemptsCounted
  <2> SUFFICES ASSUME NEW j \in Brief
               PROVE  /\ job'[j].attempts <= faults' + 1
                      /\ Running(j)' = {} /\ job'[j].status # "succeeded" => job'[j].attempts <= faults'
    BY <2>0 DEF AttemptsCounted
  <2>1. CASE j = k
    BY <1>2, <2>1
  <2>2. CASE j # k
    <3>1. job'[j] = job[j] /\ (Running(j)' = {} => Running(j) = {})
      BY <1>2, <2>2 DEF Running
    <3>2. job[j].attempts \in Nat /\ faults \in Nat
      BY <1>2, JobQueueAssumption DEF LeaseInv, RowsInv, Shapes, JobRow
    <3> QED
      BY <3>1, <3>2 DEF LeaseInv, AttemptsCounted
  <2> QED
    BY <2>1, <2>2
<1>6. DeadIsExhausted'
  BY <1>2 DEF LeaseInv, DeadIsExhausted
<1> QED
  BY <1>3, <1>4, <1>5, <1>6 DEF LeaseInv

\* A step that gives no job to anybody, and of a brief row at most creates it or
\* takes the lease when nobody holds it.
LEMMA NobodyMoves ==
  ASSUME LeaseInv, RowsInv', run' = run, faults' = faults,
         \A k \in Brief :
           \/ job'[k] = job[k]
           \/ job[k] = NoRow /\ job'[k] = Queued
           \/ /\ Running(k) = {}
              /\ job'[k].status = job[k].status /\ job'[k].attempts = job[k].attempts
  PROVE  LeaseInv'
<1>1. \A k \in Key : Running(k)' = Running(k)
  BY DEF Running
<1>2. \A w \in Worker : run[w].job \in Brief => job'[run[w].job] = job[run[w].job]
  BY HoldersRow DEF Running, NoRow
<1>3. OneHolder' /\ HeldIsLeased'
  BY <1>2 DEF LeaseInv, OneHolder, HeldIsLeased
<1>4. AttemptsCounted'
  <2>1. faults \in Nat /\ Brief \subseteq Key
    BY JobQueueAssumption DEF LeaseInv, RowsInv, Shapes
  <2> QED
    BY <1>1, <2>1 DEF LeaseInv, AttemptsCounted, NoRow, Queued
<1>5. DeadIsExhausted'
  BY DEF LeaseInv, DeadIsExhausted, NoRow, Queued
<1> QED
  BY <1>3, <1>4, <1>5 DEF LeaseInv

\* Every step keeps to one holder per brief job.
LEMMA LeaseStep == LeaseInv /\ [Next]_vars => LeaseInv'
<1> SUFFICES ASSUME LeaseInv, [Next]_vars PROVE LeaseInv'
  OBVIOUS
<1>r. RowsInv /\ RowsInv' /\ Brief \subseteq Key /\ NoJob \notin Key
  BY RowsStep, JobQueueAssumption DEF LeaseInv
<1>1. ASSUME NEW e \in Event, Emit(e) PROVE LeaseInv'
  BY <1>1, <1>r, NobodyMoves DEF Emit
<1>2. ASSUME NEW batch \in SUBSET Event, PumpOutbox(batch) PROVE LeaseInv'
  <2>1. \A k \in Brief : job'[k] = job[k] \/ (job[k] = NoRow /\ job'[k] = Queued)
    BY <1>2, <1>r DEF PumpOutbox
  <2> QED
    BY <1>2, <1>r, <2>1, NobodyMoves DEF PumpOutbox
<1>3. ASSUME NEW b \in Bucket, EnqueueJob(b) PROVE LeaseInv'
  <2>1. \A k \in Brief : job'[k] = job[k] \/ (job[k] = NoRow /\ job'[k] = Queued)
    BY <1>3, <1>r DEF EnqueueJob, RowsInv, Shapes
  <2> QED
    BY <1>3, <1>r, <2>1, NobodyMoves DEF EnqueueJob
<1>4. ASSUME NEW w \in Worker, NEW k \in Key, Claim(w, k) PROVE LeaseInv'
  <2>1. k \in Brief => Running(k) = {}
    BY <1>4, <1>r DEF Claim, Claimable, LeaseInv, HeldIsLeased, Running
  <2>2. /\ job[k].attempts \in Nat /\ faults \in Nat
        /\ k # NoJob
        /\ k \in Brief => job[k].attempts <= faults
    BY <1>4, <1>r, <2>1, JobQueueAssumption
       DEF Claim, Claimable, LeaseInv, AttemptsCounted, RowsInv, Shapes, JobRow
  <2>3. /\ job'[k] = [status |-> "running", attempts |-> job[k].attempts + 1, leased |-> TRUE]
        /\ \A j \in Key : j # k => job'[j] = job[j]
        /\ run'[w] = [job |-> k, attempts |-> job[k].attempts + 1, unanswered |-> FALSE]
        /\ \A v \in Worker : v # w => run'[v] = run[v]
        /\ run[w] = Idle /\ faults' = faults
    BY <1>4, <1>r DEF Claim, RowsInv, Shapes
  <2>4. k \in Brief => \A v \in Worker : v # w => run[v].job # k
    BY <2>1 DEF Running
  <2>5. OneHolder'
    BY <2>3, <2>4 DEF LeaseInv, OneHolder
  <2>6. HeldIsLeased'
    <3> SUFFICES ASSUME NEW v \in Worker, run'[v].job \in Brief
                 PROVE  /\ IF run'[v].unanswered THEN job'[run'[v].job].status = "succeeded"
                           ELSE job'[run'[v].job].status = "running" /\ job'[run'[v].job].leased
                        /\ job'[run'[v].job].attempts = run'[v].attempts
      BY DEF HeldIsLeased
    <3>1. CASE v = w
      BY <2>3, <3>1
    <3>2. CASE v # w
      <4>1. run'[v] = run[v] /\ run[v].job \in Key /\ job'[run[v].job] = job[run[v].job]
        BY <1>r, <2>3, <2>4, <3>2
      <4> QED
        BY <4>1 DEF LeaseInv, HeldIsLeased
    <3> QED
      BY <3>1, <3>2
  <2>7. AttemptsCounted'
    <3>1. w \in Running(k)'
      BY <2>3 DEF Running
    <3>2. \A j \in Key : j # k => (Running(j)' = {} => Running(j) = {})
      BY <1>r, <2>2, <2>3 DEF Running, Idle
    <3>3. k \in Brief => job'[k].attempts <= faults' + 1
      BY <2>2, <2>3
    <3>4. \A v \in Worker : run'[v].job \in Brief /\ run'[v].unanswered => run'[v].attempts <= faults'
      BY <2>3 DEF LeaseInv, AttemptsCounted
    <3>5. \A j \in Brief : /\ job'[j].attempts <= faults' + 1
                           /\ Running(j)' = {} /\ job'[j].status # "succeeded" => job'[j].attempts <= faults'
      BY <1>r, <2>3, <3>1, <3>2, <3>3 DEF LeaseInv, AttemptsCounted
    <3> QED
      BY <3>4, <3>5 DEF AttemptsCounted
  <2>8. DeadIsExhausted'
    BY <1>r, <2>3 DEF LeaseInv, DeadIsExhausted
  <2> QED
    BY <1>r, <2>5, <2>6, <2>7, <2>8 DEF LeaseInv
<1>5. ASSUME NEW k \in Key, LapseLease(k) PROVE LeaseInv'
  <2>1. k \in Brief => Running(k) = {}
    BY <1>5 DEF LapseLease
  <2>2. \A j \in Key :
          IF j = k THEN job'[j].status = job[j].status /\ job'[j].attempts = job[j].attempts
          ELSE job'[j] = job[j]
    BY <1>5, <1>r DEF LapseLease, RowsInv, Shapes, JobRow
  <2> QED
    BY <1>5, <1>r, <2>1, <2>2, NobodyMoves DEF LapseLease
<1>6. ASSUME NEW w \in Worker, Complete(w) PROVE LeaseInv'
  <2> DEFINE k == run[w].job
             row == Succeeded(job[k])
  <2>1. /\ k # NoJob /\ job[k] \in JobRow
        /\ k \in Brief => job[k].status = "running" /\ job[k].attempts <= faults + 1
    BY <1>6, <1>r, HoldersRow DEF Complete, Handling, RowsInv, Shapes, Hand
  <2>2. /\ row \in JobRow /\ row.attempts = job[k].attempts
        /\ k \in Brief => row.status = "succeeded"
    BY <2>1 DEF JobRow, Succeeded
  <2>3. job' = [job EXCEPT ![k] = row] /\ run' = [run EXCEPT ![w] = Idle] /\ faults' = faults
    BY <1>6, <2>1 DEF Complete
  <2> HIDE DEF row
  <2> QED
    BY <1>r, <2>1, <2>2, <2>3, HolderLetsGo
<1>7. ASSUME NEW w \in Worker, CompleteUnanswered(w) PROVE LeaseInv'
  <2> DEFINE k == run[w].job
             row == Succeeded(job[k])
  <2>1. /\ k # NoJob /\ k \in Key /\ job[k] \in JobRow
        /\ k \in Brief =>
             /\ job[k].status = "running"
             /\ job[k].attempts <= faults + 1 /\ job[k].attempts = run[w].attempts
             /\ \A v \in Worker : v # w => run[v].job # k
        /\ faults \in Nat /\ run[w] \in Hand
    BY <1>7, <1>r, HoldersRow, JobQueueAssumption DEF CompleteUnanswered, Handling, RowsInv, Shapes, Hand
  <2>2. /\ row \in JobRow /\ row.attempts = job[k].attempts
        /\ k \in Brief => row.status = "succeeded"
        /\ row.status = "dead" => job[k].status = "dead"
    BY <2>1 DEF JobRow, Succeeded
  <2>3. /\ job'[k] = row /\ \A j \in Key : j # k => job'[j] = job[j]
        /\ run'[w].job = k /\ run'[w].unanswered /\ run'[w].attempts = run[w].attempts
        /\ \A v \in Worker : v # w => run'[v] = run[v]
        /\ faults' = faults + 1
    BY <1>7, <1>r, <2>1 DEF CompleteUnanswered, RowsInv, Shapes, Hand
  <2> HIDE DEF row
  <2>4. OneHolder' /\ DeadIsExhausted'
    BY <1>r, <2>1, <2>2, <2>3 DEF LeaseInv, OneHolder, DeadIsExhausted
  <2>5. HeldIsLeased'
    <3> SUFFICES ASSUME NEW v \in Worker, run'[v].job \in Brief
                 PROVE  /\ IF run'[v].unanswered THEN job'[run'[v].job].status = "succeeded"
                           ELSE job'[run'[v].job].status = "running" /\ job'[run'[v].job].leased
                        /\ job'[run'[v].job].attempts = run'[v].attempts
      BY DEF HeldIsLeased
    <3>1. CASE v = w
      BY <2>1, <2>2, <2>3, <3>1
    <3>2. CASE v # w
      <4>1. run'[v] = run[v] /\ run[v].job \in Key /\ job'[run[v].job] = job[run[v].job]
        BY <1>r, <2>1, <2>3, <3>2
      <4> QED
        BY <4>1 DEF LeaseInv, HeldIsLeased
    <3> QED
      BY <3>1, <3>2
  <2>6. AttemptsCounted'
    <3>1. \A j \in Key : job[j].attempts \in Nat
      BY <1>r DEF RowsInv, Shapes, JobRow
    <3>2. \A j \in Key : j # k => (Running(j)' = {} => Running(j) = {})
      BY <2>1, <2>3 DEF Running
    <3>3. \A v \in Worker : run'[v].job \in Brief /\ run'[v].unanswered => run'[v].attempts <= faults'
      <4>1. \A v \in Worker : run[v].attempts \in Nat
        BY <1>r DEF RowsInv, Shapes, Hand
      <4>2. k \in Brief => run[w].attempts <= faults'
        BY <2>1, <2>3
      <4> QED
        BY <2>1, <2>3, <4>1, <4>2 DEF LeaseInv, AttemptsCounted
    <3>4. \A j \in Brief : /\ job'[j].attempts <= faults' + 1
                           /\ Running(j)' = {} /\ job'[j].status # "succeeded" => job'[j].attempts <= faults'
      BY <1>r, <2>1, <2>2, <2>3, <3>1, <3>2 DEF LeaseInv, AttemptsCounted
    <3> QED
      BY <3>3, <3>4 DEF AttemptsCounted
  <2> QED
    BY <1>r, <2>4, <2>5, <2>6 DEF LeaseInv
<1>8. ASSUME NEW w \in Worker, Defer(w) PROVE LeaseInv'
  <2> DEFINE k == run[w].job
             row == [status |-> "retry", leased |-> FALSE,
                     attempts |-> IF job[k].attempts = 0 THEN 0 ELSE job[k].attempts - 1]
  <2>1. /\ k # NoJob /\ job[k] \in JobRow /\ (k \in Brief => job[k].attempts <= faults + 1)
        /\ faults \in Nat
    BY <1>8, <1>r, HoldersRow, JobQueueAssumption DEF Defer, Handling, RowsInv, Shapes, Hand
  <2>2. /\ row \in JobRow /\ row.status = "retry"
        /\ k \in Brief => row.attempts <= faults /\ row.attempts <= faults + 1
    BY <2>1 DEF JobRow
  <2>3. job' = [job EXCEPT ![k] = row] /\ run' = [run EXCEPT ![w] = Idle] /\ faults' = faults
    BY <1>8 DEF Defer
  <2> HIDE DEF row
  <2> QED
    BY <1>r, <2>1, <2>2, <2>3, HolderLetsGo
<1>9. ASSUME NEW w \in Worker, Fail(w) PROVE LeaseInv'
  <2> DEFINE k == run[w].job
             row == [job[k] EXCEPT !.leased = FALSE, !.status = IF Exhausted(w) THEN "dead" ELSE "retry"]
  <2>1. /\ k # NoJob /\ job[k] \in JobRow /\ faults \in Nat
        /\ k \in Brief => job[k].attempts <= faults + 1 /\ job[k].attempts = run[w].attempts
    BY <1>9, <1>r, HoldersRow, JobQueueAssumption DEF Fail, RowsInv, Shapes, Hand
  <2>2. /\ row \in JobRow /\ row.attempts = job[k].attempts
        /\ row.status = IF Exhausted(w) THEN "dead" ELSE "retry"
    BY <2>1 DEF JobRow
  <2>3. row.status # "succeeded" /\ (k \in Brief /\ row.status = "dead" => row.attempts >= MaxAttempts)
    BY <2>1, <2>2 DEF Exhausted
  <2>4. /\ job' = [job EXCEPT ![k] = row] /\ run' = [run EXCEPT ![w] = Idle]
        /\ faults' = IF run[w].unanswered THEN faults ELSE faults + 1
    BY <1>9 DEF Fail
  <2>5. k \in Brief /\ run[w].unanswered => job[k].attempts <= faults
    BY <2>1 DEF LeaseInv, AttemptsCounted
  <2>6. k \in Brief => row.attempts <= faults'
    BY <2>1, <2>2, <2>4, <2>5
  <2>7. (k \in Brief => row.attempts <= faults' + 1) /\ faults' \in {faults, faults + 1}
    BY <2>1, <2>2, <2>4, <2>6 DEF JobRow
  <2> HIDE DEF row
  <2> QED
    BY <1>r, <2>1, <2>2, <2>3, <2>4, <2>6, <2>7, HolderLetsGo
<1>10. ASSUME NEW w \in Worker, Crash(w) PROVE LeaseInv'
  <2> DEFINE k == run[w].job
  <2>1. /\ k # NoJob /\ k \in Key /\ job[k] \in JobRow /\ faults \in Nat
        /\ k \in Brief => job[k].attempts <= faults + 1 /\ job[k].status \in {"running", "succeeded"}
    BY <1>10, <1>r, HoldersRow, JobQueueAssumption DEF Crash, RowsInv, Shapes, Hand
  <2>2. /\ job' = [job EXCEPT ![k] = job[k]] /\ run' = [run EXCEPT ![w] = Idle]
        /\ faults' = faults + 1
    BY <1>10, <1>r, <2>1 DEF Crash, RowsInv, Shapes
  <2>3. job[k].attempts \in Nat /\ (k \in Brief => job[k].attempts <= faults' /\ job[k].attempts <= faults' + 1)
    BY <2>1, <2>2 DEF JobRow
  <2> QED
    BY <1>r, <2>1, <2>2, <2>3, HolderLetsGo
<1>11. CASE UNCHANGED vars
  BY <1>11, <1>r, NobodyMoves DEF vars
<1> QED
  BY <1>1, <1>2, <1>3, <1>4, <1>5, <1>6, <1>7, <1>8, <1>9, <1>10, <1>11 DEF Next

LEMMA LeasesHold == Spec => []LeaseInv
BY LeaseInit, LeaseStep, PTL DEF Spec

-----------------------------------------------------------------------------
(***************************************************************************)
(* The properties.                                                         *)
(***************************************************************************)
\* Every reachable state is well typed: whatever claims, deferrals, errors and
\* crashes do to the row of a brief job, its attempts never exceed the faults by
\* more than one (claim, defer, fail).
THEOREM TypeCorrect == Spec => []TypeOK
<1>1. LeaseInv => TypeOK
  <2> SUFFICES ASSUME LeaseInv PROVE TypeOK
    OBVIOUS
  <2>1. ASSUME NEW k \in Brief PROVE job[k].attempts <= MaxFaults + 1
    BY JobQueueAssumption DEF LeaseInv, RowsInv, Shapes, JobRow, AttemptsCounted
  <2> QED
    BY <2>1 DEF LeaseInv, RowsInv, Shapes, JobRow, Hand, TypeOK
<1> QED
  BY <1>1, LeasesHold, PTL

\* Committed work is not lost: what is emitted and not ended is still on its way,
\* and no job that is done within its lease is dead-lettered before MaxAttempts
\* claims (pumpOutbox, claim, defer, fail).
THEOREM WorkIsNotLost == Spec => []NoLostWork
<1>1. RowsInv => NothingForgotten
  BY DEF RowsInv, Shapes, JobRow, PumpedTogether, NothingForgotten, Ended, Claimable, Key
<1>2. LeaseInv => NoLostWork
  BY <1>1 DEF LeaseInv, DeadIsExhausted, NoLostWork
<1> QED
  BY <1>2, LeasesHold, PTL

\* One live worker holds a job that is done within its lease, the attempt the worker
\* read is still the row's, and the row is running, or has succeeded without the
\* worker knowing, whatever other jobs' leases do (claim, complete, defer, fail).
THEOREM OneHolderEach == Spec => []HolderOwnsRow
<1>1. LeaseInv => HolderOwnsRow
  BY DEF LeaseInv, OneHolder, HeldIsLeased, HolderOwnsRow
<1> QED
  BY <1>1, LeasesHold, PTL

\* Whether or not leases lapse under live workers, a job that succeeded or died is
\* handed to nobody, and stays so once nobody holds it: only a late report, or fail
\* after a lost answer, of one that held it revives it (claim, complete, defer, fail).
THEOREM EndsAreFinal == Spec => EndedIsFinal
<1> DEFINE Final == \A k \in Key : Ended(k) =>
                      /\ Running(k)' \subseteq Running(k)
                      /\ Running(k) = {} => job'[k].status = job[k].status
<1>1. RowsInv /\ [Next]_vars => [Final]_vars
  <2> SUFFICES ASSUME RowsInv, Next, NEW k \in Key, Ended(k)
               PROVE  /\ Running(k)' \subseteq Running(k)
                      /\ Running(k) = {} => job'[k].status = job[k].status
    BY DEF Final
  <2> DEFINE Kept == /\ Running(k)' \subseteq Running(k)
                     /\ Running(k) = {} => job'[k].status = job[k].status
  <2>1. job \in [Key -> JobRow] /\ run \in [Worker -> Hand] /\ job[k].status \in {"succeeded", "dead"} /\ k # NoJob
    BY JobQueueAssumption DEF RowsInv, Shapes, Ended
  <2>2. ASSUME run' = run PROVE Running(k)' = Running(k)
    BY <2>2 DEF Running
  <2>3. ASSUME NEW batch \in SUBSET Event, PumpOutbox(batch) PROVE Kept
    BY <2>1, <2>2, <2>3 DEF PumpOutbox, NoRow
  <2>4. ASSUME NEW b \in Bucket, EnqueueJob(b) PROVE Kept
    BY <2>1, <2>2, <2>4 DEF EnqueueJob, NoRow
  <2>5. ASSUME NEW w \in Worker, NEW j \in Key, Claim(w, j) PROVE Kept
    <3>1. j # k
      BY <2>1, <2>5 DEF Claim, Claimable
    <3>2. job'[k] = job[k] /\ run'[w].job = j /\ \A v \in Worker : v # w => run'[v] = run[v]
      BY <2>1, <2>5, <3>1 DEF Claim
    <3> QED
      BY <3>1, <3>2 DEF Running
  <2>6. ASSUME NEW j \in Key, LapseLease(j) PROVE Kept
    BY <2>1, <2>2, <2>6 DEF LapseLease
  <2>7. ASSUME NEW w \in Worker, Complete(w) \/ CompleteUnanswered(w) \/ Defer(w) \/ Fail(w) \/ Crash(w)
        PROVE  Kept
    <3>1. run[w].job \in Key /\ \A j \in Key : j # run[w].job => job'[j] = job[j]
      BY <2>1, <2>7 DEF Complete, CompleteUnanswered, Defer, Fail, Crash, Handling, Hand
    <3>2. /\ run'[w].job \in {run[w].job, NoJob}
          /\ \A v \in Worker : v # w => run'[v] = run[v]
      BY <2>1, <2>7 DEF Complete, CompleteUnanswered, Defer, Fail, Crash, Idle, Hand
    <3> QED
      BY <2>1, <3>1, <3>2 DEF Running
  <2>8. ASSUME NEW e \in Event, Emit(e) PROVE Kept
    BY <2>2, <2>8 DEF Emit
  <2> QED
    BY <2>3, <2>4, <2>5, <2>6, <2>7, <2>8 DEF Next
<1> QED
  BY <1>1, RowsInOrder, PTL DEF Spec, EndedIsFinal

(***************************************************************************)
(* The refinement.  Emit and EnqueueJob post a task, Claim takes one, and  *)
(* a report or a crash closes it when the job has ended and nobody else    *)
(* holds it, and returns it otherwise; pumping, lapsing and a completion   *)
(* whose answer is lost leave the pool as it is.  Only the single holder   *)
(* needs a lease that outlasts the handler.                                *)
(***************************************************************************)
\* Enqueueing, in the pool.
LEMMA PoolPosts ==
  ASSUME run' = run, NEW k \in Key,
         AbstractTask(k) = "absent", AbstractTask(k)' = "open",
         \A j \in Key : j # k => AbstractTask(j)' = AbstractTask(j)
  PROVE  Pool!Post(k)
<1>1. [j \in Key |-> AbstractTask(j)]' = [[j \in Key |-> AbstractTask(j)] EXCEPT ![k] = "open"]
  OBVIOUS
<1>2. [j \in Key |-> Running(j)]' = [j \in Key |-> Running(j)]
  BY DEF Running
<1> QED
  BY <1>1, <1>2 DEF Pool!Post

\* Pumping, lapsing and an unanswered completion, in the pool.
LEMMA PoolStutters ==
  ASSUME \A j \in Key : Running(j)' = Running(j) /\ AbstractTask(j)' = AbstractTask(j)
  PROVE  UNCHANGED Pool!vars
BY DEF Pool!vars

\* Every report ends what the worker held: the pool gets it back, or it was the
\* last that held an ended job, which is then closed.
LEMMA PoolReports ==
  ASSUME RowsInv, NEW w \in Worker, NEW k \in Key, run[w].job = k,
         run' = [run EXCEPT ![w] = Idle], outbox' = outbox,
         NEW row \in JobRow, row.status # "absent",
         job' = [job EXCEPT ![k] = row]
  PROVE  Pool!Return(w, k) \/ Pool!Close(w, k)
<1>0. k # NoJob
  BY JobQueueAssumption
<1>1. w \in Running(k) /\ job[k].status # "absent"
  BY <1>0 DEF RowsInv, HeldIsThere, Running
<1>2. /\ \A j \in Key : j # k => job'[j] = job[j]
      /\ job'[k] = row
      /\ run'[w] = Idle
      /\ \A v \in Worker : v # w => run'[v] = run[v]
  BY DEF RowsInv, Shapes
<1>3. \A j \in Key : Running(j)' = IF j = k THEN Running(k) \ {w} ELSE Running(j)
  BY <1>2, JobQueueAssumption DEF Running, Idle
<1>4. [j \in Key |-> Running(j)]' = [[j \in Key |-> Running(j)] EXCEPT ![k] = @ \ {w}]
  BY <1>3
<1>5. \A j \in Key : j # k => AbstractTask(j)' = AbstractTask(j)
  BY <1>2, <1>3 DEF AbstractTask, Ended
<1>6. AbstractTask(k) = "open"
  BY <1>1 DEF AbstractTask, Ended
<1>7. CASE row.status \in {"succeeded", "dead"} /\ Running(k)' = {}
  <2>1. AbstractTask(k)' = "closed"
    BY <1>2, <1>7 DEF AbstractTask, Ended
  <2>2. [j \in Key |-> AbstractTask(j)]' = [[j \in Key |-> AbstractTask(j)] EXCEPT ![k] = "closed"]
    BY <1>5, <2>1
  <2>3. Running(k) = {w} /\ Running(k) \ {w} = {}
    BY <1>1, <1>3, <1>7
  <2> QED
    BY <1>4, <2>2, <2>3 DEF Pool!Close
<1>8. CASE ~(row.status \in {"succeeded", "dead"} /\ Running(k)' = {})
  <2>1. AbstractTask(k)' = "open"
    BY <1>2, <1>8 DEF AbstractTask, Ended
  <2>2. [j \in Key |-> AbstractTask(j)]' = [j \in Key |-> AbstractTask(j)]
    BY <1>5, <1>6, <2>1
  <2> QED
    BY <1>1, <1>4, <2>2 DEF Pool!Return
<1> QED
  BY <1>7, <1>8

\* The first state of the tables is that of the pool.
LEMMA PoolInit == Init => Pool!Init
BY JobQueueAssumption DEF Init, Pool!Init, AbstractTask, Ended, Running, NoRow, Idle, Key

\* Every step of the tables is a step of the pool or leaves it as it is.
LEMMA PoolStep == LeaseInv /\ LeaseInv' /\ [Next]_vars => [Pool!Next]_(Pool!vars)
<1> SUFFICES ASSUME LeaseInv, LeaseInv', [Next]_vars
             PROVE  Pool!Next \/ UNCHANGED Pool!vars
  OBVIOUS
<1>r. /\ Shapes /\ Shapes' /\ PumpedTogether /\ PumpedTogether' /\ AbsentIsNoRow
      /\ Event \subseteq Key /\ Bucket \subseteq Key /\ Event \cap Bucket = {} /\ NoJob \notin Key
  BY JobQueueAssumption DEF LeaseInv, RowsInv, Key
<1>u. ASSUME run' = run PROVE \A j \in Key : Running(j)' = Running(j)
  BY <1>u DEF Running
<1>1. ASSUME NEW e \in Event, Emit(e) PROVE Pool!Next
  <2>1. /\ outbox'[e] = "pending" /\ \A f \in Event : f # e => outbox'[f] = outbox[f]
        /\ job' = job /\ job[e].status = "absent" /\ outbox[e] = "absent" /\ e \in Key /\ e \notin Bucket
    BY <1>1, <1>r DEF Emit, Shapes, PumpedTogether
  <2>2. AbstractTask(e) = "absent" /\ AbstractTask(e)' = "open"
    BY <2>1 DEF AbstractTask, Ended
  <2>3. \A j \in Key : j # e => AbstractTask(j)' = AbstractTask(j)
    BY <1>1, <1>u, <2>1 DEF Emit, AbstractTask, Ended, Key
  <2> QED
    BY <1>1, <2>1, <2>2, <2>3, PoolPosts DEF Emit, Pool!Next
<1>2. ASSUME NEW batch \in SUBSET Event, PumpOutbox(batch) PROVE UNCHANGED Pool!vars
  <2>1. ASSUME NEW j \in Key PROVE AbstractTask(j)' = AbstractTask(j)
    <3>1. job'[j] = IF j \in batch /\ job[j] = NoRow THEN Queued ELSE job[j]
      BY <1>2 DEF PumpOutbox
    <3>2. CASE j \in batch
      <4>1. j \in Event /\ outbox[j] = "pending" /\ outbox'[j] = "processed" /\ job[j].status = "absent"
        BY <1>2, <1>r, <3>2 DEF PumpOutbox, PumpedTogether
      <4>2. job'[j] = Queued /\ j \notin Bucket
        BY <1>r, <3>1, <3>2, <4>1 DEF AbsentIsNoRow
      <4> QED
        BY <4>1, <4>2 DEF AbstractTask, Ended, Queued
    <3>3. CASE j \notin batch
      <4>1. job'[j] = job[j] /\ (j \in Event => outbox'[j] = outbox[j])
        BY <1>2, <3>1, <3>3 DEF PumpOutbox
      <4>2. Running(j)' = Running(j)
        BY <1>2, <1>u DEF PumpOutbox
      <4> QED
        BY <4>1, <4>2 DEF AbstractTask, Ended, Key
    <3> QED
      BY <3>2, <3>3
  <2> QED
    BY <1>2, <1>u, <2>1, PoolStutters DEF PumpOutbox
<1>3. ASSUME NEW b \in Bucket, EnqueueJob(b) PROVE Pool!Next
  <2>1. /\ job'[b] = Queued /\ \A j \in Key : j # b => job'[j] = job[j]
        /\ job[b] = NoRow /\ outbox' = outbox /\ run' = run /\ b \in Key
    BY <1>3, <1>r DEF EnqueueJob, Shapes
  <2>2. AbstractTask(b) = "absent" /\ AbstractTask(b)' = "open"
    BY <2>1 DEF AbstractTask, Ended, NoRow, Queued
  <2>3. \A j \in Key : j # b => AbstractTask(j)' = AbstractTask(j)
    BY <1>u, <2>1 DEF AbstractTask, Ended
  <2> QED
    BY <2>1, <2>2, <2>3, PoolPosts DEF Pool!Next
<1>4. ASSUME NEW w \in Worker, NEW k \in Key, Claim(w, k) PROVE Pool!Next
  <2>1. /\ run[w] = Idle /\ Claimable(k) /\ outbox' = outbox /\ job'[k].status = "running"
        /\ \A j \in Key : j # k => job'[j] = job[j]
        /\ run'[w].job = k /\ \A v \in Worker : v # w => run'[v] = run[v]
    BY <1>4, <1>r DEF Claim, Shapes
  <2>2. job[k].status \in {"queued", "retry", "running"} /\ AbstractTask(k) = "open" /\ AbstractTask(k)' = "open"
    BY <2>1 DEF Claimable, AbstractTask, Ended
  <2>3. k \in Brief => Running(k) = {}
    BY <2>1, <1>r DEF Claimable, LeaseInv, HeldIsLeased, Running
  <2>4. \A j \in Key : w \notin Running(j)
    BY <2>1, <1>r DEF Running, Idle
  <2>5. \A j \in Key : Running(j)' = IF j = k THEN Running(k) \cup {w} ELSE Running(j)
    BY <2>1, <2>4 DEF Running
  <2>6. [j \in Key |-> AbstractTask(j)]' = [j \in Key |-> AbstractTask(j)]
    BY <2>1, <2>2, <2>5 DEF AbstractTask, Ended
  <2>7. [j \in Key |-> Running(j)]' = [[j \in Key |-> Running(j)] EXCEPT ![k] = @ \cup {w}]
    BY <2>5
  <2>8. Pool!Take(w, k)
    BY <2>2, <2>3, <2>4, <2>6, <2>7 DEF Pool!Take, Pool!Idle
  <2> QED
    BY <2>8 DEF Pool!Next
<1>5. ASSUME NEW k \in Key, LapseLease(k) PROVE UNCHANGED Pool!vars
  <2>1. \A j \in Key : job'[j].status = job[j].status
    BY <1>5, <1>r DEF LapseLease, Shapes, JobRow
  <2>2. \A j \in Key : AbstractTask(j)' = AbstractTask(j)
    BY <1>5, <1>u, <2>1 DEF LapseLease, AbstractTask, Ended
  <2> QED
    BY <1>5, <1>u, <2>2, PoolStutters DEF LapseLease
<1>6. ASSUME NEW w \in Worker, Complete(w) \/ Defer(w) \/ Fail(w) \/ Crash(w) PROVE Pool!Next
  <2>1. PICK k \in Key : run[w].job = k
    BY <1>6, <1>r DEF Complete, Defer, Fail, Crash, Handling, Shapes, Hand
  <2>2. job[k] \in JobRow /\ job[k].status # "absent"
    BY <1>r, <2>1 DEF LeaseInv, RowsInv, Shapes, HeldIsThere
  <2>3. \E row \in JobRow : row.status # "absent" /\ job' = [job EXCEPT ![k] = row]
    <3>1. CASE Complete(w)
      <4>1. Succeeded(job[k]) \in JobRow /\ Succeeded(job[k]).status # "absent"
        BY <2>2 DEF JobRow, Succeeded
      <4> QED
        BY <2>1, <3>1, <4>1 DEF Complete
    <3>2. CASE Defer(w)
      <4> DEFINE row == [status |-> "retry", leased |-> FALSE,
                         attempts |-> IF job[k].attempts = 0 THEN 0 ELSE job[k].attempts - 1]
      <4>1. row \in JobRow
        BY <2>2 DEF JobRow
      <4> QED
        BY <2>1, <3>2, <4>1 DEF Defer
    <3>3. CASE Fail(w)
      <4> DEFINE row == [job[k] EXCEPT !.leased = FALSE, !.status = IF Exhausted(w) THEN "dead" ELSE "retry"]
      <4>1. row \in JobRow /\ row.status # "absent"
        BY <2>2 DEF JobRow
      <4> QED
        BY <2>1, <3>3, <4>1 DEF Fail
    <3>4. CASE Crash(w)
      <4>1. job' = [job EXCEPT ![k] = job[k]]
        BY <1>r, <3>4 DEF Crash, Shapes
      <4> QED
        BY <2>2, <4>1
    <3> QED
      BY <1>6, <3>1, <3>2, <3>3, <3>4
  <2>4. outbox' = outbox /\ run' = [run EXCEPT ![w] = Idle]
    BY <1>6 DEF Complete, Defer, Fail, Crash
  <2>5. Pool!Return(w, k) \/ Pool!Close(w, k)
    BY <2>1, <2>3, <2>4, PoolReports DEF LeaseInv
  <2> QED
    BY <2>5 DEF Pool!Next
<1>7. ASSUME NEW w \in Worker, CompleteUnanswered(w) PROVE UNCHANGED Pool!vars
  <2>1. /\ run[w].job \in Key /\ job[run[w].job] \in JobRow /\ job[run[w].job].status # "absent"
        /\ outbox' = outbox
        /\ job'[run[w].job] = Succeeded(job[run[w].job])
        /\ \A j \in Key : j # run[w].job => job'[j] = job[j]
        /\ \A v \in Worker : run'[v].job = run[v].job
    BY <1>7, <1>r DEF CompleteUnanswered, Handling, LeaseInv, RowsInv, Shapes, Hand, HeldIsThere
  <2>2. \A j \in Key : Running(j)' = Running(j)
    BY <2>1 DEF Running
  <2>3. w \in Running(run[w].job)
    BY DEF Running
  <2>4. job'[run[w].job].status # "absent"
    BY <2>1 DEF Succeeded
  <2>5. ASSUME NEW j \in Key PROVE AbstractTask(j)' = AbstractTask(j)
    <3>1. CASE j = run[w].job
      BY <2>1, <2>2, <2>3, <2>4, <3>1 DEF AbstractTask
    <3>2. CASE j # run[w].job
      BY <2>1, <2>2, <3>2 DEF AbstractTask, Ended
    <3> QED
      BY <3>1, <3>2
  <2> QED
    BY <2>2, <2>5, PoolStutters
<1>8. CASE UNCHANGED vars
  <2>1. \A j \in Key : AbstractTask(j)' = AbstractTask(j)
    BY <1>8, <1>u DEF vars, AbstractTask, Ended
  <2> QED
    BY <1>8, <1>u, <2>1, PoolStutters DEF vars
<1> QED
  BY <1>1, <1>2, <1>3, <1>4, <1>5, <1>6, <1>7, <1>8 DEF Next

\* The outbox, the jobs table and the leases implement the task pool: posted once,
\* never handed out again once it has ended and its last holder let go, and with
\* one live holder where the lease outlasts the handler (jobs.ts).
THEOREM QueueIsAPool == Spec => ImplementsTaskPool
BY LeasesHold, PoolInit, PoolStep, PTL DEF Spec, ImplementsTaskPool, Pool!Spec
=============================================================================
