------------------------------ MODULE TaskPool ------------------------------
(***************************************************************************)
(* What the outbox, the jobs table and the leases promise together, with   *)
(* their machinery left out: a piece of work is posted once, is handed to  *)
(* workers until it is done or given up, and is never handed out again     *)
(* after that.  A worker may vanish while it holds a task, or may not hear *)
(* that its success was taken note of: the task then stays open and is     *)
(* handed out again.  It is over only when the last that held it let go,   *)
(* since each of them could have put it back until then.                   *)
(*                                                                         *)
(* JobQueue implements this module, and PaymentExecution uses the queue    *)
(* only in the ways this module allows.                                    *)
(***************************************************************************)
CONSTANTS
  Worker,        \* worker processes
  Task,          \* pieces of work: one per outbox event or periodic bucket
  Exclusive      \* tasks that are held by one live worker at a time

VARIABLES
  task,          \* task[e] is "absent", "open" or "closed"
  holders        \* holders[e] is the set of live workers running e

vars == <<task, holders>>

Idle(w) == \A e \in Task : w \notin holders[e]

TypeOK ==
  /\ task \in [Task -> {"absent", "open", "closed"}]
  /\ holders \in [Task -> SUBSET Worker]

Init ==
  /\ task = [e \in Task |-> "absent"]
  /\ holders = [e \in Task |-> {}]

Post(e) ==                      \* a transaction that needs e done commits
  /\ task[e] = "absent"
  /\ task' = [task EXCEPT ![e] = "open"]
  /\ UNCHANGED holders

Take(w, e) ==                   \* the queue hands e to an idle worker
  /\ Idle(w)
  /\ task[e] = "open"
  /\ e \in Exclusive => holders[e] = {}
  /\ holders' = [holders EXCEPT ![e] = @ \cup {w}]
  /\ UNCHANGED task

Return(w, e) ==                 \* w lets go, for whatever reason, and e stays open
  /\ w \in holders[e]
  /\ holders' = [holders EXCEPT ![e] = @ \ {w}]
  /\ UNCHANGED task

Close(w, e) ==                  \* the last to let go of e, which is done or given up
  /\ holders[e] = {w}
  /\ task' = [task EXCEPT ![e] = "closed"]
  /\ holders' = [holders EXCEPT ![e] = {}]

Next ==
  \/ \E e \in Task : Post(e)
  \/ \E w \in Worker, e \in Task : Take(w, e) \/ Return(w, e) \/ Close(w, e)

Spec == Init /\ [][Next]_vars
=============================================================================
