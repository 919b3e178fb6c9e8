-------------------------- MODULE SquadsTreasury --------------------------
(***************************************************************************)
(* A treasury governed by a Squads multisig: payments and executor          *)
(* rotations are published by the worker as a transaction and a proposal at *)
(* the multisig's next index, voted on by the members on chain, observed    *)
(* and executed.  The owners change the time lock from their own wallets.   *)
(* The worker's handlers are modelled await by await; what happens to a     *)
(* signed execution afterwards is PaymentExecution.                         *)
(***************************************************************************)
EXTENDS Naturals, Sequences

CONSTANTS
  Intent, Rotation,  \* rows of intents and of executor_rotations
  Key,               \* executor signers
  None,              \* null
  MaxIndex,          \* bound on the transactions of the multisig
  MaxFaults          \* bound on errors and crashes of handlers

VARIABLES
  row,       \* per item: its status, its publication and its external reference
  executor,  \* treasury_accounts.executor_signer_id
  handler,   \* per item: the worker's local state between two awaits
  members,   \* the executor keys that are members of the multisig
  log,       \* the multisig's transactions by index, with their proposals
  stale,     \* indices up to this one can no longer be voted on
  sent,      \* publications broadcast and not yet in a block
  faults,
  slipped    \* ghost: a proposal was opened, or a change executed, beside another

vars == <<row, executor, handler, members, log, stale, sent, faults, slipped>>
Chain == <<members, log, stale>>

Item == Intent \cup Rotation
TimeLock == "timeLock"
Payload == Item \cup {TimeLock}
Kind(x) == IF x \in Intent THEN "vault" ELSE "config"

Open == {"publishing", "approval_required", "executing"}
InFlight == {"policy_evaluated", "approval_required", "approved", "executing"}
Closed == {"failed", "rejected", "expired", "paid"}

Idle == [at |-> "idle"]
Init ==
  /\ row = [x \in Item |->
       [status |-> IF x \in Intent THEN "received" ELSE "none", publication |-> None, ref |-> None]]
  /\ \E key \in Key : executor = key /\ members = {key}
  /\ handler = [x \in Item |-> Idle]
  /\ log = <<>> /\ stale = 0 /\ sent = {} /\ faults = 0 /\ slipped = FALSE

SetStatus(x, s) == row' = [row EXCEPT ![x].status = s]
Goto(x, h) == handler' = [handler EXCEPT ![x] = h]
Fresh(x) == row[x].status = IF x \in Intent THEN "policy_evaluated" ELSE "publishing"

\* markFailed, or RotationStore.fail: a row that has ended is left alone.
Fail(x) == SetStatus(x, IF row[x].status \in Closed \cup {"completed"}
                        THEN row[x].status ELSE "failed")

-----------------------------------------------------------------------------
(* What the API and the intake put in motion.                               *)

LockPending ==
  \/ \E c \in sent : c.payload = TimeLock
  \/ \E n \in 1 .. Len(log) : log[n].payload = TimeLock /\ log[n].status \in {"active", "approved"}
RotationOpen == \E r \in Rotation : row[r].status \in Open

\* Intake has no reason to look at rotations, nor rotations at received intents.
Evaluate(i) ==
  /\ row[i].status = "received"
  /\ \E s \in {"policy_evaluated", "rejected"} : SetStatus(i, s)
  /\ slipped' = (slipped \/ RotationOpen \/ LockPending)
  /\ UNCHANGED <<executor, handler, Chain, sent, faults>>

\* Mutant: only what is already being executed counts as in flight.
BusyExecuting == \E i \in Intent : row[i].status \in {"approved", "executing"}
Busy == \E i \in Intent : row[i].status \in InFlight

StartRotation(r) ==
  /\ row[r].status = "none" /\ ~Busy
  /\ ~RotationOpen
  /\ \E to \in Key \ {executor} :
       row' = [row EXCEPT ![r] = [status |-> "publishing", publication |-> None, ref |-> None,
                                  from |-> executor, to |-> to]]
  /\ slipped' = (slipped \/ LockPending)
  /\ UNCHANGED <<executor, handler, Chain, sent, faults>>

\* approval.expire
Expire(i) ==
  /\ row[i].status = "approval_required"
  /\ SetStatus(i, "expired")
  /\ UNCHANGED <<executor, handler, Chain, sent, faults, slipped>>

-----------------------------------------------------------------------------
(* Publication: proposal.publish and rotation.publish.                      *)

\* The context names the key.  Gates and expiry may reject a payment; a rotation
\* is rejected if its key is no longer a member.
BeginPublish(x) ==
  /\ handler[x] = Idle /\ Fresh(x)
  /\ LET key == IF x \in Intent THEN executor ELSE row[x].from
     IN \/ /\ x \in Intent \/ key \in members
           /\ Goto(x, [at |-> "read", key |-> key]) /\ UNCHANGED row
        \/ /\ x \in Intent \/ key \notin members
           /\ Fail(x) /\ UNCHANGED handler
  /\ UNCHANGED <<executor, Chain, sent, faults, slipped>>

Exists(n) == n \in 1 .. Len(log)

\* publishedBy and configPublishedBy look at the creator of the transaction.
\* Mutant: a retry does not know its own work.
RecognisesNothing(x, n) == FALSE
Recognised(x, n) == Exists(n) /\ log[n].creator = handler[x].key
\* The account is decoded as the type the caller expects, or the decoder throws.
Decodable(x, n) == Exists(n) => Kind(log[n].payload) = Kind(x)

\* A prior attempt recorded an index: it landed, it may still land, or the
\* index went to somebody else.
ChooseIndex(x) ==
  /\ handler[x].at = "read"
  /\ LET previous == row[x].publication
         n == IF previous # None /\ previous > Len(log) THEN previous ELSE Len(log) + 1
     IN IF previous # None /\ ~Decodable(x, previous)
        THEN Goto(x, Idle) /\ UNCHANGED row
        ELSE IF previous # None /\ Recognised(x, previous)
        THEN Goto(x, [at |-> "published", index |-> previous]) /\ UNCHANGED row
        ELSE /\ n <= MaxIndex
             /\ row' = [row EXCEPT ![x].publication = n]
             /\ Goto(x, [at |-> "recorded", index |-> n, key |-> handler[x].key])
  /\ UNCHANGED <<executor, Chain, sent, faults, slipped>>

Creation(x) == [index |-> handler[x].index, payload |-> x, creator |-> handler[x].key]

Broadcast(x) ==
  /\ handler[x].at = "recorded"
  /\ sent' = sent \cup {Creation(x)}
  /\ Goto(x, [handler[x] EXCEPT !.at = "sent"])
  /\ UNCHANGED <<row, executor, Chain, faults, slipped>>

\* waitFor: confirmed, or failed and then the job is retried.
Await(x) ==
  /\ handler[x].at = "sent" /\ Creation(x) \notin sent
  /\ Goto(x, IF Exists(handler[x].index) /\ log[handler[x].index].payload = x
             THEN [at |-> "published", index |-> handler[x].index] ELSE Idle)
  /\ UNCHANGED <<row, executor, Chain, sent, faults, slipped>>

\* completePublication and RotationStore.published; both also ask for the next look.
CompletePublication(x) ==
  /\ handler[x].at = "published"
  /\ IF Fresh(x)
     THEN row' = [row EXCEPT ![x].status = "approval_required", ![x].ref = handler[x].index]
     ELSE UNCHANGED row
  /\ Goto(x, Idle)
  /\ UNCHANGED <<executor, Chain, sent, faults, slipped>>

-----------------------------------------------------------------------------
(* Observation and execution.                                               *)

\* The proposal is read first; the row is locked and checked afterwards.
ReadProposal(x) ==
  /\ handler[x] = Idle /\ row[x].status = "approval_required" /\ Exists(row[x].ref)
  /\ Goto(x, [at |-> "observed", proposal |-> log[row[x].ref].status])
  /\ UNCHANGED <<row, executor, Chain, sent, faults, slipped>>

Outcome(x, proposal) ==
  CASE proposal = "approved" -> IF x \in Intent THEN "approved" ELSE "executing"
    [] proposal \in {"rejected", "cancelled"} -> "rejected"
    [] OTHER -> "approval_required"

Mirror(x) ==
  /\ handler[x].at = "observed"
  /\ IF row[x].status = "approval_required"
     THEN SetStatus(x, Outcome(x, handler[x].proposal)) ELSE UNCHANGED row
  /\ Goto(x, Idle)
  /\ UNCHANGED <<executor, Chain, sent, faults, slipped>>

\* Gates, the policy and the simulation come before the signature.
BeginExecute(i) ==
  /\ handler[i] = Idle /\ row[i].status = "approved"
  /\ \/ /\ Exists(row[i].ref) /\ log[row[i].ref].status = "approved" /\ executor \in members
        /\ SetStatus(i, "executing") /\ Goto(i, [at |-> "signed", key |-> executor])
     \/ Fail(i) /\ UNCHANGED handler
  /\ UNCHANGED <<executor, Chain, sent, faults, slipped>>

\* The chain takes the execution or refuses it, and confirm reports which.
\* Mutant: a transaction that is included has paid, also when it failed.
FinishUnread(i) ==
  /\ handler[i].at = "signed"
  /\ IF log[row[i].ref].status = "approved" /\ handler[i].key \in members
     THEN log' = [log EXCEPT ![row[i].ref].status = "executed"] ELSE UNCHANGED log
  /\ SetStatus(i, "paid") /\ Goto(i, Idle)
  /\ UNCHANGED <<executor, members, stale, sent, faults, slipped>>
FinishExecute(i) ==
  /\ handler[i].at = "signed"
  /\ IF log[row[i].ref].status = "approved" /\ handler[i].key \in members
     THEN log' = [log EXCEPT ![row[i].ref].status = "executed"] /\ SetStatus(i, "paid")
     ELSE Fail(i) /\ UNCHANGED log
  /\ Goto(i, Idle)
  /\ UNCHANGED <<executor, members, stale, sent, faults, slipped>>

\* A config change voids every proposal still being voted on.
Void == stale' = Len(log)
Swapped(r) == row[r].to \in members /\ row[r].from \notin members

\* A retry after a crash may find the change already applied.
ExecuteRotation(r) ==
  /\ handler[r] = Idle /\ row[r].status = "executing"
  /\ IF Swapped(r) THEN UNCHANGED <<Chain, slipped>>
     ELSE /\ row[r].from \in members
          /\ log[row[r].ref].status = "approved" /\ row[r].ref > stale
          /\ log' = [log EXCEPT ![row[r].ref].status = "executed"]
          /\ members' = (members \cup {row[r].to}) \ {row[r].from}
          /\ Void /\ UNCHANGED slipped
  /\ Goto(r, [at |-> "swapped"])
  /\ UNCHANGED <<row, executor, sent, faults>>

CompleteRotation(r) ==
  /\ handler[r].at = "swapped"
  /\ IF Swapped(r) THEN SetStatus(r, "completed") /\ executor' = row[r].to
     ELSE UNCHANGED <<row, executor>>
  /\ Goto(r, Idle)
  /\ UNCHANGED <<Chain, sent, faults, slipped>>

\* An await throws, or the worker dies: the job comes back.
Interrupt(x) ==
  /\ handler[x] # Idle /\ handler[x].at # "signed" /\ faults < MaxFaults
  /\ Goto(x, Idle) /\ faults' = faults + 1
  /\ UNCHANGED <<row, executor, Chain, sent, slipped>>

-----------------------------------------------------------------------------
(* The multisig program and its members.                                    *)

\* A creation counts only at the next index and from a member.
Land(c) ==
  /\ sent' = sent \ {c}
  /\ log' = IF c.index = Len(log) + 1 /\ c.creator \in members \cup {None}
            THEN Append(log, [payload |-> c.payload, creator |-> c.creator, status |-> "active"])
            ELSE log
  /\ UNCHANGED <<row, executor, handler, members, stale, faults, slipped>>

Drop(c) ==
  /\ sent' = sent \ {c}
  /\ UNCHANGED <<row, executor, handler, Chain, faults, slipped>>

Vote(n) ==
  /\ \/ log[n].status = "active" /\ n > stale
        /\ \E s \in {"approved", "rejected"} : log' = [log EXCEPT ![n].status = s]
     \/ log[n].status = "approved" /\ log' = [log EXCEPT ![n].status = "cancelled"]
  /\ UNCHANGED <<row, executor, handler, members, stale, sent, faults, slipped>>

\* POST time-lock refuses while payments are in flight; an owner's own wallet
\* sends the proposal, once in a behaviour, and another call executes it.
ProposeTimeLock ==
  /\ ~Busy /\ Len(log) < MaxIndex /\ ~LockPending
  /\ \A n \in 1 .. Len(log) : log[n].payload # TimeLock
  /\ sent' = sent \cup {[index |-> Len(log) + 1, payload |-> TimeLock, creator |-> None]}
  /\ slipped' = (slipped \/ RotationOpen)
  /\ UNCHANGED <<row, executor, handler, Chain, faults>>

ExecuteTimeLock(n) ==
  /\ log[n].payload = TimeLock /\ log[n].status = "approved" /\ n > stale
  /\ log' = [log EXCEPT ![n].status = "executed"] /\ Void
  /\ UNCHANGED <<row, executor, handler, members, sent, faults, slipped>>

Next ==
  \/ \E x \in Item :
       \/ BeginPublish(x) \/ ChooseIndex(x) \/ Broadcast(x) \/ Await(x) \/ CompletePublication(x)
       \/ ReadProposal(x) \/ Mirror(x) \/ Interrupt(x)
  \/ \E i \in Intent : Evaluate(i) \/ Expire(i) \/ BeginExecute(i) \/ FinishExecute(i)
  \/ \E r \in Rotation : StartRotation(r) \/ ExecuteRotation(r) \/ CompleteRotation(r)
  \/ \E c \in sent : Land(c) \/ Drop(c)
  \/ \E n \in 1 .. Len(log) : Vote(n) \/ ExecuteTimeLock(n)
  \/ ProposeTimeLock

Spec == Init /\ [][Next]_vars

-----------------------------------------------------------------------------
\* The proposal a row refers to is its own: what the members approve there is
\* this payment to this destination, and not another one.  The code does not keep
\* this between payments.
ProposalIsOwn ==
  \A x \in Item : row[x].ref # None => Exists(row[x].ref) /\ log[row[x].ref].payload = x

\* publishedBy asks who made a proposal and not what for: x takes the proposal
\* that y put at the index both had recorded.
Adopts(x, y) == y \in Item /\ Kind(y) = Kind(x) /\ row[y].publication = row[x].ref

\* A crash at any point of a publication and any number of retries never put
\* two proposals for one payment or rotation before the members, nor lose the one
\* that is there; and what a row takes for its own is so, or was put by Relay at
\* the index that both recorded, and is never a change of the multisig for a
\* payment; unless an intake slipped past a rotation and the retry signs with
\* another key.
OneProposalEach ==
  /\ slipped \/ \A m, n \in 1 .. Len(log) : log[m].payload = log[n].payload => m = n
  /\ \A x \in Item : row[x].ref # None =>
       /\ Exists(row[x].ref) /\ Kind(log[row[x].ref].payload) = Kind(x)
       /\ log[row[x].ref].payload = x \/ slipped \/ Adopts(x, log[row[x].ref].payload)

Left(n) == log[n].payload \in Intent /\ log[n].status = "executed"

\* For each payment that the database calls paid one left the vault, and nothing
\* else did, also when two rows wait for one proposal: of those no second one is
\* paid, nor is one paid from a proposal that is not its own while that one's
\* payment is paid too.  And what Relay executes was approved by the members on
\* chain, also when the vote was read before the row was locked or was withdrawn since.
OutcomeMatchesVault ==
  /\ \A i \in Intent : row[i].status = "paid" => Exists(row[i].ref) /\ Left(row[i].ref)
  /\ \A n \in 1 .. Len(log) : Left(n) => \E i \in Intent : row[i].status = "paid" /\ row[i].ref = n
  /\ \A i, j \in Intent :
       /\ row[i].status = "paid" /\ row[j].status = "paid" /\ i # j
       => row[i].ref # row[j].ref /\ (slipped \/ log[row[i].ref].payload # j)
  /\ \A x \in Item : row[x].status \in {"approved", "executing", "paid", "completed"} =>
       Exists(row[x].ref) /\ log[row[x].ref].status \in {"approved", "executed", "cancelled"}

\* A config change strands nobody. The key Relay signs with is a member, or its
\* rotation is still executing between the swap on chain and the record of it;
\* and the proposal a row waits for can still be voted on, unless something was
\* opened beside a change that was under way.
NothingStranded ==
  /\ executor \in members \/ \E r \in Rotation : row[r].status = "executing" /\ Swapped(r)
  /\ slipped \/ \A x \in Item :
       row[x].status = "approval_required" /\ log[row[x].ref].status = "active" => row[x].ref > stale
=============================================================================
