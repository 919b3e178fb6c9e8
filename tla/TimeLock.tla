------------------------------ MODULE TimeLock ------------------------------
(***************************************************************************)
(* The delay that a Squads multisig puts on what its members approved, and   *)
(* the change of that delay: an owner's browser proposes it, the members     *)
(* vote, an owner's wallet executes it, and Relay reads the new delay back.  *)
(* Every transaction is prepared by the API, held by a wallet for a while,   *)
(* and judged by the program when it lands; any member may use Squads.       *)
(***************************************************************************)
EXTENDS Naturals, Sequences, FiniteSets

CONSTANTS
  Me, Other,   \* the voting member of this browser, and the others
  Threshold,   \* approvals that a proposal needs
  Delay,       \* time locks that are asked for
  Payment,     \* what is proposed at an index that holds no change
  None,        \* null
  MaxIndex,    \* bound on the transactions of the multisig
  MaxFlows,    \* bound on the requests under way
  MaxTime      \* bound on the clock

VARIABLES
  clock,
  lock,      \* the multisig's time lock
  log,       \* the multisig's transactions by index, with their proposals
  stale,     \* indices up to this one were voided by a change
  recorded,  \* observed_configuration.timeLock
  follow,    \* localStorage: the index of the change that the drawer tracks
  flows,     \* proposals, votes and executions under way
  missed     \* ghost: the last change was not read back, or was overtaken

vars == <<clock, lock, log, stale, recorded, follow, flows, missed>>
Program == <<lock, log, stale>>
Voter == {Me} \cup Other

Init ==
  /\ clock = 0 /\ log = <<>> /\ stale = 0
  /\ lock \in Delay /\ recorded = lock
  /\ follow = None /\ flows = {} /\ missed = FALSE

\* Payments in flight in Relay are the ones with an open intent.
Entry(what) == [what |-> what, status |-> "active", at |-> 0,
                yes |-> {}, no |-> {}, off |-> {}, open |-> what = Payment]
IsChange(n) == n \in 1 .. Len(log) /\ log[n].what # Payment

-----------------------------------------------------------------------------
(* The program.  A transaction is a kind, an index and, for a creation, the *)
(* delay that it asks for.                                                  *)

Tx(kind, n, what) == [kind |-> kind, index |-> n, what |-> what]
Votes == {"approved", "rejected", "cancelled"}

Unlocked(n, delay) == clock >= log[n].at + delay

Accepts(m, tx) ==
  LET n == tx.index
  IN \/ tx.kind = "create" /\ n = Len(log) + 1 /\ n <= MaxIndex
     \/ tx.kind = "approved" /\ log[n].status = "active" /\ n > stale /\ m \notin log[n].yes
     \/ tx.kind = "rejected" /\ log[n].status = "active" /\ n > stale /\ m \notin log[n].no
     \/ tx.kind = "cancelled" /\ log[n].status = "approved" /\ m \notin log[n].off
     \/ /\ tx.kind = "execute" /\ log[n].status = "approved"
        /\ IsChange(n) => n > stale
        /\ Unlocked(n, lock)

Reached(voters, needed) == Cardinality(voters) >= needed

\* The proposal with the vote of one more member.  What was counted for one
\* status is not kept for the next.
Became(e, status) == [Entry(e.what) EXCEPT !.status = status, !.open = e.open,
                                           !.at = IF status = "approved" THEN clock ELSE 0]
Voted(m, e, kind) ==
  CASE kind = "approved" ->
         IF Reached(e.yes \cup {m}, Threshold) THEN Became(e, "approved")
         ELSE [e EXCEPT !.yes = @ \cup {m}, !.no = @ \ {m}]
    [] kind = "rejected" ->
         IF Reached(e.no \cup {m}, Cardinality(Voter) - Threshold + 1) THEN Became(e, "rejected")
         ELSE [e EXCEPT !.no = @ \cup {m}, !.yes = @ \ {m}]
    [] kind = "cancelled" ->
         IF Reached(e.off \cup {m}, Threshold) THEN Became(e, "cancelled")
         ELSE [e EXCEPT !.off = @ \cup {m}]

\* A change that is executed voids everything that was proposed before.
Apply(m, tx) ==
  LET n == tx.index
  IN CASE tx.kind = "create" -> log' = Append(log, Entry(tx.what)) /\ UNCHANGED <<lock, stale>>
       [] tx.kind \in Votes ->
            log' = [log EXCEPT ![n] = Voted(m, @, tx.kind)] /\ UNCHANGED <<lock, stale>>
       [] tx.kind = "execute" ->
            /\ log' = [log EXCEPT ![n] = [Became(@, "executed") EXCEPT !.open = FALSE]]
            /\ IF IsChange(n) THEN lock' = log[n].what /\ stale' = Len(log)
               ELSE UNCHANGED <<lock, stale>>

\* Members who use Squads itself; the change that they execute is not read back.
Elsewhere(m, tx) ==
  /\ Accepts(m, tx) /\ Apply(m, tx)
  /\ missed' = (missed \/ lock' # lock)
  /\ UNCHANGED <<clock, recorded, follow, flows>>

Tick == clock < MaxTime /\ clock' = clock + 1
        /\ UNCHANGED <<Program, recorded, follow, flows, missed>>

-----------------------------------------------------------------------------
(* What the API prepares for a wallet, and refuses to prepare.              *)

Busy == \E n \in 1 .. Len(log) : log[n].open

Begin(f) == Cardinality(flows) < MaxFlows /\ flows' = flows \cup {f}
Flow(at, tx, seen) == [at |-> at, tx |-> tx, seen |-> seen]

\* POST time-lock: what it read of the multisig may be old when it lands.
Propose ==
  /\ ~Busy
  /\ \E seconds \in Delay \ {lock} : Begin(Flow("wallet", Tx("create", Len(log) + 1, seconds), None))
  /\ UNCHANGED <<clock, Program, recorded, follow, missed>>

\* nextTimeLockChangeStatus
Reaches(status, event) ==
  \/ status = "active" /\ event \in {"approved", "rejected"}
  \/ status = "approved" /\ event \in {"cancelled", "execute"}

Votable(n, decision) == IsChange(n) /\ Reaches(log[n].status, decision)
VoteOn(decision) ==
  /\ Votable(follow, decision)
  /\ Begin(Flow("wallet", Tx(decision, follow, None), None))
  /\ UNCHANGED <<clock, Program, recorded, follow, missed>>

\* The multisig is read first and the proposal afterwards.
\* Mutant: the delay is the one on record.
AskRecorded ==
  /\ IsChange(follow)
  /\ Begin(Flow("asked", Tx("execute", follow, None), recorded))
  /\ UNCHANGED <<clock, Program, recorded, follow, missed>>
Ask ==
  /\ IsChange(follow)
  /\ Begin(Flow("asked", Tx("execute", follow, None), lock))
  /\ UNCHANGED <<clock, Program, recorded, follow, missed>>

Goes(f, at) == flows' = (flows \ {f}) \cup {[f EXCEPT !.at = at]}
Ends(f) == flows' = flows \ {f}

Locked(n, seen) == ~Unlocked(n, seen)
Offer(f) ==
  /\ f.at = "asked"
  /\ IF Reaches(log[f.tx.index].status, "execute") /\ ~Locked(f.tx.index, f.seen)
     THEN Goes(f, "wallet") ELSE Ends(f)
  /\ UNCHANGED <<clock, Program, recorded, follow, missed>>

-----------------------------------------------------------------------------
(* The wallet, the cluster, and what the drawer does when it has an answer. *)

Sign(f) ==
  /\ f.at = "wallet" /\ (Goes(f, "sent") \/ Ends(f))
  /\ UNCHANGED <<clock, Program, recorded, follow, missed>>

\* An execution of which nobody hears any more is not read back.
Land(f) ==
  /\ f.at \in {"sent", "orphan"}
  /\ IF Accepts(Me, f.tx)
     THEN /\ Apply(Me, f.tx)
          /\ missed' = (missed \/ (f.at = "orphan" /\ lock' # lock))
          /\ IF f.at = "orphan" THEN Ends(f) ELSE Goes(f, "landed")
     ELSE Ends(f) /\ UNCHANGED <<Program, missed>>
  /\ UNCHANGED <<clock, recorded, follow>>

\* Its blockhash expires.
Drop(f) ==
  /\ f.at \in {"sent", "orphan"} /\ Ends(f)
  /\ UNCHANGED <<clock, Program, recorded, follow, missed>>

\* waitForConfirmation gives up, or loses the API's answer.
GiveUp(f) ==
  /\ f.at \in {"sent", "landed"}
  /\ IF f.at = "sent" THEN Goes(f, "orphan") ELSE Ends(f)
  /\ missed' = (missed \/ (f.at = "landed" /\ f.tx.kind = "execute"))
  /\ UNCHANGED <<clock, Program, recorded, follow>>

CloseTab ==
  /\ flows' = {[f EXCEPT !.at = "orphan"] : f \in {f \in flows : f.at \in {"sent", "orphan"}}}
  /\ missed' = (missed \/ \E f \in flows : f.at \in {"landed", "read"} /\ f.tx.kind = "execute")
  /\ UNCHANGED <<clock, Program, recorded, follow>>

Noted(f) ==
  /\ f.at = "landed" /\ f.tx.kind # "execute" /\ Ends(f)
  /\ follow' = IF f.tx.kind = "create" THEN f.tx.index ELSE follow
  /\ UNCHANGED <<clock, Program, recorded, missed>>

\* Stop following it, offered once the change is closed.
Closed(n) == log[n].status \in {"executed", "rejected", "cancelled"}
Forget ==
  /\ IsChange(follow) /\ Closed(follow)
  /\ follow' = None
  /\ UNCHANGED <<clock, Program, recorded, flows, missed>>

\* POST confirm, after the receipt: the multisig, then the row.
ReadBack(f) ==
  /\ f.at = "landed" /\ f.tx.kind = "execute"
  /\ flows' = (flows \ {f}) \cup {[f EXCEPT !.at = "read", !.seen = lock]}
  /\ UNCHANGED <<clock, Program, recorded, follow, missed>>

\* Mutant: what was on record is spread over what was read.
KeepRecord(f) ==
  /\ f.at = "read" /\ Ends(f) /\ follow' = None
  /\ missed' = (f.seen # lock)
  /\ UNCHANGED <<clock, Program, recorded>>
WriteBack(f) ==
  /\ f.at = "read" /\ Ends(f)
  /\ recorded' = f.seen /\ follow' = None
  /\ missed' = (f.seen # lock)
  /\ UNCHANGED <<clock, Program>>

\* No receipt, no answer from the chain, or none from the API.  There is no
\* second attempt: the button went with the execution.
FailConfirm(f) ==
  /\ f.at = "read" /\ Ends(f) /\ missed' = TRUE
  /\ UNCHANGED <<clock, Program, recorded, follow>>

-----------------------------------------------------------------------------
(* Payments at indices of the same multisig: the worker publishes them, and *)
(* executes what was approved at once, whether or not the delay has passed. *)

Publish ==
  /\ Accepts(None, Tx("create", Len(log) + 1, Payment)) /\ Apply(None, Tx("create", Len(log) + 1, Payment))
  /\ UNCHANGED <<clock, recorded, follow, flows, missed>>

Run(n) ==
  /\ log[n].what = Payment /\ log[n].open /\ log[n].status # "active"
  /\ IF Accepts(None, Tx("execute", n, None)) THEN Apply(None, Tx("execute", n, None))
     ELSE log' = [log EXCEPT ![n].open = FALSE] /\ UNCHANGED <<lock, stale>>
  /\ UNCHANGED <<clock, recorded, follow, flows, missed>>

Next ==
  \/ Tick \/ Propose \/ Ask \/ Publish \/ CloseTab \/ Forget
  \/ \E decision \in Votes : VoteOn(decision)
  \/ \E f \in flows :
       \/ Offer(f) \/ Sign(f) \/ Land(f) \/ Drop(f) \/ GiveUp(f)
       \/ Noted(f) \/ ReadBack(f) \/ WriteBack(f) \/ FailConfirm(f)
  \/ \E m \in Voter, n \in 1 .. Len(log) :
       \/ \E kind \in Votes : Elsewhere(m, Tx(kind, n, None))
       \/ IsChange(n) /\ Elsewhere(m, Tx("execute", n, None))
  \/ \E m \in Voter, seconds \in Delay : Elsewhere(m, Tx("create", Len(log) + 1, seconds))
  \/ \E n \in 1 .. Len(log) : Run(n)

Spec == Init /\ [][Next]_vars

-----------------------------------------------------------------------------
\* GET /v1/intents/:id/time-lock: ready, by the delay on record and the time
\* that the chain gives for the approval.
Ready(n) == Unlocked(n, recorded)
Reading(f) == f.tx.kind = "execute" /\ f.at \in {"landed", "read"}

\* The delay that Relay goes by is the multisig's.  An execution that it handed
\* to a wallet is one the program will take, as long as the change is approved
\* and not void; what the drawer follows is a change and never a payment; and a
\* payment that is called ready can be executed, and one that can be is called
\* ready, unless the last change was not read back or is being read back.
TimeLockTold ==
  /\ \A f \in flows :
       /\ f.tx.kind = "execute" /\ f.at \in {"wallet", "sent"}
       /\ log[f.tx.index].status = "approved" /\ f.tx.index > stale
       => Unlocked(f.tx.index, lock)
  /\ follow # None => IsChange(follow)
  /\ missed \/ (\E f \in flows : Reading(f))
       \/ (recorded = lock /\ \A n \in 1 .. Len(log) :
             log[n].what = Payment /\ log[n].status = "approved" => (Ready(n) <=> Unlocked(n, lock)))
=============================================================================
