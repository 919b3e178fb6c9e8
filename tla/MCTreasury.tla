----------------------------- MODULE MCTreasury -----------------------------
(***************************************************************************)
(* The components around a treasury, and the daily limit of its payments     *)
(* over several days, one at a time: a behaviour picks one at the start and  *)
(* leaves the state of the others alone.  They share no state that these     *)
(* models keep; what they share, an intent's execution, is PaymentExecution. *)
(***************************************************************************)
EXTENDS Naturals, FiniteSets, TLC

CONSTANTS
  None, Intent, Payout, Rotation, Key, Owner, Payee, Invoice, Receipt, Payment, Worker, Approver,
  Threshold,    \* of the Safe and of the multisig
  MinApprovals, \* that a policy asks for
  Price,        \* that sellers ask for
  MaxAmount,    \* of a purchase
  Executor,     \* keys of which one is the first executor
  Governed,     \* sets of purchases that the Safe may pay
  Interval,     \* between the payments of a schedule
  Me, Other,    \* the member of a multisig whose browser it is, and the others
  Delay,        \* time locks that are asked for
  Subtotal, Tag, Transferred, \* of invoices, and what customers transfer
  Limit, Recent, MaxBlocks,   \* of what a sync reads of the chain at once
  Inbound, NativeAmount, Fee, Rent, Funds, \* receipts and what payments move and cost, of the native asset, and first balances
  AmountOf, LifetimeOf, DailyLimit, AutoUpTo, Day, \* of the payments under the daily limit
  MaxDays, MaxErrors, MaxSwitches,                 \* bounds on these payments
  MaxChain, MaxNonce, MaxIndex, MaxFaults, MaxAttempts, MaxTicks, MaxChanges, MaxFlows, MaxDelay, MaxMonth  \* bounds

\* Rows and time lock proposals are told apart by what they are, and null is
\* none of the values that it stands in for.
ASSUME TreasuryAssumption ==
  /\ None \notin Nat /\ None \notin Key
  /\ None \notin [payable : BOOLEAN, payTo : Payee, amount : Price]
  /\ None \notin {"succeeded", "reverted", "simulated", "signed", "ok"}
  /\ Payout \cap Rotation = {} /\ "timeLock" \notin Payout \cup Rotation
  /\ MaxNonce \in Nat /\ MaxIndex \in Nat /\ MaxFaults \in Nat /\ MaxTicks \in Nat /\ MaxMonth \in Nat
  /\ Interval \in Nat \ {0}
  /\ Delay \subseteq Nat /\ Intent # {} /\ Intent \cap Delay = {}
  /\ None \notin Intent /\ IsFiniteSet(Intent) /\ MinApprovals \in Nat \ {0}
  /\ None \notin Invoice /\ IsFiniteSet(Invoice)
  /\ IsFiniteSet(Payment) /\ Receipt \cap Payment = {} /\ None \notin Payment
  /\ IsFiniteSet(Inbound) /\ NativeAmount \in Nat /\ Fee \in Nat /\ Rent \in Nat /\ Funds \subseteq Nat
  /\ Subtotal \in Nat \ {0} /\ Tag \subseteq Nat /\ Transferred \subseteq Nat
  /\ AmountOf \in [Intent -> Nat \ {0}] /\ LifetimeOf \in [Intent -> Nat \ {0}]
  /\ DailyLimit \in Nat /\ AutoUpTo \in Nat /\ Day \in Nat \ {0}
  /\ Limit \in Nat \ {0} /\ Recent \in Nat \ {0} /\ MaxBlocks \in Nat \ {0}
  /\ MaxDays \in Nat /\ MaxErrors \in Nat /\ MaxSwitches \in Nat

VARIABLES
  part,
  row, executor, handler, members, log, stale, sent, faults, slipped,
  safeRow, compiled, safeSent, receipt, nonce, owners, executed, bypassed,
  governed, x402Row, x402Handler, attempts, nonces, presented, x402Owners, x402Chain,
  evm, invoice, chain, safe, inflow, ledger, cursor, sync, api, payment, raced, drifted,
  family, history, settled, position, accounts, transfer, syncs, opened, skipped, skewed, falseBreak,
  now, frozen, beneficiary, schedule, paid,
  delayClock, lock, delayLog, delayStale, recorded, follow, flows, missed,
  clock, status, created, decision, request, votes, executedAt, shut, autonomous, jobs, dead, at, errors, switches,
  svm, direct, month, balance, paying, income, journal, started, posting, answer, issued, unseen, askew

squads == <<row, executor, handler, members, log, stale, sent, faults, slipped>>
theSafe == <<safeRow, compiled, safeSent, receipt, nonce, owners, executed, bypassed>>
x402 == <<governed, x402Row, x402Handler, attempts, nonces, presented, x402Owners, x402Chain>>
books == <<evm, invoice, chain, safe, inflow, ledger, cursor, sync, api, payment, raced, drifted>>
reading == <<family, history, settled, position, accounts, transfer, syncs, opened, skipped, skewed, falseBreak>>
recurring == <<now, frozen, beneficiary, schedule, paid>>
delays == <<delayClock, lock, delayLog, delayStale, recorded, follow, flows, missed>>
limits == <<clock, status, created, decision, request, votes, executedAt, shut, autonomous, jobs, dead,
            at, errors, switches>>
monthly == <<svm, direct, month, balance, paying, income, journal, started, posting, answer, issued,
             unseen, askew>>
others == <<delays, limits, monthly>>

First == CHOOSE i \in Intent : TRUE

Squads == INSTANCE SquadsTreasury WITH Intent <- Payout
Safe == INSTANCE SafeTreasury WITH row <- safeRow, sent <- safeSent
\* Two sellers, each asking what an intent allows or more.
X402 == INSTANCE X402Settlement WITH
          Option <- [payable : BOOLEAN, payTo : Payee, amount : Price],
          row <- x402Row, handler <- x402Handler, owners <- x402Owners, chain <- x402Chain
\* Transfers pay a part of what an invoice asks for, twice of which is all with the tag.
Books == INSTANCE Receivables WITH Amount <- Transferred
Reading == INSTANCE InflowSync WITH
             Sync <- Worker,
             evm <- family, chain <- history, safe <- settled, cursor <- position, books <- accounts,
             payment <- transfer, sync <- syncs, missed <- skipped, drifted <- skewed
Recurring == INSTANCE Schedules WITH MaxTime <- MaxTicks
Delays == INSTANCE TimeLock WITH
            Payment <- First, MaxIndex <- MaxChanges, MaxTime <- MaxDelay,
            clock <- delayClock, log <- delayLog, stale <- delayStale
\* Two payments that one day's limit cannot hold, of which the first may wait
\* for its approval for longer than a day.
TwoAmounts == [i \in Intent |-> IF i = First THEN 1 ELSE 3]
TwoLifetimes == [i \in Intent |-> IF i = First THEN 3 ELSE 1]
Limits == INSTANCE Authorization WITH
            NoIntent <- None, Amount <- AmountOf, Lifetime <- LifetimeOf,
            MaxTime <- MaxDays, MaxFaults <- MaxErrors,
            now <- clock, frozen <- shut, faults <- errors
Monthly == INSTANCE Statements WITH
             Receipt <- Inbound, Amount <- NativeAmount,
             payment <- paying, receipt <- income, ledger <- journal, opened <- started,
             tx <- posting, reading <- answer

Parts == {"squads", "safe", "x402", "books", "reading", "recurring", "delays", "limits", "monthly"}

\* A component that is not picked starts in one of its initial states.
Init ==
  /\ part \in Parts
  /\ Squads!Init /\ executor \in Executor
  /\ Safe!Init
  /\ X402!Init /\ governed \in (IF part = "x402" THEN Governed ELSE {{}})
  /\ Books!Init /\ (part # "books" => evm)
  /\ Reading!Init /\ (part # "reading" => family)
  /\ Recurring!Init
  /\ Delays!Init /\ (part # "delays" => lock = CHOOSE d \in Delay : TRUE)
  /\ Limits!Init /\ (part # "limits" => autonomous)
  /\ Monthly!Init
  /\ (part # "monthly" => svm /\ direct /\ balance = 0 /\ \A p \in Payment : paying[p].kind = "token")

Next ==
  \/ /\ part = "squads" /\ UNCHANGED <<part, theSafe, x402, books, reading, recurring, others>>
     /\ Squads!Next
  \/ /\ part = "safe" /\ UNCHANGED <<part, squads, x402, books, reading, recurring, others>>
     /\ Safe!Next
  \/ /\ part = "x402" /\ UNCHANGED <<part, squads, theSafe, books, reading, recurring, others>>
     /\ X402!Next
  \/ /\ part = "books" /\ UNCHANGED <<part, squads, theSafe, x402, reading, recurring, others>>
     /\ Books!Next
  \/ /\ part = "reading" /\ UNCHANGED <<part, squads, theSafe, x402, books, recurring, others>>
     /\ Reading!Next
  \/ /\ part = "recurring" /\ UNCHANGED <<part, squads, theSafe, x402, books, reading, others>>
     /\ Recurring!Next
  \/ /\ part = "delays" /\ UNCHANGED <<part, squads, theSafe, x402, books, reading, recurring, limits, monthly>>
     /\ Delays!Next
  \/ /\ part = "limits" /\ UNCHANGED <<part, squads, theSafe, x402, books, reading, recurring, delays, monthly>>
     /\ Limits!Next
  \/ /\ part = "monthly" /\ UNCHANGED <<part, squads, theSafe, x402, books, reading, recurring, delays, limits>>
     /\ Monthly!Next

Spec == Init /\ [][Next]_<<part, squads, theSafe, x402, books, reading, recurring, others>>

\* Receipts, workers, payees and the multisig's payments are told apart by nothing
\* but their identity; no component has two of them, so they are exchanged together.
Exchanges == {r @@ w @@ p @@ q : r \in Permutations(Receipt), w \in Permutations(Worker),
                                 p \in Permutations(Payee), q \in Permutations(Payout)}
Symmetry == {e \in Exchanges : (\A v \in DOMAIN e : e[v] = v) \/ \A v \in DOMAIN e : e[v] # v}

-----------------------------------------------------------------------------
\* SquadsTreasury: one proposal per payment over crashes and retries, and no other
\* than Relay's own taken for it.
OneProposalEach == Squads!OneProposalEach
\* SquadsTreasury: as many are paid as left the vault, with the members' approval.
OutcomeMatchesVault == Squads!OutcomeMatchesVault
\* SquadsTreasury: the executor is a member, and what a row waits for can still be voted on.
NothingStranded == Squads!NothingStranded
\* SafeTreasury: paid is what left the Safe.
OutcomeMatchesSafe == Safe!OutcomeMatchesSafe
\* X402Settlement: a purchase is settled once, and the record is its own.
PurchasesSettled == X402!PurchasesSettled
\* Receivables: receipts are booked once; invoices, receipts and ledger agree.
AllocationsAddUp == Books!AllocationsAddUp
\* Receivables and Statements: the ledger's cash is the chain's balance, also of
\* what fees are paid in, and statements add up to it.
LedgerAccountsForChain == Books!LedgerAccountsForChain /\ Monthly!StatementsHold
\* InflowSync: receipts are read once, and a break is one.
SyncAccounts == Reading!SyncAccounts
\* Schedules: no burst of missed payments, and nothing is given up too early.
SchedulesKept == Recurring!SchedulesKept
\* TimeLock: the delay that Relay tells and goes by is the multisig's.
TimeLockTold == Delays!TimeLockTold
\* Authorization: what starts within a day stays within the limit.
WithinDailyLimit == Limits!WithinDailyLimit
=============================================================================
