----------------------------- MODULE InflowSync -----------------------------
(***************************************************************************)
(* How syncTreasury reads one asset of a treasury from the chain, next to    *)
(* other syncs of the same treasury: an opening balance at first sight, then *)
(* the receipts after a cursor, and the comparison with the ledger.  Solana  *)
(* is read by signatures, in one page of bounded size, EVM by blocks.        *)
(***************************************************************************)
EXTENDS Integers, Sequences, FiniteSetsExt

CONSTANTS
  Sync,      \* handlers of treasury.sync jobs
  None,      \* null
  Limit,     \* signatures that scanInflows asks for
  Recent,    \* signatures that signatureAtOrBefore looks at
  MaxBlocks, \* blocks that a sync scans
  MaxChain   \* bound on the transactions of the treasury

VARIABLES
  evm,       \* the treasury's chain family
  chain,     \* the transactions that move the asset, one unit each: receipts, transfers
             \* made by contracts, and the treasury's payment
  safe,      \* how many of them are final
  cursor,    \* treasury_sync_cursors; 0 is "none"
  books,     \* the ledger: receipts booked, the cash and the pending account
  payment,   \* status of the payment's intent
  sync,      \* per handler: how far it got and what it has read
  opened,    \* ghost: what the opening balance includes
  missed,    \* ghost: receipts that were passed over
  drifted,   \* ghost: the opening balance was taken beside a payment, or its signature not found
  falseBreak \* ghost: a break was recorded in books that were right, and left alone meanwhile

vars == <<evm, chain, safe, cursor, books, payment, sync, opened, missed, drifted, falseBreak>>
Chain == <<evm, chain, safe, payment>>
Ghosts == <<opened, missed, drifted, falseBreak>>

Idle == [at |-> "idle", to |-> 0, head |-> 0, todo |-> {}, quiet |-> FALSE]
Init ==
  /\ evm \in BOOLEAN /\ chain = <<>> /\ safe = 0 /\ cursor = None
  /\ books = [receipts |-> {}, cash |-> 0, pending |-> 0] /\ payment = "executing"
  /\ sync = [s \in Sync |-> Idle]
  /\ opened = 0 /\ missed = {} /\ drifted = FALSE /\ falseBreak = FALSE

Receipts(from, to) == {k \in from .. to : chain[k] = "in"}
BalanceAt(n) == Cardinality({k \in 1 .. n : chain[k] # "out"}) - Cardinality({k \in 1 .. n : chain[k] = "out"})
PaidBy(n) == \E k \in 1 .. n : chain[k] = "out"

Goto(s, state) == sync' = [sync EXCEPT ![s] = state]
\* The others' comparisons are no longer about the books that they were made for.
Disturbing(s, state) == sync' = [r \in Sync |-> IF r = s THEN state ELSE [sync[r] EXCEPT !.quiet = FALSE]]
\* A payment is in the balance and not in the books between broadcast and markSubmitted.
Quiet == ~(PaidBy(safe) /\ payment = "executing")

-----------------------------------------------------------------------------
(* The opening balance.                                                      *)

BeginOpening(s) ==
  /\ sync[s] = Idle /\ cursor = None
  /\ Goto(s, [Idle EXCEPT !.at = IF evm THEN "open" ELSE "locate", !.to = safe, !.head = safe, !.quiet = Quiet])
  /\ UNCHANGED <<Chain, cursor, books, Ghosts>>

\* signatureAtOrBefore: among the newest only.
Locate(s) ==
  /\ sync[s].at = "locate"
  /\ Goto(s, [sync[s] EXCEPT !.at = "open", !.to = IF sync[s].head > safe - Recent THEN sync[s].head ELSE 0])
  /\ UNCHANGED <<Chain, cursor, books, Ghosts>>

AfterReading(s) == IF evm THEN "compare" ELSE "balance"
OpenCursor(s) ==
  /\ sync[s].at = "open"
  /\ LET next == [sync[s] EXCEPT !.at = AfterReading(s)]
         head == sync[s].head
     IN IF cursor # None THEN Goto(s, next) /\ UNCHANGED <<cursor, books, opened, drifted>>
        ELSE /\ cursor' = sync[s].to /\ opened' = head
             /\ books' = [books EXCEPT !.cash = BalanceAt(head) - books.pending]
             /\ drifted' = (sync[s].to # head \/ (PaidBy(head) # (payment = "finalized")))
             /\ Disturbing(s, next)
  /\ UNCHANGED <<Chain, missed, falseBreak>>

-----------------------------------------------------------------------------
(* Receipts after the cursor.                                                *)

BeginScan(s) ==
  /\ sync[s] = Idle /\ cursor # None
  /\ LET to == IF evm THEN Min({safe, cursor + MaxBlocks}) ELSE safe
         from == IF evm THEN cursor + 1 ELSE Max({cursor + 1, safe - Limit + 1})
     IN /\ Goto(s, [at |-> "scan", to |-> to, head |-> safe, todo |-> Receipts(from, to), quiet |-> Quiet])
        /\ missed' = missed \cup Receipts(cursor + 1, from - 1)
  /\ UNCHANGED <<Chain, cursor, books, opened, drifted, falseBreak>>

\* recordInflow of the oldest that is left; a node may not have the transaction.
Record(s) ==
  /\ sync[s].at = "scan" /\ sync[s].todo # {}
  /\ LET k == Min(sync[s].todo)
         next == [sync[s] EXCEPT !.todo = @ \ {k}]
     IN \/ /\ IF k \in books.receipts THEN Goto(s, next) /\ UNCHANGED books
              ELSE /\ books' = [books EXCEPT !.receipts = @ \cup {k}, !.cash = @ + 1]
                   /\ Disturbing(s, next)
           /\ UNCHANGED missed
        \/ ~evm /\ missed' = missed \cup ({k} \ books.receipts) /\ Goto(s, next) /\ UNCHANGED books
  /\ UNCHANGED <<Chain, cursor, opened, drifted, falseBreak>>

\* Mutant: the cursor moves on before all that was read is recorded.
AdvanceEarly(s) ==
  /\ sync[s].at = "scan" /\ cursor' = sync[s].to
  /\ Goto(s, IF sync[s].todo # {} THEN sync[s] ELSE IF sync[s].to < sync[s].head /\ evm THEN Idle
             ELSE [sync[s] EXCEPT !.at = AfterReading(s)])
  /\ UNCHANGED <<Chain, books, Ghosts>>
AdvanceCursor(s) ==
  /\ sync[s].at = "scan" /\ sync[s].todo = {} /\ cursor' = sync[s].to
  /\ Goto(s, IF sync[s].to < sync[s].head /\ evm THEN Idle ELSE [sync[s] EXCEPT !.at = AfterReading(s)])
  /\ UNCHANGED <<Chain, books, Ghosts>>

-----------------------------------------------------------------------------
(* The comparison.                                                           *)

GetFinalizedBalance(s) ==
  /\ sync[s].at = "balance"
  /\ Goto(s, [sync[s] EXCEPT !.at = "check", !.head = safe, !.quiet = Quiet])
  /\ UNCHANGED <<Chain, cursor, books, Ghosts>>

\* newestSignature
CheckNewest(s) ==
  /\ sync[s].at = "check"
  /\ Goto(s, IF safe = sync[s].to THEN [sync[s] EXCEPT !.at = "compare"] ELSE Idle)
  /\ UNCHANGED <<Chain, cursor, books, Ghosts>>

\* What this sync has read is booked, and the balance holds nothing that no sync sees.
BooksAreRight(s) ==
  /\ ~drifted
  /\ \A k \in opened + 1 .. Max({sync[s].to, sync[s].head}) :
       chain[k] = "hidden" \/ (chain[k] = "in" /\ k <= sync[s].to) => k \in books.receipts

\* recordReconciliation
Compare(s) ==
  /\ sync[s].at = "compare" /\ Goto(s, Idle)
  /\ LET break == BalanceAt(sync[s].head) # books.cash /\ books.pending = 0
     IN falseBreak' = (falseBreak \/ (break /\ sync[s].quiet /\ BooksAreRight(s)))
  /\ UNCHANGED <<Chain, cursor, books, opened, missed, drifted>>

\* An error of a node, or a crash; the cursor stays where it was.
Abandon(s) ==
  /\ sync[s] # Idle /\ Goto(s, Idle)
  /\ UNCHANGED <<Chain, cursor, books, Ghosts>>

-----------------------------------------------------------------------------
(* The chain, and the payment.                                               *)

Land(kind) ==
  /\ Len(chain) < MaxChain /\ chain' = Append(chain, kind)
  /\ kind = "hidden" => evm
  /\ kind = "out" => ~PaidBy(Len(chain))
  /\ UNCHANGED <<evm, safe, cursor, books, payment, sync, Ghosts>>

Finalize ==
  /\ safe < Len(chain) /\ safe' = safe + 1
  /\ UNCHANGED <<evm, chain, cursor, books, payment, sync, Ghosts>>

MarkSubmitted ==
  /\ payment = "executing" /\ payment' = "submitted"
  /\ books' = [books EXCEPT !.cash = @ - 1, !.pending = @ + 1]
  /\ UNCHANGED <<evm, chain, safe, cursor, sync, Ghosts>>

Confirm ==
  /\ payment = "submitted" /\ PaidBy(safe) /\ payment' = "finalized"
  /\ books' = [books EXCEPT !.pending = @ - 1]
  /\ sync' = [s \in Sync |-> [sync[s] EXCEPT !.quiet = FALSE]]
  /\ UNCHANGED <<evm, chain, safe, cursor, Ghosts>>

Next ==
  \/ \E s \in Sync :
       \/ BeginOpening(s) \/ Locate(s) \/ OpenCursor(s) \/ BeginScan(s) \/ Record(s) \/ AdvanceCursor(s)
       \/ GetFinalizedBalance(s) \/ CheckNewest(s) \/ Compare(s) \/ Abandon(s)
  \/ \E kind \in {"in", "hidden", "out"} : Land(kind)
  \/ Finalize \/ MarkSubmitted \/ Confirm

Spec == Init /\ [][Next]_vars

-----------------------------------------------------------------------------
\* A receipt that the cursor has passed is in the opening balance or booked, and
\* never both, unless a node did not have it or more came at once than are asked
\* for; and a break means that the books are wrong, unless they moved meanwhile.
SyncAccounts ==
  /\ cursor # None /\ ~drifted =>
       \A k \in Receipts(1, cursor) : IF k \in missed THEN k > opened
                                      ELSE (k <= opened) # (k \in books.receipts)
  /\ ~falseBreak
=============================================================================
