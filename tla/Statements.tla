--------------------------- MODULE Statements ---------------------------
(***************************************************************************)
(* The books of a treasury in its native asset, of which fees and rent are   *)
(* paid: what each payment cost and who bore it, and the monthly statements. *)
(* A posting is dated when its transaction begins and seen when it commits;  *)
(* a statement is read by two queries, outside of any transaction.           *)
(***************************************************************************)
EXTENDS Integers, FiniteSetsExt

CONSTANTS
  Payment, Receipt,
  Amount, Fee, Rent, \* what a native payment moves, and what transactions cost
  Funds,             \* amounts that the treasury may hold at the start
  MaxMonth,          \* bound on time
  None               \* null

VARIABLES
  svm, direct,  \* the treasury's chain family; whether it pays for its own transactions
  month,        \* now, as far as statements tell it
  balance,      \* of the treasury, on chain
  payment,      \* per payment: what it is, its intent's status and how it went on chain
  receipt,      \* per receipt: on chain, in the opening balance or in the books
  ledger,       \* ledger_entries of the asset, debits positive
  opened,       \* a treasury_sync_cursors row is there
  tx,           \* a transaction that posts, begun and not committed
  reading,      \* a statement of which the first query has been answered
  issued,       \* a statement that was given out
  unseen,       \* ghost: payments that ended on a receipt without the transaction
  askew         \* ghost: the opening balance was not in step with the books

vars == <<svm, direct, month, balance, payment, receipt, ledger, opened, tx, reading, issued, unseen, askew>>
Treasury == <<svm, direct>>
Chain == <<balance, payment, receipt>>
Books == <<ledger, opened, unseen, askew>>
Statement == <<reading, issued>>

Init ==
  /\ svm \in BOOLEAN /\ direct \in BOOLEAN
  /\ month = 1 /\ balance \in Funds
  /\ payment \in [Payment -> [kind : {"native", "token", "x402"}, status : {"executing"},
                              result : {None}, rent : {FALSE}]]
  /\ receipt = [r \in Receipt |-> "none"]
  /\ ledger = {} /\ opened = FALSE /\ tx = None
  /\ reading = None /\ issued = None /\ unseen = {} /\ askew = FALSE

-----------------------------------------------------------------------------
(* The chain.                                                               *)

Native(p) == IF payment[p].kind = "native" THEN Amount ELSE 0

\* A direct treasury pays the fee, of failed transactions too; a facilitator pays
\* that of a purchase. Whoever sends on Solana pays for accounts it opens.
Cost(p, result, rent) ==
  IF payment[p].kind = "x402" THEN 0
  ELSE (IF direct THEN Fee ELSE 0) + (IF rent THEN Rent ELSE 0) + (IF result = "ok" THEN Native(p) ELSE 0)
Spent(p) == IF payment[p].result = None THEN 0 ELSE Cost(p, payment[p].result, payment[p].rent)

Land(p, result, rent) ==
  /\ payment[p].result = None /\ payment[p].status \in {"executing", "submitted"}
  /\ Cost(p, result, rent) <= balance
  /\ rent => svm /\ result = "ok" /\ payment[p].kind # "x402"
  /\ payment' = [payment EXCEPT ![p].result = result, ![p].rent = rent]
  /\ balance' = balance - Cost(p, result, rent)
  /\ UNCHANGED <<Treasury, month, receipt, Books, tx, Statement>>

Arrive(r) ==
  /\ receipt[r] = "none"
  /\ receipt' = [receipt EXCEPT ![r] = "landed"] /\ balance' = balance + 1
  /\ UNCHANGED <<Treasury, month, payment, Books, tx, Statement>>

-----------------------------------------------------------------------------
(* Postings.                                                                *)

Line(who, code, amount) == [who |-> who, code |-> code, amount |-> amount]
Pair(who, debit, credit, amount) ==
  IF amount > 0 THEN {Line(who, debit, amount), Line(who, credit, -amount)} ELSE {}
Post(entries, ref, lines) ==
  IF \E e \in entries : e.ref = ref THEN entries
  ELSE entries \cup {[ref |-> ref, at |-> tx.at, who |-> l.who, code |-> l.code, amount |-> l.amount] : l \in lines}

Sum(entries) == MapThenSumSet(LAMBDA e : e.amount, entries)
Of(code) == {e \in ledger : e.who = "treasury" /\ e.code = code}
Cash == Of("treasury_asset")

\* What a payment cost besides its amount, and whose account it came out of. On
\* Solana the treasury's is what it spent, if the node had the transaction.
CostLines(p, seen) ==
  LET ok == payment[p].result = "ok"
      treasury(n) == Pair("treasury", "fee_expense", "treasury_asset", n)
      executor(n) == Pair("float", "executor_fee_expense", "treasury_asset", n)
      fee == IF seen THEN Fee ELSE 0
  IN IF payment[p].kind = "x402" THEN {}
     ELSE IF svm /\ ok /\ seen THEN treasury(Spent(p) - Native(p)) \cup (IF direct THEN {} ELSE executor(fee))
     ELSE IF direct THEN treasury(fee) ELSE executor(fee)

\* A transaction starts; what it is about is decided by then.
Begin(work) ==
  /\ tx = None
  /\ tx' = [work |-> work, at |-> month]
  /\ UNCHANGED <<Treasury, month, Chain, Books, Statement>>

BeginSubmit(p) == payment[p].status = "executing" /\ Begin([of |-> "submit", payment |-> p])
\* Solana may know how a transaction ended and not have it.
BeginConfirm(p) ==
  /\ payment[p].status = "submitted" /\ payment[p].result # None
  /\ \E seen \in {TRUE, ~svm} : Begin([of |-> "confirm", payment |-> p, seen |-> seen])
\* A sync books what comes after its start; an x402 payment is booked when settled.
BeginBook(r) == receipt[r] = "landed" /\ Begin([of |-> "book", receipt |-> r])
\* The balance is read at a block that may not have the last receipts yet.
BeginOpen ==
  /\ ~opened
  /\ \E within \in SUBSET {r \in Receipt : receipt[r] # "none"} :
       Begin([of |-> "open", within |-> within, paid |-> {p \in Payment : payment[p].result # None},
              balance |-> balance - Cardinality({r \in Receipt \ within : receipt[r] # "none"})])

MarkSubmitted ==
  LET p == tx.work.payment
  IN /\ tx.work.of = "submit"
     /\ payment' = [payment EXCEPT ![p].status = "submitted"]
     /\ ledger' = Post(ledger, <<"submitted", p>>, Pair("treasury", "pending_outbound", "treasury_asset", Native(p)))
     /\ UNCHANGED <<receipt, opened, unseen, askew>>

MarkEnded ==
  LET p == tx.work.payment
      ok == payment[p].result = "ok"
      ended == IF ok THEN Post(ledger, <<"finalized", p>>, Pair("treasury", "settled_expense", "pending_outbound", Native(p)))
               ELSE Post(ledger, <<"reversal", p>>, Pair("treasury", "treasury_asset", "pending_outbound", Native(p)))
  IN /\ tx.work.of = "confirm"
     /\ payment' = [payment EXCEPT ![p].status = IF ok THEN "finalized" ELSE "failed"]
     /\ ledger' = Post(ended, <<"fee", p>>, CostLines(p, tx.work.seen))
     /\ unseen' = IF tx.work.seen THEN unseen ELSE unseen \cup {p}
     /\ UNCHANGED <<receipt, opened, askew>>

RecordInflow ==
  LET r == tx.work.receipt
  IN /\ tx.work.of = "book"
     /\ receipt' = [receipt EXCEPT ![r] = "booked"]
     /\ ledger' = Post(ledger, <<"in", r>>, Pair("treasury", "treasury_asset", "inbound_unallocated", 1))
     /\ UNCHANGED <<payment, opened, unseen, askew>>

\* The ghost askew: a receipt is booked that the balance does not have, or the
\* balance has a payment that has not ended in the books, or the other way round.
OpenCursor ==
  LET work == tx.work
      amount == work.balance - Sum(Cash) - Sum(Of("pending_outbound"))
      Ended(p) == payment[p].status \in {"finalized", "failed"}
  IN /\ work.of = "open"
     /\ ledger' = Post(ledger, <<"opening">>,
                       Pair("treasury", "treasury_asset", "opening_balance", amount)
                       \cup Pair("treasury", "opening_balance", "treasury_asset", -amount))
     /\ opened' = TRUE
     /\ receipt' = [r \in Receipt |-> IF receipt[r] = "landed" /\ r \in work.within THEN "counted" ELSE receipt[r]]
     /\ askew' = (\/ \E r \in Receipt \ work.within : receipt[r] = "booked"
                  \/ {p \in Payment : Ended(p)} # work.paid)
     /\ UNCHANGED <<payment, unseen>>

Commit ==
  /\ tx # None
  /\ MarkSubmitted \/ MarkEnded \/ RecordInflow \/ OpenCursor
  /\ tx' = None
  /\ UNCHANGED <<Treasury, month, balance, Statement>>

Rollback ==
  /\ tx # None /\ tx' = None
  /\ UNCHANGED <<Treasury, month, Chain, Books, Statement>>

-----------------------------------------------------------------------------
(* Statements.                                                              *)

MonthEnds ==
  /\ month < MaxMonth /\ month' = month + 1
  /\ UNCHANGED <<Treasury, Chain, Books, tx, Statement>>

Opening(m) == Sum({e \in Cash : e.at < m})

\* What an entry is called follows from the other side of its posting.
Category(e) ==
  LET codes == {f.code : f \in {g \in ledger : g.ref = e.ref} \ {e}}
  IN CASE "opening_balance" \in codes -> "opening_balance"
       [] "fee_expense" \in codes -> "fee"
       [] "pending_outbound" \in codes -> IF e.amount < 0 THEN "outflow" ELSE "reversal"
       [] "inbound_unallocated" \in codes -> "inflow"
       [] OTHER -> "other"

\* The ghost calm: the month was over, and so was every posting begun in it.
ReadOpening(m) ==
  /\ reading = None /\ issued = None
  /\ reading' = [month |-> m, opening |-> Opening(m), calm |-> m < month /\ (tx # None => m < tx.at)]
  /\ UNCHANGED <<Treasury, month, Chain, Books, tx, issued>>

ReadEntries ==
  LET lines == {e \in Cash : e.at = reading.month}
      In(categories) == Sum({e \in lines : Category(e) \in categories})
      gained == {e \in lines : Category(e) \in {"inflow", "opening_balance"} /\ e.amount > 0}
  IN /\ reading # None
     /\ issued' = [month |-> reading.month, calm |-> reading.calm, opening |-> reading.opening,
                   inflows |-> Sum(gained), outflows |-> -In({"outflow", "reversal"}), fees |-> -In({"fee"}),
                   closing |-> reading.opening + Sum(lines)]
     /\ reading' = None
     /\ UNCHANGED <<Treasury, month, Chain, Books, tx>>

Next ==
  \/ \E p \in Payment : \/ BeginSubmit(p) \/ BeginConfirm(p)
                        \/ \E result \in {"ok", "reverted"}, rent \in BOOLEAN : Land(p, result, rent)
  \/ \E r \in Receipt : Arrive(r) \/ BeginBook(r)
  \/ BeginOpen \/ Commit \/ Rollback \/ MonthEnds
  \/ \E m \in 1 .. MaxMonth : ReadOpening(m)
  \/ ReadEntries

Spec == Init /\ [][Next]_vars

-----------------------------------------------------------------------------
\* What a payment has taken from the treasury and the books do not know yet, or
\* the books have taken and it has not.
Ahead(p) == Spent(p) - (IF payment[p].status = "submitted" THEN Native(p) ELSE 0)

\* From the opening balance on the treasury's cash is its balance on chain, fees
\* and rent included, but for payments under way, receipts not booked yet and
\* the costs of transactions that the node did not have.
CashIsBalance ==
  opened /\ ~askew /\ unseen = {} =>
    Sum(Cash) = balance
      + MapThenSumSet(Ahead, {p \in Payment : payment[p].status \in {"executing", "submitted"}})
      - Cardinality({r \in Receipt : receipt[r] = "landed"})

\* A statement adds up, unless an opening balance below zero was booked in its
\* month, and once its month and the postings begun in it are over it never
\* changes: it joins the months before and after.
StatementsJoin ==
  issued # None =>
    /\ \/ issued.closing = issued.opening + issued.inflows - issued.outflows - issued.fees
       \/ \E e \in ledger : e.code = "opening_balance" /\ e.amount > 0 /\ e.at = issued.month
    /\ issued.calm => /\ issued.opening = Opening(issued.month)
                      /\ issued.closing = Opening(issued.month + 1)

\* The books of the native asset as the statements tell them: they close with the
\* balance on chain.
StatementsHold == CashIsBalance /\ StatementsJoin
=============================================================================
