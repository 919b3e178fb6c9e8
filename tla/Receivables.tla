--------------------------- MODULE Receivables ---------------------------
(***************************************************************************)
(* One asset of one treasury: invoices, the transfers that come in and go    *)
(* out on chain, the sync job that reads them up to a safe position, the     *)
(* x402 payment of a public invoice, which records its own settlement, and   *)
(* the double entry ledger.  recordInflow first reads and then writes, at    *)
(* read committed, so two of them can interleave.                            *)
(***************************************************************************)
EXTENDS Integers, Sequences, FiniteSetsExt

CONSTANTS
  Invoice, Receipt, Payment, \* invoices, transfers to and payments from the treasury
  Subtotal, Tag,             \* what an invoice asks for, and the identifiers added to it
  Amount,                    \* amounts that customers transfer
  None                       \* null

VARIABLES
  evm,      \* the treasury's chain family: amounts or references identify invoices
  invoice,  \* per invoice: its status, what is due and what is paid
  chain,    \* transfers in their order on chain
  safe,     \* how much of the chain is final
  inflow,   \* treasury_inflows
  ledger,   \* ledger_entries: reference, account and amount, debits positive
  cursor,   \* treasury_sync_cursors
  sync, api,\* a sync job and an x402 payment under way
  payment,  \* per payment: the intent's status
  raced,    \* ghost: a receipt was written by two of whom the second had read first
  drifted   \* ghost: an opening balance was booked beside other bookings

vars == <<evm, invoice, chain, safe, inflow, ledger, cursor, sync, api, payment, raced, drifted>>
Ghosts == <<raced, drifted>>

Idle == [at |-> "idle"]
Init ==
  /\ evm \in BOOLEAN
  /\ invoice = [v \in Invoice |-> [status |-> "none", due |-> 0, paid |-> 0]]
  /\ chain = <<>> /\ safe = 0 /\ inflow = {} /\ ledger = {} /\ cursor = None
  /\ sync = Idle /\ api = Idle /\ payment = [p \in Payment |-> "executing"]
  /\ raced = FALSE /\ drifted = FALSE

-----------------------------------------------------------------------------
(* The ledger. A posting debits one account and credits another, once per   *)
(* reference: a reference that is there already posts nothing.              *)

Post(entries, ref, debit, credit, amount) ==
  IF \E e \in entries : e.ref = ref THEN entries
  ELSE entries \cup {[ref |-> ref, code |-> debit, amount |-> amount],
                     [ref |-> ref, code |-> credit, amount |-> -amount]}
Net(code) == MapThenSumSet(LAMBDA e : e.amount, {e \in ledger : e.code = code})

\* getBalanceAt: payments are of one unit, and one that reverted moves nothing.
Moved(t) == IF t.kind = "in" THEN t.amount ELSE IF t.ok THEN -1 ELSE 0
BalanceAt(n) == MapThenSumSet(LAMBDA k : Moved(chain[k]), 1 .. n)

-----------------------------------------------------------------------------
(* Invoices.                                                                *)

CreateInvoice(v) ==
  /\ invoice[v].status = "none"
  /\ \E tag \in IF evm THEN Tag ELSE {0} :
       /\ evm => \A w \in Invoice : invoice[w].status \in {"draft", "open"} =>
                                      invoice[w].due # Subtotal + tag
       /\ invoice' = [invoice EXCEPT ![v] =
            [status |-> "draft", due |-> Subtotal + tag, paid |-> 0]]
  /\ UNCHANGED <<evm, chain, safe, inflow, ledger, cursor, sync, api, payment, Ghosts>>

IssueInvoice(v) ==
  /\ invoice[v].status = "draft"
  /\ invoice' = [invoice EXCEPT ![v].status = "open"]
  /\ ledger' = Post(ledger, <<"issued", v>>, "receivable", "revenue", invoice[v].due)
  /\ UNCHANGED <<evm, chain, safe, inflow, cursor, sync, api, payment, Ghosts>>

VoidInvoice(v) ==
  /\ invoice[v].status \in {"draft", "open"} /\ invoice[v].paid = 0
  /\ invoice' = [invoice EXCEPT ![v].status = "void"]
  /\ ledger' = IF invoice[v].status = "draft" THEN ledger
               ELSE Post(ledger, <<"void", v>>, "revenue", "receivable", invoice[v].due)
  /\ UNCHANGED <<evm, chain, safe, inflow, cursor, sync, api, payment, Ghosts>>

-----------------------------------------------------------------------------
(* recordInflow: one transaction, but its reads take no locks.              *)

Rows(r) == {f \in inflow : f.receipt = r}
\* A transfer names its invoice by the exact amount, or by the reference it carries.
Matches(t) ==
  {v \in Invoice : /\ invoice[v].status = "open"
                   /\ IF evm THEN invoice[v].due - invoice[v].paid = t.amount ELSE t.ref = v}

\* What one recorder has read: the row that is there, or the invoice to apply to;
\* seen is kept for the ghost only.
\* A row of the other method that has an invoice, or the same event, ends it.
\* Mutant: a row counts only for the method that wrote it.
ReadOwnMethod(t, event, named) ==
  IF \E f \in Rows(t.receipt) : f.event = event THEN {Idle}
  ELSE {[at |-> "insert", transfer |-> t, event |-> event, invoice |-> v, seen |-> Rows(t.receipt)] :
          v \in IF named # None THEN {named} ELSE IF Matches(t) = {} THEN {None} ELSE Matches(t)}
Read(t, event, named) ==
  IF \E f \in Rows(t.receipt) : f.event = event THEN {Idle}
  ELSE IF Rows(t.receipt) # {}
  THEN {IF named # None /\ f.invoice = None
        THEN [at |-> "allocate", transfer |-> t, event |-> event, invoice |-> named, row |-> f]
        ELSE Idle : f \in Rows(t.receipt)}
  ELSE {[at |-> "insert", transfer |-> t, event |-> event, invoice |-> v, seen |-> Rows(t.receipt)] :
          v \in IF named # None THEN {named} ELSE IF Matches(t) = {} THEN {None} ELSE Matches(t)}

Allocatable(f, v) == f.invoice = None /\ invoice[v].status = "open"

\* The receipt moves to receivables; the subtotal is what the customer owes.
Allocate(rows, entries, f, v) ==
  LET paid == invoice[v].paid + f.amount
  IN /\ inflow' = (rows \ {f}) \cup {[f EXCEPT !.invoice = v]}
     /\ ledger' = Post(entries, <<"allocated", f.receipt, f.event, v>>,
                       "unallocated", "receivable", f.amount)
     /\ invoice' = [invoice EXCEPT ![v].paid = paid,
                      ![v].status = IF paid >= Subtotal THEN "paid" ELSE "open"]

\* The write. If the invoice is not open any more the whole transaction is
\* rolled back: the recorder fails, and neither receipt nor cursor is written.
Write(w) ==
  LET f == [receipt |-> w.transfer.receipt, event |-> w.event,
            amount |-> w.transfer.amount, invoice |-> None]
      booked == Post(ledger, <<"in", f.receipt, f.event>>, "cash", "unallocated", f.amount)
  IN IF w.at = "insert"
     THEN /\ IF w.invoice = None
             THEN inflow' = inflow \cup {f} /\ ledger' = booked /\ UNCHANGED invoice
             ELSE Allocatable(f, w.invoice) /\ Allocate(inflow \cup {f}, booked, f, w.invoice)
          /\ raced' = (raced \/ Rows(f.receipt) # w.seen)
     ELSE /\ w.row \in inflow /\ Allocatable(w.row, w.invoice)
          /\ Allocate(inflow, ledger, w.row, w.invoice)
          /\ UNCHANGED raced

AllocateByHand(f, v) ==
  /\ Allocatable(f, v) /\ Allocate(inflow, ledger, f, v)
  /\ UNCHANGED <<evm, chain, safe, cursor, sync, api, payment, Ghosts>>

-----------------------------------------------------------------------------
(* syncTreasury.                                                            *)

SyncState == <<cursor, sync>>
BeginSync ==
  /\ sync = Idle
  /\ \E to \in safe .. safe \cup (IF cursor = None THEN {} ELSE cursor .. safe) :
       sync' = IF cursor = None THEN [at |-> "open", to |-> safe, balance |-> BalanceAt(safe)]
               ELSE [at |-> "scan", next |-> cursor + 1, to |-> to]
  /\ UNCHANGED <<evm, invoice, chain, safe, inflow, ledger, cursor, api, payment, Ghosts>>

\* Nothing after n is booked, and nothing up to n is still to be booked.
BooksEndAt(n) ==
  \A k \in DOMAIN chain :
    LET t == chain[k]
    IN IF t.kind = "in" THEN IF k > n THEN Rows(t.receipt) = {}
                             ELSE Rows(t.receipt) # {} \/ api = Idle \/ api.transfer # t
       ELSE t.ok => (k <= n <=> payment[t.payment] = "finalized")

\* Mutant: payments under way are not part of what the books know.
BookedCash == Net("cash")
Booked == Net("cash") + Net("pending")

OpenCursor ==
  /\ sync.at = "open"
  /\ cursor' = sync.to
  /\ LET opening == sync.balance - Booked
     IN ledger' = IF opening = 0 THEN ledger ELSE Post(ledger, <<"opening">>, "cash", "opening", opening)
  /\ drifted' = ~BooksEndAt(sync.to)
  /\ sync' = Idle
  /\ UNCHANGED <<evm, invoice, chain, safe, inflow, api, payment, raced>>

Incoming(from, to) == {k \in from .. to : chain[k].kind = "in"}

ScanNext ==
  /\ sync.at = "scan" /\ Incoming(sync.next, sync.to) # {}
  /\ LET k == Min(Incoming(sync.next, sync.to))
     IN \E w \in Read(chain[k], "log", None) :
          sync' = IF w = Idle THEN [sync EXCEPT !.next = k + 1]
                  ELSE [at |-> "record", next |-> k + 1, to |-> sync.to, write |-> w]
  /\ UNCHANGED <<evm, invoice, chain, safe, inflow, ledger, cursor, api, payment, Ghosts>>

RecordNext ==
  /\ sync.at = "record" /\ Write(sync.write)
  /\ sync' = [at |-> "scan", next |-> sync.next, to |-> sync.to]
  /\ UNCHANGED <<evm, chain, safe, cursor, api, payment, drifted>>

AdvanceCursor ==
  /\ sync.at = "scan" /\ Incoming(sync.next, sync.to) = {}
  /\ cursor' = sync.to /\ sync' = Idle
  /\ UNCHANGED <<evm, invoice, chain, safe, inflow, ledger, api, payment, Ghosts>>

\* An error, a crash or a rolled back receipt; the cursor stays where it was.
AbandonSync ==
  /\ sync # Idle /\ sync' = Idle
  /\ UNCHANGED <<evm, invoice, chain, safe, inflow, ledger, cursor, api, payment, Ghosts>>

-----------------------------------------------------------------------------
(* The x402 payment of a public invoice.                                    *)

Landed(id) == \E k \in DOMAIN chain : chain[k].id = id

\* The facilitator settles what is still owed of the subtotal.
SettleX402(v, r) ==
  /\ api = Idle /\ invoice[v].status = "open" /\ invoice[v].paid < Subtotal
  /\ ~Landed(r)
  /\ LET t == [kind |-> "in", id |-> r, receipt |-> r, amount |-> Subtotal - invoice[v].paid, ref |-> None]
     IN chain' = Append(chain, t) /\ api' = [at |-> "settled", transfer |-> t, invoice |-> v]
  /\ UNCHANGED <<evm, invoice, safe, inflow, ledger, SyncState, payment, Ghosts>>

ReadX402 ==
  /\ api.at = "settled"
  /\ api' \in Read(api.transfer, "x402", api.invoice)
  /\ UNCHANGED <<evm, invoice, chain, safe, inflow, ledger, SyncState, payment, Ghosts>>

WriteX402 ==
  /\ api.at \in {"insert", "allocate"} /\ Write(api)
  /\ api' = Idle
  /\ UNCHANGED <<evm, chain, safe, SyncState, payment, drifted>>

\* The API stops between settlement and record: only the sync sees the receipt.
AbandonX402 ==
  /\ api # Idle /\ api' = Idle
  /\ UNCHANGED <<evm, invoice, chain, safe, inflow, ledger, SyncState, payment, Ghosts>>

-----------------------------------------------------------------------------
(* The chain, customers, and the treasury's own payments.                   *)

Books == <<evm, invoice, inflow, SyncState, api, Ghosts>>

Transfer(r, amount, ref) ==
  /\ ~Landed(r)
  /\ chain' = Append(chain, [kind |-> "in", id |-> r, receipt |-> r, amount |-> amount, ref |-> ref])
  /\ UNCHANGED <<Books, safe, ledger, payment>>

PayOut(p, ok) ==
  /\ ~Landed(p)
  /\ chain' = Append(chain, [kind |-> "out", id |-> p, payment |-> p, ok |-> ok])
  /\ UNCHANGED <<Books, safe, ledger, payment>>

Finalize ==
  /\ safe < Len(chain) /\ safe' = safe + 1
  /\ UNCHANGED <<Books, chain, ledger, payment>>

\* Broadcast comes before it, so the payment may have landed already.
MarkSubmitted(p) ==
  /\ payment[p] = "executing"
  /\ payment' = [payment EXCEPT ![p] = "submitted"]
  /\ ledger' = Post(ledger, <<"submitted", p>>, "pending", "cash", 1)
  /\ UNCHANGED <<Books, chain, safe>>

Confirm(p) ==
  /\ payment[p] = "submitted"
  /\ \E k \in 1 .. safe :
       /\ chain[k].id = p
       /\ payment' = [payment EXCEPT ![p] = IF chain[k].ok THEN "finalized" ELSE "failed"]
       /\ ledger' = IF chain[k].ok THEN Post(ledger, <<"finalized", p>>, "expense", "pending", 1)
                    ELSE Post(ledger, <<"reversal", p>>, "cash", "pending", 1)
  /\ UNCHANGED <<Books, chain, safe>>

Next ==
  \/ \E v \in Invoice :
       \/ CreateInvoice(v) \/ IssueInvoice(v) \/ VoidInvoice(v)
       \/ \E f \in inflow : AllocateByHand(f, v)
       \/ \E r \in Receipt : SettleX402(v, r)
  \/ BeginSync \/ OpenCursor \/ ScanNext \/ RecordNext \/ AdvanceCursor \/ AbandonSync
  \/ ReadX402 \/ WriteX402 \/ AbandonX402
  \/ \E r \in Receipt, amount \in Amount, ref \in IF evm THEN {None} ELSE Invoice \cup {None} : Transfer(r, amount, ref)
  \/ \E p \in Payment : MarkSubmitted(p) \/ Confirm(p) \/ \E ok \in BOOLEAN : PayOut(p, ok)
  \/ Finalize

Spec == Init /\ [][Next]_vars

-----------------------------------------------------------------------------
\* A receipt is booked once, whether the sync or the x402 payment sees it first.
BookedOnce == \A f, g \in inflow : f.receipt = g.receipt => f = g

\* Invoices, receipts and ledger tell one story: a receipt is booked once unless
\* both recorders read before either wrote; an invoice is paid by the receipts
\* applied to it, exactly when they cover its subtotal; and the ledger holds as
\* unallocated and as receivable what the tables leave open.
AllocationsAddUp ==
  LET Applied(v) == MapThenSumSet(LAMBDA f : f.amount, {f \in inflow : f.invoice = v})
      Owed(v) == IF invoice[v].status \in {"open", "paid"} THEN invoice[v].due - invoice[v].paid ELSE 0
  IN /\ raced \/ BookedOnce
     /\ \A v \in Invoice : /\ invoice[v].paid = Applied(v)
                           /\ invoice[v].status = "paid" <=> Applied(v) >= Subtotal
     /\ Net("unallocated") = -Applied(None)
     /\ Net("receivable") = MapThenSumSet(Owed, Invoice)

\* From the opening balance on the ledger's cash is the chain's balance, but for
\* the receipts that are not booked yet and the payments under way.
LedgerAccountsForChain ==
  cursor # None /\ ~raced /\ ~drifted =>
    LET Unbooked == {k \in cursor + 1 .. Len(chain) : chain[k].kind = "in" /\ Rows(chain[k].receipt) = {}}
        OutAt(k) == chain[k].kind = "out" /\ chain[k].ok
        Ahead == {p \in Payment : payment[p] = "submitted" /\ ~\E k \in DOMAIN chain : chain[k].id = p /\ OutAt(k)}
        Behind == {k \in DOMAIN chain : OutAt(k) /\ payment[chain[k].payment] = "executing"}
    IN Net("cash") = BalanceAt(Len(chain)) - MapThenSumSet(LAMBDA k : chain[k].amount, Unbooked)
                     - Cardinality(Ahead) + Cardinality(Behind)
=============================================================================
