----------------------------- MODULE PayPage -----------------------------
(***************************************************************************)
(* The page on which a customer pays an invoice: it polls the public view of *)
(* the invoice, hands a transfer to the customer's wallet, or shows a code   *)
(* that any wallet can scan; the receipt then finds its invoice by amount    *)
(* (EVM) or by reference (Solana).  The organisation has other invoices.     *)
(***************************************************************************)
EXTENDS Naturals, FiniteSets

CONSTANTS
  Invoice, Mine,  \* invoices of one treasury and asset, and that of the page
  Subtotal, Tag,  \* what each asks for, and its identifier on EVM
  Part,           \* amounts that members allocate by hand
  MaxTransfers, MaxAnswers, \* bounds
  None

VARIABLES
  evm,        \* the treasury's chain family
  invoice,    \* per invoice: its status and what is paid
  shown, missing, busy, told, \* the page: the invoice it shows, and the state of paying
  answers,    \* answers to polls that have not arrived
  flow,       \* payWithWallet between two awaits
  asked,      \* requests to send that the wallet has before it
  elsewhere,  \* the wallet is on another chain
  transfers,  \* transfers made for the page's invoice
  again       \* ghost: the customer began anew although a request had reached the wallet

vars == <<evm, invoice, shown, missing, busy, told, answers, flow, asked, elsewhere, transfers, again>>
Page == <<shown, missing, busy, told, answers>>
Paying == <<flow, asked, elsewhere, transfers, again>>

Idle == [at |-> "idle", id |-> None, view |-> None, moved |-> FALSE]
Due(v) == Subtotal[v] + (IF evm THEN Tag[v] ELSE 0)

Init ==
  /\ evm \in BOOLEAN
  /\ invoice = [v \in Invoice |-> [status |-> IF v = Mine THEN "draft" ELSE "open", paid |-> 0]]
  /\ shown = None /\ missing = FALSE /\ busy = FALSE /\ told = FALSE /\ answers = {}
  /\ flow = Idle /\ asked = {} /\ elsewhere \in BOOLEAN /\ transfers = {} /\ again = FALSE

-----------------------------------------------------------------------------
(* The organisation.                                                        *)

Issue ==
  /\ invoice[Mine].status = "draft"
  /\ invoice' = [invoice EXCEPT ![Mine].status = "open"]
  /\ UNCHANGED <<evm, Page, Paying>>

Void(v) ==
  /\ invoice[v].status = "open" /\ invoice[v].paid = 0
  /\ invoice' = [invoice EXCEPT ![v].status = "void"]
  /\ UNCHANGED <<evm, Page, Paying>>

\* A receipt covers an invoice when it pays the subtotal; the identifier is extra.
Apply(v, amount) ==
  LET paid == invoice[v].paid + amount
  IN [invoice EXCEPT ![v] = [status |-> IF paid >= Subtotal[v] THEN "paid" ELSE "open", paid |-> paid]]

AllocateByHand(v, amount) ==
  /\ invoice[v].status = "open" /\ invoice' = Apply(v, amount)
  /\ UNCHANGED <<evm, Page, Paying>>

-----------------------------------------------------------------------------
(* The page's polls. They overlap, and answers arrive in any order.         *)

\* What the API answers; the amount is the full one, whatever is paid.
PublicView(v) ==
  IF invoice[v].status = "draft" THEN None
  ELSE [status |-> invoice[v].status, amount |-> Due(v), reference |-> IF evm THEN None ELSE v,
        evm |-> evm]

Served ==
  /\ ~missing /\ Cardinality(answers) < MaxAnswers
  /\ answers' = answers \cup {PublicView(Mine)}
  /\ UNCHANGED <<evm, invoice, shown, missing, busy, told, Paying>>

\* Anything but a success is "not found", an answer of a server that is down too.
Receive(answer) ==
  /\ answers' = answers \ {answer}
  /\ IF answer = None THEN missing' = TRUE /\ UNCHANGED shown
     ELSE shown' = answer /\ UNCHANGED missing
  /\ UNCHANGED <<evm, invoice, busy, told, Paying>>
Down == ~missing /\ missing' = TRUE /\ UNCHANGED <<evm, invoice, shown, busy, told, answers, Paying>>

\* The page offers to pay as long as it shows an open invoice.
Offers == ~missing /\ shown # None /\ shown.status = "open"

-----------------------------------------------------------------------------
(* Paying.                                                                  *)

Made == Cardinality(asked) + Cardinality(transfers)
Click ==
  /\ Offers /\ shown.evm /\ ~busy
  /\ flow' = [Idle EXCEPT !.at = "connect", !.view = shown] /\ busy' = TRUE /\ told' = FALSE
  /\ again' = (again \/ told)
  /\ UNCHANGED <<evm, invoice, shown, missing, answers, asked, elsewhere, transfers>>

Connect ==
  /\ flow.at = "connect" /\ flow' = [flow EXCEPT !.at = "chain"]
  /\ UNCHANGED <<evm, invoice, Page, asked, elsewhere, transfers, again>>

\* A wallet that is elsewhere is asked to switch.
EnsureChain ==
  /\ flow.at = "chain" /\ flow' = [flow EXCEPT !.at = "send"] /\ elsewhere' = FALSE
  /\ UNCHANGED <<evm, invoice, Page, asked, transfers, again>>

\* The request does not name a chain.
AskToSend ==
  /\ flow.at = "send" /\ Made < MaxTransfers
  /\ flow' = [flow EXCEPT !.at = "sending", !.id = Made]
  /\ asked' = asked \cup {[id |-> Made, view |-> flow.view, moved |-> flow.moved]}
  /\ UNCHANGED <<evm, invoice, Page, elsewhere, transfers, again>>

\* The customer, or another site, moves the wallet; the ghost moved marks what
\* the page had already checked.
MoveWallet ==
  /\ elsewhere' = ~elsewhere
  /\ asked' = {[a EXCEPT !.moved = TRUE] : a \in asked}
  /\ flow' = IF flow.at = "send" THEN [flow EXCEPT !.moved = TRUE] ELSE flow
  /\ UNCHANGED <<evm, invoice, Page, transfers, again>>

Transfer(id, view, by, here, moved) ==
  [id |-> id, amount |-> view.amount, reference |-> view.reference, booked |-> None, late |-> FALSE,
   by |-> by, here |-> here, moved |-> moved]
WalletSends(a) ==
  /\ asked' = asked \ {a}
  /\ transfers' = transfers \cup {Transfer(a.id, a.view, "wallet", ~elsewhere, a.moved)}
  /\ IF flow.id = a.id
     THEN flow' = Idle /\ busy' = FALSE /\ told' = TRUE
     ELSE UNCHANGED <<flow, busy, told>>
  /\ UNCHANGED <<evm, invoice, shown, missing, answers, elsewhere, again>>

\* The customer refuses, or the wallet has no account or cannot switch.
Declined ==
  /\ flow # Idle
  /\ flow' = Idle /\ busy' = FALSE
  /\ asked' = {a \in asked : a.id # flow.id}
  /\ UNCHANGED <<evm, invoice, shown, missing, told, answers, elsewhere, transfers, again>>

\* Any wallet can scan the code, which has the chain in it.
Scan ==
  /\ Offers /\ Made < MaxTransfers
  /\ transfers' = transfers \cup {Transfer(Made, shown, "code", TRUE, FALSE)}
  /\ UNCHANGED <<evm, invoice, Page, flow, asked, elsewhere, again>>

\* What the wallet has before it stays there.
Reload ==
  /\ shown' = None /\ missing' = FALSE /\ busy' = FALSE /\ told' = FALSE /\ answers' = {}
  /\ flow' = Idle /\ again' = (again \/ told \/ flow.at = "sending")
  /\ UNCHANGED <<evm, invoice, asked, elsewhere, transfers>>

-----------------------------------------------------------------------------
(* The sync finds the receipt, and its invoice.                             *)

Matches(t) ==
  {v \in Invoice : /\ invoice[v].status = "open"
                   /\ IF evm THEN Due(v) - invoice[v].paid = t.amount ELSE t.reference = v}

\* The ghost late: by then the invoice was closed, or on EVM an invoice was paid in part.
RecordInflow(t) ==
  LET late == \/ invoice[Mine].status # "open"
              \/ evm /\ \E v \in Invoice : invoice[v].status = "open" /\ invoice[v].paid > 0
      Booked(v) == (transfers \ {t}) \cup {[t EXCEPT !.booked = v, !.late = late]}
  IN /\ t.here /\ t.booked = None
     /\ \/ \E v \in Matches(t) : invoice' = Apply(v, t.amount) /\ transfers' = Booked(v)
        \/ Matches(t) = {} /\ transfers' = Booked("unallocated") /\ UNCHANGED invoice
     /\ UNCHANGED <<evm, Page, flow, asked, elsewhere, again>>

Next ==
  \/ Issue \/ \E v \in Invoice : Void(v) \/ \E amount \in Part : AllocateByHand(v, amount)
  \/ Served \/ Down \/ \E answer \in answers : Receive(answer)
  \/ Click \/ Connect \/ EnsureChain \/ AskToSend \/ MoveWallet \/ Declined \/ Scan \/ Reload
  \/ \E a \in asked : WalletSends(a)
  \/ \E t \in transfers : RecordInflow(t)

Spec == Init /\ [][Next]_vars

-----------------------------------------------------------------------------
\* What a customer pays from the page is applied to its invoice, unless by then
\* that was closed or another's remainder had become the amount; it goes to the
\* invoice's chain unless the wallet was moved after the page had checked; the
\* page asks for it once unless the customer begins anew; and it says paid only
\* of what is paid.
CustomerPaysInvoice ==
  /\ \A t \in transfers : /\ t.booked \in {None, Mine} \/ t.late
                          /\ t.here \/ t.moved
  /\ again \/ Cardinality(asked \cup {t \in transfers : t.by = "wallet"}) <= 1
  /\ shown # None /\ shown.status = "paid" => invoice[Mine].status = "paid"
=============================================================================
