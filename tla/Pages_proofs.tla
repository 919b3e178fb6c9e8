---------------------------- MODULE Pages_proofs ----------------------------
(***************************************************************************)
(* Proofs about what the console shows while others act: Verification,       *)
(* Resource, PayPage and ApplicationForm, as MCConsole instantiates them, for *)
(* any owners, applications, texts, paths and bounds.                        *)
(***************************************************************************)
EXTENDS MCConsole, FiniteSets, FiniteSetTheorems, TLAPS

(***************************************************************************)
(* Verification                                                            *)
(***************************************************************************)

\* A case that has not been submitted since it was opened has no statement; a
\* submission under way carries words that were on the screen.
Submissions ==
  /\ case \in {"unstarted", "started"} => submission = None
  /\ case = "pending" => submission # None
  /\ submission # None =>
       /\ submission = told
       /\ late \/ (submission.facts = profile /\ submission.opened = opened)
Reads ==
  /\ save = [o \in Owner |-> save[o]]
  /\ \A o \in Owner :
       /\ save[o].op = "signed" => save[o].signature = save[o].read
       /\ save[o].op = "submit" => save[o].statement = save[o].read /\ save[o].statement # None
WizardInv == opened \in Nat /\ Submissions /\ Reads

LEMMA WizardInit == Wizard!Init => WizardInv
BY DEF Wizard!Init, Wizard!Idle, WizardInv, Submissions, Reads

\* A request moves, the case does not.
LEMMA WizardAsks ==
  ASSUME WizardInv, UNCHANGED <<case, opened, profile, submission, told, late>>, NEW o \in Owner, NEW r,
         save' = [save EXCEPT ![o] = r],
         r.op = "signed" => r.signature = r.read,
         r.op = "submit" => r.statement = r.read /\ r.statement # None
  PROVE  WizardInv'
<1>1. Submissions'
  BY DEF WizardInv, Submissions
<1>2. Reads'
  BY DEF WizardInv, Reads
<1> QED
  BY <1>1, <1>2 DEF WizardInv

\* The case moves, the requests do not.
LEMMA WizardMoves == ASSUME WizardInv, UNCHANGED save, opened' \in Nat, Submissions' PROVE WizardInv'
BY DEF WizardInv, Reads

LEMMA WizardNext == WizardInv /\ Wizard!Next => WizardInv'
<1> SUFFICES ASSUME WizardInv, NEW o \in Owner,
                    \/ Wizard!Start(o) \/ Wizard!Open(o) \/ Wizard!Back(o) \/ Wizard!ReadStatement(o)
                    \/ Wizard!SignAndSubmit(o) \/ Wizard!FinishSave(o) \/ Wizard!BeginSubmit(o)
                    \/ Wizard!FinishSubmit(o) \/ Wizard!Abort(o)
                    \/ \E to \in Wizard!Status : Wizard!Decide(o, to)
                    \/ \E words \in Profile \cup {Draft} : Wizard!Type(o, words)
                    \/ \E next \in {"business", "attest"} : Wizard!BeginSave(o, next)
             PROVE  WizardInv'
  BY DEF Wizard!Next
<1>1. opened \in Nat /\ Submissions /\ Reads
  BY DEF WizardInv
<1>2. CASE Wizard!Start(o)
  <2>1. Submissions'
    BY <1>2 DEF Wizard!Start, Wizard!ClearSubmission, Submissions
  <2>2. opened' \in Nat /\ UNCHANGED save
    BY <1>1, <1>2 DEF Wizard!Start
  <2> QED
    BY <2>1, <2>2, WizardMoves
<1>3. CASE \E to \in Wizard!Status : Wizard!Decide(o, to)
  <2>1. PICK to \in {"verified", "rejected", "expired"} : Wizard!Decide(o, to)
    BY <1>3 DEF Wizard!Decide
  <2>2. Submissions'
    BY <1>1, <2>1 DEF Wizard!Decide, Submissions
  <2>3. opened' \in Nat /\ UNCHANGED save
    BY <1>1, <2>1 DEF Wizard!Decide
  <2> QED
    BY <2>2, <2>3, WizardMoves
<1>4. CASE \/ Wizard!Open(o) \/ Wizard!Back(o) \/ Wizard!ReadStatement(o)
           \/ \E words \in Profile \cup {Draft} : Wizard!Type(o, words)
  <2>1. UNCHANGED <<case, opened, profile, submission, told, late, save>>
    BY <1>4 DEF Wizard!Open, Wizard!Back, Wizard!ReadStatement, Wizard!Type, Wizard!Case
  <2> QED
    BY <1>1, <2>1, WizardMoves DEF Submissions
<1>5. CASE \E next \in {"business", "attest"} : Wizard!BeginSave(o, next)
  <2>1. PICK next \in {"business", "attest"} : Wizard!BeginSave(o, next)
    BY <1>5
  <2> PICK r : r = [op |-> "save", facts |-> tab[o].draft, next |-> next]
    OBVIOUS
  <2>2. save' = [save EXCEPT ![o] = r] /\ UNCHANGED <<case, opened, profile, submission, told, late>>
    BY <2>1 DEF Wizard!BeginSave, Wizard!Case
  <2> QED
    BY <2>2, WizardAsks
<1>6. CASE Wizard!FinishSave(o)
  <2>1. /\ late' = (late \/ case # "started") /\ save' = [save EXCEPT ![o] = Wizard!Idle]
        /\ UNCHANGED <<case, opened, submission, told>>
    BY <1>6 DEF Wizard!FinishSave, Wizard!ProfileLock
  <2>2. Submissions'
    BY <1>1, <2>1 DEF Submissions
  <2>3. Reads'
    BY <1>1, <2>1 DEF Reads, Wizard!Idle
  <2> QED
    BY <1>1, <2>1, <2>2, <2>3 DEF WizardInv
<1>7. CASE Wizard!SignAndSubmit(o)
  <2>1. CASE UNCHANGED save
    <3>1. UNCHANGED <<case, opened, profile, submission, told, late>>
      BY <1>7 DEF Wizard!SignAndSubmit, Wizard!Case
    <3> QED
      BY <1>1, <2>1, <3>1, WizardMoves DEF Submissions
  <2>2. CASE save # save'
    <3> PICK words : words = tab[o].shown
      OBVIOUS
    <3> PICK r : r = [op |-> "signed", signature |-> words, read |-> words]
      OBVIOUS
    <3>1. save' = [save EXCEPT ![o] = r] /\ UNCHANGED <<case, opened, profile, submission, told, late>>
      BY <1>7, <2>2 DEF Wizard!SignAndSubmit, Wizard!Case
    <3> QED
      BY <3>1, WizardAsks
  <2> QED
    BY <2>1, <2>2
<1>8. CASE Wizard!BeginSubmit(o)
  <2> PICK words : words = Wizard!StatementFor(o)
    OBVIOUS
  <2>1. /\ save[o].op = "signed" /\ UNCHANGED <<case, opened, profile, submission, told, late>>
        /\ \/ save' = [save EXCEPT ![o] = Wizard!Idle]
           \/ /\ save' = [save EXCEPT ![o] = [op |-> "submit", statement |-> words, read |-> save[o].read]]
              /\ save[o].signature = words /\ profile \in Profile
    BY <1>8 DEF Wizard!BeginSubmit, Wizard!Case, Wizard!SubmitCheck, Wizard!Complete
  <2>2. CASE save' = [save EXCEPT ![o] = Wizard!Idle]
    <3> PICK r : r = Wizard!Idle
      OBVIOUS
    <3>1. r.op = "idle"
      BY DEF Wizard!Idle
    <3> QED
      BY <2>1, <2>2, <3>1, WizardAsks
  <2>3. CASE /\ save' = [save EXCEPT ![o] = [op |-> "submit", statement |-> words, read |-> save[o].read]]
             /\ save[o].signature = words /\ profile \in Profile
    <3>1. words # None
      <4>1. words \in [facts : Profile, by : Owner, opened : Nat]
        BY <1>1, <2>3 DEF Wizard!StatementFor
      <4> QED
        BY <4>1, NullAssumption
    <3> PICK r : r = [op |-> "submit", statement |-> words, read |-> words]
      OBVIOUS
    <3>2. save' = [save EXCEPT ![o] = r]
      BY <1>1, <2>1, <2>3 DEF Reads
    <3> QED
      BY <2>1, <3>1, <3>2, WizardAsks
  <2> QED
    BY <2>1, <2>2, <2>3
<1>9. CASE Wizard!FinishSubmit(o)
  <2>1. Reads'
    BY <1>1, <1>9 DEF Wizard!FinishSubmit, Reads, Wizard!Idle
  <2>2. Submissions'
    <3>1. CASE UNCHANGED <<case, submission, told, late>>
      BY <1>1, <1>9, <3>1 DEF Wizard!FinishSubmit, Submissions
    <3>2. CASE /\ case' = "pending" /\ submission' = save[o].statement /\ told' = save[o].read
               /\ late' = (late \/ save[o].statement # Wizard!StatementFor(o))
      <4>1. save[o].op = "submit" /\ UNCHANGED <<opened, profile>>
        BY <1>9 DEF Wizard!FinishSubmit
      <4>2. submission' = told' /\ submission' # None
        BY <1>1, <3>2, <4>1 DEF Reads
      <4>3. late' \/ (submission'.facts = profile' /\ submission'.opened = opened')
        <5>1. CASE save[o].statement # Wizard!StatementFor(o)
          BY <3>2, <5>1
        <5>2. CASE save[o].statement = Wizard!StatementFor(o)
          <6>1. submission'.facts = profile /\ submission'.opened = opened
            BY <3>2, <5>2 DEF Wizard!StatementFor
          <6> QED
            BY <4>1, <6>1
        <5> QED
          BY <5>1, <5>2
      <4> QED
        BY <3>2, <4>2, <4>3 DEF Submissions
    <3> QED
      BY <1>9, <3>1, <3>2 DEF Wizard!FinishSubmit
  <2>3. UNCHANGED opened
    BY <1>9 DEF Wizard!FinishSubmit
  <2> QED
    BY <1>1, <2>1, <2>2, <2>3 DEF WizardInv
<1>10. CASE Wizard!Abort(o)
  <2> PICK r : r = Wizard!Idle
    OBVIOUS
  <2>1. r.op = "idle" /\ save' = [save EXCEPT ![o] = r] /\ UNCHANGED <<case, opened, profile, submission, told, late>>
    BY <1>10 DEF Wizard!Abort, Wizard!Idle, Wizard!Case
  <2> QED
    BY <2>1, WizardAsks
<1> QED
  BY <1>2, <1>3, <1>4, <1>5, <1>6, <1>7, <1>8, <1>9, <1>10

LEMMA WizardStep == WizardInv /\ [Next]_<<part, entry, rules, screens>> => WizardInv'
<1> SUFFICES ASSUME WizardInv, [Next]_<<part, entry, rules, screens>> PROVE WizardInv'
  OBVIOUS
<1>1. CASE Wizard!Next
  BY <1>1, WizardNext
<1>2. CASE UNCHANGED wizard
  BY <1>2 DEF wizard, WizardInv, Submissions, Reads
<1> QED
  BY <1>1, <1>2 DEF Next, screens

\* Verification (verification-routes.ts, saveProfile, submit): a case is with a
\* reviewer only with words that their signer had read, and they say what the draft
\* says, unless a save or a submission was written on a check that no longer held.
THEOREM SignedAsRead == Spec => []AttestationHolds
<1>1. Init => WizardInv
  BY WizardInit DEF Init
<1>2. WizardInv => AttestationHolds
  BY DEF WizardInv, Submissions, AttestationHolds, Wizard!AttestationHolds
<1> QED
  BY <1>1, <1>2, WizardStep, PTL DEF Spec

(***************************************************************************)
(* Resource                                                                *)
(***************************************************************************)

\* Nothing that the page asked for is under way: it shows what is there, or an
\* error, or is about to hear of its own mutation.
Settled ==
  inFlight = None /\ ~dropped =>
    ~loading /\ (error \/ mutating = path \/ data = [path |-> path, version |-> version[path]])
\* A request that was not overtaken is about the page's resource, and its answer
\* is not older than the mutations that the page has heard of.
Asked ==
  inFlight # None /\ ~dropped =>
    /\ inFlight.target = path
    /\ inFlight.answer = None \/ mutating = path \/ inFlight.answer = version[path]
PageTypes ==
  /\ version \in [Path -> Nat] /\ path \in Path /\ (mutating # None => mutating \in Path)
  /\ inFlight # None => inFlight = [target |-> inFlight.target, answer |-> inFlight.answer]
PageInv ==
  /\ PageTypes /\ Settled /\ Asked
  /\ ~loading /\ ~error => data.path = path

\* A request is under way as soon as the page asks for one.
LEMMA PageAsks ==
  ASSUME NEW p \in Path, NEW a \in Nat \cup {None} PROVE [target |-> p, answer |-> a] # None
<1>1. [target |-> p, answer |-> a] \in [target : Path, answer : Nat \cup {None}]
  OBVIOUS
<1> QED
  BY <1>1, NullAssumption

LEMMA PageInit == Page!Init => PageInv
BY PageAsks DEF Page!Init, PageInv, PageTypes, Settled, Asked

LEMMA PageLoads ==
  ASSUME PageInv, NEW p \in Path, Page!Load(p), path' = p, mutating' \in {mutating, None},
         UNCHANGED <<version, data, error>>,
         loading' = TRUE \/ (p = path /\ loading' = loading)
  PROVE  PageInv'
<1>1. CASE inFlight # None
  BY <1>1 DEF PageInv, PageTypes, Settled, Asked, Page!Load
<1>2. CASE inFlight = None
  BY <1>2, PageAsks DEF PageInv, PageTypes, Settled, Asked, Page!Load
<1> QED
  BY <1>1, <1>2

LEMMA PageSettles ==
  ASSUME PageInv, inFlight # None, NEW seen, NEW failed \in BOOLEAN, Page!Settle(seen, failed),
         ~failed => inFlight.answer # None /\ seen = [path |-> inFlight.target, version |-> inFlight.answer]
  PROVE  PageInv'
<1>1. /\ inFlight' = None /\ UNCHANGED <<version, path, mutating, dropped>>
      /\ \/ inFlight.target = path /\ data' = seen /\ error' = failed /\ loading' = FALSE
         \/ inFlight.target # path /\ UNCHANGED <<data, error, loading>>
  BY DEF Page!Settle, Page!Current
<1>2. PageTypes' /\ Asked'
  BY <1>1 DEF PageInv, PageTypes, Asked
<1>3. Settled'
  BY <1>1 DEF PageInv, Settled, Asked
<1>4. ~loading' /\ ~error' => data'.path = path'
  BY <1>1 DEF PageInv
<1> QED
  BY <1>2, <1>3, <1>4 DEF PageInv

LEMMA PageNext == PageInv /\ Page!Next => PageInv'
<1> SUFFICES ASSUME PageInv, Page!Next PROVE PageInv'
  OBVIOUS
<1>1. CASE \E p \in Path : Page!Navigate(p)
  BY <1>1, PageLoads DEF Page!Navigate
<1>2. CASE \E p \in Path : Page!Mutate(p)
  <2>1. PICK p \in Path : Page!Mutate(p)
    BY <1>2
  <2>2. /\ mutating = None /\ mutating' = p /\ UNCHANGED <<path, data, error, loading, inFlight, dropped>>
        /\ version' = [version EXCEPT ![p] = @ + 1]
    BY <2>1 DEF Page!Mutate
  <2>3. p = path \/ version'[path] = version[path]
    BY <2>2
  <2>4. mutating # path
    <3>1. path \in Path /\ None \notin Path
      BY NullAssumption DEF PageInv, PageTypes
    <3> QED
      BY <2>2, <3>1
  <2>5. PageTypes'
    BY <2>2 DEF PageInv, PageTypes
  <2>6. Settled'
    BY <2>2, <2>3, <2>4 DEF PageInv, Settled
  <2>7. Asked'
    BY <2>2, <2>3, <2>4 DEF PageInv, Asked
  <2> QED
    BY <2>2, <2>5, <2>6, <2>7 DEF PageInv
<1>3. CASE Page!Poll
  BY <1>3, PageLoads DEF Page!Poll, PageInv, PageTypes
<1>4. CASE Page!Serve
  <2>1. /\ inFlight # None /\ inFlight' = [target |-> inFlight.target, answer |-> version[inFlight.target]]
        /\ UNCHANGED <<version, path, data, error, loading, mutating, dropped>>
    BY <1>4 DEF Page!Serve, PageInv, PageTypes
  <2>2. ~dropped => inFlight' # None
    <3>1. ~dropped => inFlight.target \in Path /\ version[inFlight.target] \in Nat
      BY <2>1 DEF PageInv, PageTypes, Asked
    <3> QED
      BY <2>1, <3>1, PageAsks
  <2>3. PageTypes'
    BY <2>1 DEF PageInv, PageTypes
  <2>4. Asked' /\ Settled'
    BY <2>1, <2>2 DEF PageInv, Asked, Settled
  <2> QED
    BY <2>1, <2>3, <2>4 DEF PageInv
<1>5. CASE Page!Deliver
  BY <1>5, PageSettles DEF Page!Deliver
<1>6. CASE Page!Lose
  BY <1>6, PageSettles DEF Page!Lose
<1>7. CASE Page!Invalidate
  <2>1. /\ mutating # None /\ mutating' = None /\ UNCHANGED <<version, path, data, error, loading>>
        /\ \/ mutating = path /\ Page!Load(path)
           \/ mutating # path /\ UNCHANGED <<inFlight, dropped>>
    BY <1>7 DEF Page!Invalidate
  <2>2. CASE mutating = path /\ Page!Load(path)
    BY <2>1, <2>2, PageLoads DEF PageInv, PageTypes
  <2>3. CASE mutating # path /\ UNCHANGED <<inFlight, dropped>>
    BY <2>1, <2>3 DEF PageInv, PageTypes, Settled, Asked
  <2> QED
    BY <2>1, <2>2, <2>3
<1> QED
  BY <1>1, <1>2, <1>3, <1>4, <1>5, <1>6, <1>7 DEF Page!Next

LEMMA PageStep == PageInv /\ [Next]_<<part, entry, rules, screens>> => PageInv'
<1> SUFFICES ASSUME PageInv, [Next]_<<part, entry, rules, screens>> PROVE PageInv'
  OBVIOUS
<1>1. CASE Page!Next
  BY <1>1, PageNext
<1>2. CASE UNCHANGED page
  BY <1>2 DEF page, PageInv, PageTypes, Settled, Asked
<1> QED
  BY <1>1, <1>2 DEF Next, screens

(***************************************************************************)
(* PayPage                                                                 *)
(***************************************************************************)

\* What the API has said of the page's invoice, at any time.
Amount == Payer!Due(Mine)
Reference == IF evm THEN None ELSE Mine
Of(seen) ==
  /\ seen.amount = Amount /\ seen.reference = Reference
  /\ seen.status = "paid" => invoice[Mine].status = "paid"

Invoices ==
  /\ evm \in BOOLEAN /\ invoice = [v \in Invoice |-> invoice[v]]
  /\ \A v \in Invoice :
       /\ invoice[v] = [status |-> invoice[v].status, paid |-> invoice[v].paid]
       /\ invoice[v].paid \in Nat
Views ==
  /\ \A seen \in answers \cup {shown} : seen # None => Of(seen)
  /\ flow.at # "idle" => Of(flow.view)
  /\ \A a \in asked : Of(a.view)

\* The wallet is on the invoice's chain from the check on, unless it was moved.
Checked ==
  /\ elsewhere \in BOOLEAN
  /\ flow = [at |-> flow.at, id |-> flow.id, view |-> flow.view, moved |-> flow.moved]
  /\ flow.at = "send" => flow.moved \/ ~elsewhere
  /\ \A a \in asked :
       /\ a = [id |-> a.id, view |-> a.view, moved |-> a.moved]
       /\ a.moved \/ ~elsewhere

TransferShape(t) ==
  t \in [id : {t.id}, amount : {t.amount}, reference : {t.reference}, booked : {t.booked},
         late : {t.late}, by : {t.by}, here : {t.here}, moved : {t.moved}]
Transfers ==
  \A t \in transfers :
    /\ TransferShape(t)
    /\ t.amount = Amount /\ t.reference = Reference
    /\ t.booked \in {None, Mine} \/ t.late
    /\ t.here \/ t.moved

\* The customer has been asked for nothing, or once, or has paid by the button.
ByWallet == {t \in transfers : t.by = "wallet"}
Nothing == ~notice /\ flow.at # "sending" /\ asked = {} /\ ByWallet = {}
Once == ~notice /\ flow.at = "sending" /\ ByWallet = {} /\ \E a : asked = {a} /\ a.id = flow.id
Told == notice /\ flow.at = "idle" /\ asked = {} /\ \E t : ByWallet = {t}
Asking ==
  /\ again \in BOOLEAN /\ notice \in BOOLEAN /\ busy \in BOOLEAN
  /\ ~busy => flow.at = "idle"
  /\ again \/ Nothing \/ Once \/ Told

PayerInv == Invoices /\ Views /\ Checked /\ Transfers /\ Asking

LEMMA PayerInit == Payer!Init => PayerInv
<1> SUFFICES ASSUME Payer!Init PROVE PayerInv
  OBVIOUS
<1>1. Invoices
  BY DEF Payer!Init, Invoices
<1>2. flow.at = "idle" /\ shown = None /\ answers = {} /\ asked = {} /\ transfers = {} /\ flow = Payer!Idle
  BY DEF Payer!Init, Payer!Idle
<1>3. Views /\ Transfers
  BY <1>2 DEF Views, Transfers
<1>4. Checked
  BY <1>2 DEF Checked, Payer!Init, Payer!Idle
<1>5. Asking
  BY <1>2 DEF Asking, Nothing, ByWallet, Payer!Init
<1> QED
  BY <1>1, <1>3, <1>4, <1>5 DEF PayerInv

LEMMA AmountKept == ASSUME evm' = evm PROVE Amount' = Amount /\ Reference' = Reference
BY DEF Amount, Reference, Payer!Due

\* What is said of an invoice stays true: a paid one stays paid.
LEMMA SaidStays ==
  ASSUME evm' = evm, invoice[Mine].status = "paid" => invoice'[Mine].status = "paid", NEW seen, Of(seen)
  PROVE  Of(seen)'
BY AmountKept DEF Of

\* The members act on an invoice, or a receipt is applied to it.
LEMMA InvoiceMoves ==
  ASSUME PayerInv, NEW v \in Invoice, NEW to, NEW n \in Nat,
         invoice' = [invoice EXCEPT ![v] = [status |-> to, paid |-> n]],
         v = Mine => invoice[Mine].status # "paid",
         UNCHANGED <<evm, shown, answers, flow, asked>>
  PROVE  Invoices' /\ Views'
<1>1. Invoices'
  BY DEF PayerInv, Invoices
<1>2. invoice[Mine].status = "paid" => invoice'[Mine].status = "paid"
  BY DEF PayerInv, Invoices
<1>3. Views'
  BY <1>2, SaidStays DEF PayerInv, Views
<1> QED
  BY <1>1, <1>3

LEMMA PayerOrganisation ==
  ASSUME PayerInv,
         \/ Payer!Issue
         \/ \E v \in Invoice : Payer!Void(v) \/ \E amount \in {1} : Payer!AllocateByHand(v, amount)
  PROVE  PayerInv'
<1>1. UNCHANGED <<evm, shown, missing, busy, notice, answers, flow, asked, elsewhere, transfers, again>>
  BY DEF Payer!Issue, Payer!Void, Payer!AllocateByHand, Payer!Page, Payer!Paying
<1>2. \E v \in Invoice, to \in {"open", "void", "paid"}, n \in Nat :
        /\ invoice' = [invoice EXCEPT ![v] = [status |-> to, paid |-> n]]
        /\ v = Mine => invoice[Mine].status # "paid"
  <2>1. ASSUME NEW v \in Invoice, NEW to, invoice' = [invoice EXCEPT ![v].status = to]
        PROVE  invoice' = [invoice EXCEPT ![v] = [status |-> to, paid |-> invoice[v].paid]] /\ invoice[v].paid \in Nat
    <3>1. invoice[v] = [status |-> invoice[v].status, paid |-> invoice[v].paid] /\ invoice[v].paid \in Nat
      BY DEF PayerInv, Invoices
    <3>2. [invoice[v] EXCEPT !.status = to] = [status |-> to, paid |-> invoice[v].paid]
      BY <3>1
    <3>3. invoice' = [invoice EXCEPT ![v] = [invoice[v] EXCEPT !.status = to]]
      BY <2>1
    <3> QED
      BY <3>1, <3>2, <3>3
  <2>2. CASE Payer!Issue
    <3>1. Mine \in Invoice /\ invoice' = [invoice EXCEPT ![Mine].status = "open"] /\ invoice[Mine].status # "paid"
      BY <2>2, InvoiceAssumption DEF Payer!Issue
    <3>2. invoice' = [invoice EXCEPT ![Mine] = [status |-> "open", paid |-> invoice[Mine].paid]] /\ invoice[Mine].paid \in Nat
      BY <2>1, <3>1
    <3> QED
      BY <3>1, <3>2
  <2>3. CASE \E v \in Invoice : Payer!Void(v)
    <3>1. PICK v \in Invoice : invoice' = [invoice EXCEPT ![v].status = "void"] /\ invoice[v].status # "paid"
      BY <2>3 DEF Payer!Void
    <3>2. invoice' = [invoice EXCEPT ![v] = [status |-> "void", paid |-> invoice[v].paid]] /\ invoice[v].paid \in Nat
      BY <2>1, <3>1
    <3> QED
      BY <3>1, <3>2
  <2>4. CASE \E v \in Invoice : Payer!AllocateByHand(v, 1)
    <3>1. PICK v \in Invoice : invoice[v].status # "paid" /\ invoice' = Payer!Apply(v, 1)
      BY <2>4 DEF Payer!AllocateByHand
    <3> PICK n : n = invoice[v].paid + 1
      OBVIOUS
    <3>2. n \in Nat
      BY <3>1 DEF PayerInv, Invoices
    <3>3. PICK to \in {"open", "paid"} : invoice' = [invoice EXCEPT ![v] = [status |-> to, paid |-> n]]
      BY <3>1 DEF Payer!Apply
    <3> QED
      BY <3>1, <3>2, <3>3
  <2> QED
    BY <2>2, <2>3, <2>4
<1>3. Invoices' /\ Views'
  BY <1>1, <1>2, InvoiceMoves
<1>4. Checked' /\ Transfers' /\ Asking'
  BY <1>1, AmountKept DEF PayerInv, Checked, Transfers, Asking, Nothing, Once, Told, ByWallet
<1> QED
  BY <1>3, <1>4 DEF PayerInv

LEMMA PayerPolls ==
  ASSUME PayerInv, Payer!Served \/ Payer!Down \/ \E answer \in answers : Payer!Receive(answer)
  PROVE  PayerInv'
<1>1. UNCHANGED <<evm, invoice, busy, notice, flow, asked, elsewhere, transfers, again>>
  BY DEF Payer!Served, Payer!Down, Payer!Receive, Payer!Paying
<1>2. \A seen \in answers' \cup {shown'} : seen \in answers \cup {shown, None} \/ Of(seen)
  <2>1. CASE Payer!Served
    <3>1. Payer!PublicView(Mine) # None => Of(Payer!PublicView(Mine))
      BY DEF Payer!PublicView, Of, Amount, Reference
    <3> QED
      BY <2>1, <3>1 DEF Payer!Served
  <2>2. CASE Payer!Down
    BY <2>2 DEF Payer!Down
  <2>3. CASE \E answer \in answers : Payer!Receive(answer)
    BY <2>3 DEF Payer!Receive
  <2> QED
    BY <2>1, <2>2, <2>3
<1>3. \A seen : Of(seen) => Of(seen)'
  BY <1>1, SaidStays
<1>4. Views'
  BY <1>1, <1>2, <1>3 DEF PayerInv, Views
<1>5. Invoices' /\ Checked' /\ Transfers' /\ Asking'
  BY <1>1, AmountKept DEF PayerInv, Invoices, Checked, Transfers, Asking, Nothing, Once, Told, ByWallet
<1> QED
  BY <1>4, <1>5 DEF PayerInv

\* Steps that leave the invoices and the answers alone.
LEMMA PayerActs ==
  ASSUME PayerInv, UNCHANGED <<evm, invoice>>,
         \A seen \in answers' \cup {shown'} : seen \in answers \cup {shown, None},
         flow'.at # "idle" => Of(flow'.view),
         \A a \in asked' : Of(a.view),
         Checked', Transfers', Asking'
  PROVE  PayerInv'
<1>1. \A seen : Of(seen) => Of(seen)'
  BY SaidStays
<1>2. Views'
  BY <1>1 DEF PayerInv, Views
<1> QED
  BY <1>2 DEF PayerInv, Invoices

LEMMA PayerClicks ==
  ASSUME PayerInv, Payer!Click \/ Payer!Connect \/ Payer!EnsureChain \/ Payer!AskToSend PROVE PayerInv'
<1>1. UNCHANGED <<evm, invoice, shown, missing, answers, transfers>>
  BY DEF Payer!Click, Payer!Connect, Payer!EnsureChain, Payer!AskToSend, Payer!Page
<1>2. Transfers' /\ ByWallet' = ByWallet
  BY <1>1, AmountKept DEF PayerInv, Transfers, ByWallet
<1>3. Views /\ Checked /\ Asking
  BY DEF PayerInv
<1>4. flow = [at |-> flow.at, id |-> flow.id, view |-> flow.view, moved |-> flow.moved]
  BY <1>3 DEF Checked
<1>5. CASE Payer!Click
  <2>1. /\ shown # None /\ ~busy /\ flow' = [at |-> "connect", id |-> None, view |-> shown, moved |-> FALSE]
        /\ busy' = TRUE /\ notice' = FALSE /\ again' = (again \/ notice) /\ UNCHANGED <<asked, elsewhere>>
    BY <1>5 DEF Payer!Click, Payer!Offers, Payer!Idle
  <2>2. Checked'
    BY <1>3, <2>1 DEF Checked
  <2>3. Asking'
    BY <1>2, <1>3, <2>1 DEF Asking, Nothing, Once, Told
  <2>4. Of(flow'.view) /\ \A a \in asked' : Of(a.view)
    BY <1>3, <2>1 DEF Views
  <2> QED
    BY <1>1, <1>2, <2>2, <2>3, <2>4, PayerActs
<1>6. CASE Payer!Connect
  <2>1. /\ flow.at = "connect" /\ flow' = [at |-> "chain", id |-> flow.id, view |-> flow.view, moved |-> flow.moved]
        /\ UNCHANGED <<asked, elsewhere, again, busy, notice>>
    BY <1>4, <1>6 DEF Payer!Connect, Payer!Page
  <2>2. Checked'
    BY <1>3, <2>1 DEF Checked
  <2>3. Asking'
    BY <1>2, <1>3, <2>1 DEF Asking, Nothing, Once, Told
  <2>4. Of(flow'.view) /\ \A a \in asked' : Of(a.view)
    BY <1>3, <2>1 DEF Views
  <2> QED
    BY <1>1, <1>2, <2>2, <2>3, <2>4, PayerActs
<1>7. CASE Payer!EnsureChain
  <2>1. /\ flow.at = "chain" /\ flow' = [at |-> "send", id |-> flow.id, view |-> flow.view, moved |-> flow.moved]
        /\ elsewhere' = FALSE /\ UNCHANGED <<asked, again, busy, notice>>
    BY <1>4, <1>7 DEF Payer!EnsureChain, Payer!Page
  <2>2. Checked'
    BY <1>3, <2>1 DEF Checked
  <2>3. Asking'
    BY <1>2, <1>3, <2>1 DEF Asking, Nothing, Once, Told
  <2>4. Of(flow'.view) /\ \A a \in asked' : Of(a.view)
    BY <1>3, <2>1 DEF Views
  <2> QED
    BY <1>1, <1>2, <2>2, <2>3, <2>4, PayerActs
<1>8. CASE Payer!AskToSend
  <2> PICK id : id = Payer!Made
    OBVIOUS
  <2> PICK a : a = [id |-> id, view |-> flow.view, moved |-> flow.moved]
    OBVIOUS
  <2>1. /\ flow.at = "send" /\ flow' = [at |-> "sending", id |-> id, view |-> flow.view, moved |-> flow.moved]
        /\ asked' = asked \cup {a} /\ UNCHANGED <<elsewhere, again, busy, notice>>
    BY <1>4, <1>8 DEF Payer!AskToSend, Payer!Page
  <2>2. Checked'
    BY <1>3, <2>1 DEF Checked
  <2>3. Asking'
    <3>1. CASE again
      BY <1>3, <2>1, <3>1 DEF Asking
    <3>2. CASE ~again
      <4>1. Nothing
        BY <1>3, <2>1, <3>2 DEF Asking, Once, Told
      <4>2. asked' = {a} /\ a.id = flow'.id
        BY <2>1, <4>1 DEF Nothing
      <4>3. Once'
        BY <1>2, <2>1, <4>1, <4>2 DEF Nothing, Once
      <4> QED
        BY <1>3, <2>1, <4>3 DEF Asking
    <3> QED
      BY <3>1, <3>2
  <2>4. Of(flow'.view) /\ \A b \in asked' : Of(b.view)
    BY <1>3, <2>1 DEF Views
  <2> QED
    BY <1>1, <1>2, <2>2, <2>3, <2>4, PayerActs
<1> QED
  BY <1>5, <1>6, <1>7, <1>8

LEMMA PayerLeaves ==
  ASSUME PayerInv, Payer!MoveWallet \/ Payer!Declined \/ Payer!Reload PROVE PayerInv'
<1>1. UNCHANGED <<evm, invoice, transfers>> /\ \A seen \in answers' \cup {shown'} : seen \in answers \cup {shown, None}
  BY DEF Payer!MoveWallet, Payer!Declined, Payer!Reload, Payer!Page
<1>2. Transfers' /\ ByWallet' = ByWallet
  BY <1>1, AmountKept DEF PayerInv, Transfers, ByWallet
<1>3. Views /\ Checked /\ Asking
  BY DEF PayerInv
<1>4. Payer!Idle = [at |-> "idle", id |-> None, view |-> None, moved |-> FALSE]
  BY DEF Payer!Idle
<1>5. CASE Payer!MoveWallet
  <2> DEFINE Moved(a) == [a EXCEPT !.moved = TRUE]
  <2>1. /\ elsewhere' = ~elsewhere /\ asked' = {Moved(a) : a \in asked} /\ UNCHANGED <<again, busy, notice>>
        /\ flow' = IF flow.at = "send" THEN Moved(flow) ELSE flow
    BY <1>5 DEF Payer!MoveWallet, Payer!Page
  <2>2. \A a : a = [id |-> a.id, view |-> a.view, moved |-> a.moved] =>
               Moved(a) = [id |-> a.id, view |-> a.view, moved |-> TRUE]
    <3>1. ASSUME NEW a, a = [id |-> a.id, view |-> a.view, moved |-> a.moved]
          PROVE  [a EXCEPT !.moved = TRUE] = [id |-> a.id, view |-> a.view, moved |-> TRUE]
      <4> PICK b : b = [a EXCEPT !.moved = TRUE]
        OBVIOUS
      <4>1. a \in [id : {a.id}, view : {a.view}, moved : {a.moved}]
        BY <3>1
      <4>2. b \in [id : {a.id}, view : {a.view}, moved : {TRUE}]
        BY <4>1
      <4> QED
        BY <4>2
    <3> QED
      BY <3>1
  <2>3. Moved(flow) = [at |-> flow.at, id |-> flow.id, view |-> flow.view, moved |-> TRUE]
    <3> PICK b : b = [flow EXCEPT !.moved = TRUE]
      OBVIOUS
    <3>1. flow \in [at : {flow.at}, id : {flow.id}, view : {flow.view}, moved : {flow.moved}]
      BY <1>3 DEF Checked
    <3>2. b \in [at : {flow.at}, id : {flow.id}, view : {flow.view}, moved : {TRUE}]
      BY <3>1
    <3> QED
      BY <3>2
  <2>4. \A a \in asked : Moved(a) = [id |-> a.id, view |-> a.view, moved |-> TRUE]
    BY <1>3, <2>2 DEF Checked
  <2> HIDE DEF Moved
  <2>5. flow'.at = flow.at /\ flow'.view = flow.view /\ flow'.id = flow.id
    BY <2>1, <2>3
  <2>6. Checked'
    <3>1. flow' = [at |-> flow'.at, id |-> flow'.id, view |-> flow'.view, moved |-> flow'.moved]
      BY <1>3, <2>1, <2>3 DEF Checked
    <3>2. flow'.at = "send" => flow'.moved
      BY <2>1, <2>3
    <3>3. \A a \in asked' : a = [id |-> a.id, view |-> a.view, moved |-> a.moved] /\ a.moved
      BY <2>1, <2>4
    <3> QED
      BY <1>3, <2>1, <3>1, <3>2, <3>3 DEF Checked
  <2>7. Asking'
    <3>1. Nothing => Nothing'
      BY <1>2, <2>1, <2>5 DEF Nothing
    <3>2. Once => Once'
      <4> SUFFICES ASSUME Once PROVE Once'
        OBVIOUS
      <4>1. PICK a : asked = {a} /\ a.id = flow.id
        BY DEF Once
      <4>2. asked' = {Moved(a)} /\ Moved(a).id = flow'.id
        BY <2>1, <2>4, <2>5, <4>1
      <4> QED
        BY <1>2, <2>1, <2>5, <4>2 DEF Once
    <3>3. Told => Told'
      BY <1>2, <2>1, <2>5 DEF Told
    <3> QED
      BY <1>3, <2>1, <2>5, <3>1, <3>2, <3>3 DEF Asking
  <2>8. (flow'.at # "idle" => Of(flow'.view)) /\ \A a \in asked' : Of(a.view)
    BY <1>3, <2>1, <2>4, <2>5 DEF Views
  <2> QED
    BY <1>1, <1>2, <2>6, <2>7, <2>8, PayerActs
<1>6. CASE Payer!Declined
  <2>1. /\ flow' = Payer!Idle /\ busy' = FALSE /\ asked' = {a \in asked : a.id # flow.id}
        /\ UNCHANGED <<notice, elsewhere, again>>
    BY <1>6 DEF Payer!Declined
  <2>2. Checked'
    BY <1>3, <1>4, <2>1 DEF Checked
  <2>3. Asking'
    <3>1. (Nothing \/ Once) => Nothing'
      BY <1>2, <1>4, <2>1 DEF Nothing, Once
    <3>2. Told => Told'
      BY <1>2, <1>4, <2>1 DEF Told
    <3> QED
      BY <1>3, <1>4, <2>1, <3>1, <3>2 DEF Asking
  <2>4. flow'.at = "idle" /\ \A a \in asked' : Of(a.view)
    BY <1>3, <1>4, <2>1 DEF Views
  <2> QED
    BY <1>1, <1>2, <2>2, <2>3, <2>4, PayerActs
<1>7. CASE Payer!Reload
  <2>1. /\ flow' = Payer!Idle /\ busy' = FALSE /\ notice' = FALSE /\ UNCHANGED <<asked, elsewhere>>
        /\ again' = (again \/ notice \/ flow.at = "sending")
    BY <1>7 DEF Payer!Reload
  <2>2. Checked'
    BY <1>3, <1>4, <2>1 DEF Checked
  <2>3. Asking'
    BY <1>2, <1>3, <1>4, <2>1 DEF Asking, Nothing, Once, Told
  <2>4. flow'.at = "idle" /\ \A a \in asked' : Of(a.view)
    BY <1>3, <1>4, <2>1 DEF Views
  <2> QED
    BY <1>1, <1>2, <2>2, <2>3, <2>4, PayerActs
<1> QED
  BY <1>5, <1>6, <1>7

LEMMA TransferMade ==
  ASSUME NEW id, NEW v, NEW by, NEW here, NEW moved, NEW t, t = Payer!Transfer(id, v, by, here, moved)
  PROVE  /\ TransferShape(t) /\ t.amount = v.amount /\ t.reference = v.reference /\ t.booked = None
         /\ t.by = by /\ t.here = here /\ t.moved = moved
BY DEF TransferShape, Payer!Transfer

\* A transfer is made: by the wallet that was asked, or by one that scanned the code.
LEMMA PayerPays ==
  ASSUME PayerInv, Payer!Scan \/ \E a \in asked : Payer!WalletSends(a) PROVE PayerInv'
<1>1. UNCHANGED <<evm, invoice, shown, missing, answers, elsewhere, again>>
  BY DEF Payer!Scan, Payer!WalletSends, Payer!Page
<1>2. Views /\ Checked /\ Asking /\ Transfers
  BY DEF PayerInv
<1>3. Payer!Idle = [at |-> "idle", id |-> None, view |-> None, moved |-> FALSE]
  BY DEF Payer!Idle
<1>4. CASE Payer!Scan
  <2> PICK t : t = Payer!Transfer(Payer!Made, shown, "code", TRUE, FALSE)
    OBVIOUS
  <2>1. shown # None /\ transfers' = transfers \cup {t} /\ UNCHANGED <<flow, asked, notice, busy>>
    BY <1>4 DEF Payer!Scan, Payer!Offers, Payer!Page
  <2>2. TransferShape(t) /\ t.amount = shown.amount /\ t.reference = shown.reference /\ t.booked = None
        /\ t.by = "code" /\ t.here
    <3> PICK id : id = Payer!Made
      OBVIOUS
    <3> DEFINE Right(x) == /\ TransferShape(x) /\ x.amount = shown.amount /\ x.reference = shown.reference
                          /\ x.booked = None /\ x.by = "code"
    <3>1. ASSUME NEW h, NEW m, NEW x, x = Payer!Transfer(id, shown, "code", h, m) PROVE Right(x) /\ x.here = h
      BY <3>1, TransferMade
    <3> HIDE DEF Right
    <3>2. ASSUME NEW h, NEW m, h, ~m, t = Payer!Transfer(id, shown, "code", h, m) PROVE Right(t) /\ t.here
      BY <3>1, <3>2
    <3>3. Right(t) /\ t.here
      BY <3>2
    <3> QED
      BY <3>3 DEF Right
  <2>3. Transfers'
    <3>1. Of(shown)
      BY <1>2, <2>1 DEF Views
    <3> QED
      BY <1>1, <1>2, <2>1, <2>2, <3>1, AmountKept DEF Transfers, Of
  <2>4. ByWallet' = ByWallet
    BY <2>1, <2>2 DEF ByWallet
  <2>5. Checked' /\ Asking'
    BY <1>1, <1>2, <2>1, <2>4 DEF Checked, Asking, Nothing, Once, Told
  <2>6. (flow'.at # "idle" => Of(flow'.view)) /\ \A a \in asked' : Of(a.view)
    BY <1>2, <2>1 DEF Views
  <2> QED
    BY <1>1, <2>3, <2>5, <2>6, PayerActs
<1>5. CASE \E a \in asked : Payer!WalletSends(a)
  <2>1. PICK a \in asked : Payer!WalletSends(a)
    BY <1>5
  <2> PICK t : t = Payer!Transfer(a.id, a.view, "wallet", ~elsewhere, a.moved)
    OBVIOUS
  <2>2. /\ asked' = asked \ {a} /\ transfers' = transfers \cup {t}
        /\ IF flow.id = a.id THEN flow' = Payer!Idle /\ busy' = FALSE /\ notice' = TRUE
           ELSE UNCHANGED <<flow, busy, notice>>
    BY <2>1 DEF Payer!WalletSends
  <2>3. TransferShape(t) /\ t.amount = a.view.amount /\ t.reference = a.view.reference /\ t.booked = None
        /\ t.by = "wallet" /\ t.here = ~elsewhere /\ t.moved = a.moved
    BY TransferMade
  <2>4. Transfers'
    <3>1. Of(a.view) /\ (a.moved \/ ~elsewhere)
      BY <1>2 DEF Views, Checked
    <3>2. t.here \/ t.moved
      BY <2>3, <3>1
    <3> QED
      BY <1>1, <1>2, <2>2, <2>3, <3>1, <3>2, AmountKept DEF Transfers, Of
  <2>5. ByWallet' = ByWallet \cup {t}
    BY <2>2, <2>3 DEF ByWallet
  <2>6. Checked'
    BY <1>1, <1>2, <1>3, <2>2 DEF Checked
  <2>7. Asking'
    <3>1. CASE flow.id = a.id
      <4>1. flow'.at = "idle" /\ flow'.id = None /\ busy' = FALSE /\ notice' = TRUE
        BY <1>3, <2>2, <3>1
      <4>2. CASE again
        BY <1>1, <4>1, <4>2 DEF Asking
      <4>3. CASE ~again
        <5>1. Once
          BY <1>2, <4>3 DEF Asking, Nothing, Told
        <5>2. asked' = {} /\ ByWallet' = {t}
          BY <2>2, <2>5, <5>1 DEF Once
        <5>3. Told'
          BY <4>1, <5>2 DEF Told
        <5> QED
          BY <1>1, <1>2, <4>1, <5>3 DEF Asking
      <4> QED
        BY <4>2, <4>3, <1>2 DEF Asking
    <3>2. CASE flow.id # a.id
      <4>1. UNCHANGED <<flow, busy, notice>>
        BY <2>2, <3>2
      <4>2. again
        BY <1>2, <3>2 DEF Asking, Nothing, Once, Told
      <4> QED
        BY <1>1, <1>2, <4>1, <4>2 DEF Asking
    <3> QED
      BY <3>1, <3>2
  <2>8. (flow'.at # "idle" => Of(flow'.view)) /\ \A b \in asked' : Of(b.view)
    BY <1>2, <1>3, <2>2 DEF Views
  <2> QED
    BY <1>1, <2>4, <2>6, <2>7, <2>8, PayerActs
<1> QED
  BY <1>4, <1>5

\* A receipt that is found before anything is closed or paid in part has one invoice.
LEMMA PayerBooks == ASSUME PayerInv, NEW t \in transfers, Payer!RecordInflow(t) PROVE PayerInv'
<1> DEFINE tooLate == \/ invoice[Mine].status # "open"
                      \/ evm /\ \E v \in Invoice : invoice[v].status = "open" /\ invoice[v].paid > 0
<1>1. PICK where \in Invoice \cup {"unallocated"} :
        /\ transfers' = (transfers \ {t}) \cup {[t EXCEPT !.booked = where, !.late = tooLate]}
        /\ \/ where \in Payer!Matches(t) /\ invoice' = Payer!Apply(where, t.amount)
           \/ where = "unallocated" /\ Payer!Matches(t) = {} /\ UNCHANGED invoice
  <2>1. Payer!Matches(t) \subseteq Invoice
    BY DEF Payer!Matches
  <2> QED
    BY <2>1 DEF Payer!RecordInflow
<1>2. UNCHANGED <<evm, shown, missing, busy, notice, answers, flow, asked, elsewhere, again>>
  BY DEF Payer!RecordInflow, Payer!Page
<1>3. Invoices /\ Views /\ Checked /\ Transfers /\ Asking
  BY DEF PayerInv
<1>4. TransferShape(t) /\ t.amount = Amount /\ t.reference = Reference
  BY <1>3 DEF Transfers
<1> PICK l \in BOOLEAN : l = tooLate
  OBVIOUS
<1>5. l \/ where = Mine
  <2> SUFFICES ASSUME ~l PROVE where = Mine
    OBVIOUS
  <2>1. Mine \in Invoice /\ invoice[Mine].status = "open"
    BY InvoiceAssumption
  <2>2. \A v \in Invoice : Payer!Due(v) \in Nat /\ (v # Mine => Payer!Due(v) # Amount)
    BY <1>3, InvoiceAssumption DEF Invoices, Payer!Due, Amount
  <2>3. evm => \A v \in Invoice : invoice[v].status = "open" => invoice[v].paid = 0
    BY <1>3 DEF Invoices
  <2>4. \A v \in Payer!Matches(t) : v = Mine
    BY <1>3, <1>4, <2>2, <2>3 DEF Payer!Matches, Reference, Invoices
  <2>5. Mine \in Payer!Matches(t)
    BY <1>3, <1>4, <2>1, <2>2, <2>3 DEF Payer!Matches, Reference, Amount, Invoices
  <2> QED
    BY <1>1, <2>4, <2>5
<1> HIDE DEF tooLate
<1> PICK u : u = [t EXCEPT !.booked = where, !.late = l]
  OBVIOUS
<1>6. TransferShape(u) /\ u.amount = t.amount /\ u.reference = t.reference /\ u.by = t.by /\ u.here = t.here
      /\ u.moved = t.moved /\ u.booked = where /\ u.late = l
  BY <1>4 DEF TransferShape
<1>7. transfers' = (transfers \ {t}) \cup {u}
  BY <1>1
<1>8. Transfers'
  BY <1>2, <1>3, <1>5, <1>6, <1>7, AmountKept DEF Transfers
<1>9. Invoices' /\ Views'
  <2>1. CASE where \in Payer!Matches(t) /\ invoice' = Payer!Apply(where, t.amount)
    <3> PICK n : n = invoice[where].paid + t.amount
      OBVIOUS
    <3>1. where \in Invoice /\ invoice[where].status # "paid" /\ n \in Nat
      BY <1>3, <1>4, <2>1, InvoiceAssumption DEF Payer!Matches, Invoices, Amount, Payer!Due
    <3>2. PICK to \in {"open", "paid"} : invoice' = [invoice EXCEPT ![where] = [status |-> to, paid |-> n]]
      BY <2>1 DEF Payer!Apply
    <3> QED
      BY <1>2, <3>1, <3>2, InvoiceMoves
  <2>2. CASE UNCHANGED invoice
    <3>1. \A seen : Of(seen) => Of(seen)'
      BY <1>2, <2>2, SaidStays
    <3> QED
      BY <1>2, <1>3, <2>2, <3>1 DEF Invoices, Views
  <2> QED
    BY <1>1, <2>1, <2>2
<1>10. Checked'
  BY <1>2, <1>3 DEF Checked
<1>11. Asking'
  <2>1. ByWallet' = IF t.by = "wallet" THEN (ByWallet \ {t}) \cup {u} ELSE ByWallet
    BY <1>6, <1>7 DEF ByWallet
  <2>2. t.by = "wallet" => t \in ByWallet
    BY DEF ByWallet
  <2>3. (Nothing => Nothing') /\ (Once => Once')
    BY <1>2, <2>1, <2>2 DEF Nothing, Once
  <2>4. Told => Told'
    BY <1>2, <2>1, <2>2 DEF Told
  <2> QED
    BY <1>2, <1>3, <2>3, <2>4 DEF Asking
<1> QED
  BY <1>8, <1>9, <1>10, <1>11 DEF PayerInv

LEMMA PayerNext == PayerInv /\ Payer!Next => PayerInv'
BY PayerOrganisation, PayerPolls, PayerClicks, PayerLeaves, PayerPays, PayerBooks DEF Payer!Next

LEMMA PayerStep == PayerInv /\ [Next]_<<part, entry, rules, screens>> => PayerInv'
<1> SUFFICES ASSUME PayerInv, [Next]_<<part, entry, rules, screens>> PROVE PayerInv'
  OBVIOUS
<1>1. CASE Payer!Next
  BY <1>1, PayerNext
<1>2. CASE UNCHANGED payer
  <2>1. UNCHANGED <<evm, invoice, shown, missing, busy, notice, answers, flow, asked, elsewhere, transfers, again>>
    BY <1>2 DEF payer
  <2>2. Checked' /\ Transfers' /\ Asking'
    BY <2>1, AmountKept DEF PayerInv, Checked, Transfers, Asking, Nothing, Once, Told, ByWallet
  <2>3. (flow'.at # "idle" => Of(flow'.view)) /\ \A a \in asked' : Of(a.view)
    BY <2>1 DEF PayerInv, Views
  <2> QED
    BY <2>1, <2>2, <2>3, PayerActs
<1> QED
  BY <1>1, <1>2 DEF Next, screens

LEMMA PayerPaysInvoice == PayerInv => Payer!CustomerPaysInvoice
<1> SUFFICES ASSUME PayerInv PROVE Payer!CustomerPaysInvoice
  OBVIOUS
<1>1. \A t \in transfers : (t.booked \in {None, Mine} \/ t.late) /\ (t.here \/ t.moved)
  BY DEF PayerInv, Transfers
<1>2. again \/ Payer!Cardinality(asked \cup {t \in transfers : t.by = "wallet"}) <= 1
  <2> SUFFICES ASSUME ~again PROVE Payer!Cardinality(asked \cup ByWallet) <= 1
    BY DEF ByWallet
  <2>1. asked \cup ByWallet = {} \/ \E a : asked \cup ByWallet = {a}
    BY DEF PayerInv, Asking, Nothing, Once, Told
  <2>2. Cardinality(asked \cup ByWallet) <= 1
    BY <2>1, FS_EmptySet, FS_Singleton
  <2> QED
    BY <2>2 DEF Cardinality, Payer!Cardinality
<1>3. shown # None /\ shown.status = "paid" => invoice[Mine].status = "paid"
  BY DEF PayerInv, Views, Of
<1> QED
  BY <1>1, <1>2, <1>3 DEF Payer!CustomerPaysInvoice

\* Resource and PayPage (useApi, the pay page, recordInflow): what a page shows once
\* it has settled is there, unless a load was dropped; and what a customer pays goes to
\* the invoice's chain and reaches that invoice, once, for any number of other invoices
\* that ask for something else, polls that overlap and wallets that are moved.
THEOREM ShowsWhatIsThere == Spec => []ShownIsCurrent
<1>1. Init => PageInv /\ PayerInv
  BY PageInit, PayerInit DEF Init
<1>2. PageInv /\ PayerInv /\ [Next]_<<part, entry, rules, screens>> => (PageInv /\ PayerInv)'
  BY PageStep, PayerStep
<1>3. PageInv => Page!ShownIsCurrent
  <2> SUFFICES ASSUME PageInv PROVE Page!ShownIsCurrent
    OBVIOUS
  <2>1. path # None
    <3>1. path \in Path /\ None \notin Path
      BY NullAssumption DEF PageInv, PageTypes
    <3> QED
      BY <3>1
  <2> QED
    BY <2>1 DEF PageInv, Settled, Page!ShownIsCurrent
<1>4. PageInv /\ PayerInv => ShownIsCurrent
  BY <1>3, PayerPaysInvoice DEF ShownIsCurrent
<1> QED
  BY <1>1, <1>2, <1>4, PTL DEF Spec

(***************************************************************************)
(* ApplicationForm                                                         *)
(***************************************************************************)

\* The fields of the open form and of the save under way.
FormShape ==
  /\ form # None => form = [step |-> form.step, draft |-> form.draft, marks |-> form.marks, statement |-> form.statement]
  /\ saving # None => saving.next \in {"business", "attest"}

\* Unless the owner typed or another owner saved since, the page of the statement
\* shows the facts that are stored, and a save under way carries what is on the page.
Matching ==
  ~apart =>
    /\ saving = None /\ form # None /\ form.step = "attest" => Form!Parsed(Form!ForApi(form.draft)) = facts
    /\ saving # None /\ form # None => form.step = "business" /\ saving.body = Form!ForApi(form.draft)

FormInv == FormShape /\ Matching /\ SignsWhatThePageShows

LEMMA FormMounts ==
  ASSUME NEW stored
  PROVE  /\ Form!Mounted(stored).step = "business"
         /\ Form!Mounted(stored) = [step |-> Form!Mounted(stored).step, draft |-> Form!Mounted(stored).draft,
                                    marks |-> Form!Mounted(stored).marks, statement |-> Form!Mounted(stored).statement]
  BY DEF Form!Mounted

LEMMA FormInit == Form!Init => FormInv
<1> SUFFICES ASSUME Form!Init PROVE FormInv
  OBVIOUS
<1>1. saving = None /\ signed = None /\ (form = None \/ form = Form!Mounted(facts))
  BY DEF Form!Init
<1>2. FormShape /\ Matching
  BY <1>1, FormMounts DEF FormShape, Matching
<1> QED
  BY <1>1, <1>2 DEF FormInv, SignsWhatThePageShows, Form!SignsWhatThePageShows

\* What is shown changes by the rules of reading the case.
LEMMA FormReads ==
  ASSUME NEW st, NEW stored, NEW kept, Form!Read(st, stored, kept)
  PROVE  form' = None \/ form' = Form!Mounted(stored) \/ (st = "started" /\ kept # None /\ form' = kept)
  BY DEF Form!Read

\* A form that is closed or started anew, with no save under way.
LEMMA FormAnew ==
  ASSUME FormInv, saving' = None, signed' = signed, form' = None \/ \E stored : form' = Form!Mounted(stored)
  PROVE  FormInv'
<1>1. FormShape' /\ Matching'
  BY FormMounts DEF FormShape, Matching
<1> QED
  BY <1>1 DEF FormInv, SignsWhatThePageShows, Form!SignsWhatThePageShows

\* The owner types, or another owner saves.
LEMMA FormApart ==
  ASSUME FormInv, FormShape', apart', signed' = signed
  PROVE  FormInv'
BY DEF FormInv, Matching, SignsWhatThePageShows, Form!SignsWhatThePageShows

\* A form that stays on its page with its draft, beside facts and saves that stay.
LEMMA FormStays ==
  ASSUME FormInv, UNCHANGED <<saving, signed, facts, apart>>,
         \/ form' = None
         \/ form # None /\ FormShape' /\ form'.draft = form.draft /\ (form'.step = form.step \/ form'.step = "business")
         \/ form' = form
  PROVE  FormInv'
BY DEF FormInv, FormShape, Matching, SignsWhatThePageShows, Form!SignsWhatThePageShows

LEMMA SavingStep ==
  ASSUME FormInv, \/ Form!EndSave \/ Form!LoseAnswer \/ \E n \in {"business", "attest"} : Form!BeginSave(n)
  PROVE  FormInv'
<1>0. FormShape /\ Matching
  BY DEF FormInv
<1>1. CASE \E n \in {"business", "attest"} : Form!BeginSave(n)
  <2>1. PICK n \in {"business", "attest"} : Form!BeginSave(n)
    BY <1>1
  <2>2. /\ form # None /\ form.step = "business" /\ UNCHANGED <<form, signed>>
        /\ saving' = [body |-> Form!ForApi(form.draft), next |-> n]
    BY <2>1 DEF Form!BeginSave, Form!Filling
  <2>3. saving'.body = Form!ForApi(form.draft) /\ saving'.next = n
    BY <2>2
  <2>4. FormShape'
    BY <1>0, <2>2, <2>3 DEF FormShape
  <2>5. Matching'
    BY <2>2, <2>3 DEF Matching
  <2> QED
    BY <2>2, <2>4, <2>5 DEF FormInv, SignsWhatThePageShows, Form!SignsWhatThePageShows
<1>2. CASE Form!EndSave
  <2>1. saving # None /\ saving' = None /\ UNCHANGED <<signed, apart>>
    BY <1>2 DEF Form!EndSave
  <2>2. CASE Form!Lands
    <3> PICK g : g = IF form = None THEN None ELSE [form EXCEPT !.marks = {}, !.step = saving.next]
      OBVIOUS
    <3>1. facts' = Form!Parsed(saving.body) /\ Form!Read(stage, facts', g)
      BY <1>2, <2>2 DEF Form!EndSave
    <3>2. CASE form' = None \/ form' = Form!Mounted(facts')
      BY <2>1, <3>2, FormAnew
    <3>3. CASE g # None /\ form' = g
      <4>1. form # None /\ g = [step |-> saving.next, draft |-> form.draft, marks |-> {}, statement |-> form.statement]
        BY <1>0, <3>3 DEF FormShape
      <4>2. g.draft = form.draft
        BY <4>1
      <4>3. FormShape'
        BY <2>1, <3>3, <4>1 DEF FormShape
      <4>4. Matching'
        BY <1>0, <2>1, <3>1, <3>3, <4>1, <4>2 DEF Matching
      <4> QED
        BY <2>1, <4>3, <4>4 DEF FormInv, SignsWhatThePageShows, Form!SignsWhatThePageShows
    <3> QED
      BY <3>1, <3>2, <3>3, FormReads
  <2>3. CASE ~Form!Lands
    <3> PICK marked : form' = IF form = None THEN None ELSE [form EXCEPT !.marks = marked]
      BY <1>2, <2>3 DEF Form!EndSave
    <3>1. form # None => form' = [step |-> form.step, draft |-> form.draft, marks |-> marked, statement |-> form.statement]
      BY <1>0 DEF FormShape
    <3>2. FormShape' /\ Matching'
      BY <1>0, <2>1, <3>1 DEF FormShape, Matching
    <3> QED
      BY <2>1, <3>2 DEF FormInv, SignsWhatThePageShows, Form!SignsWhatThePageShows
  <2> QED
    BY <2>2, <2>3
<1>3. CASE Form!LoseAnswer
  <2>1. /\ saving # None /\ saving' = None /\ UNCHANGED <<signed, apart>>
        /\ form' = IF form = None THEN None ELSE [form EXCEPT !.marks = {}]
    BY <1>3 DEF Form!LoseAnswer
  <2>2. form # None => form' = [step |-> form.step, draft |-> form.draft, marks |-> {}, statement |-> form.statement]
    BY <1>0, <2>1 DEF FormShape
  <2>3. FormShape' /\ Matching'
    BY <1>0, <2>1, <2>2 DEF FormShape, Matching
  <2> QED
    BY <2>1, <2>3 DEF FormInv, SignsWhatThePageShows, Form!SignsWhatThePageShows
<1> QED
  BY <1>1, <1>2, <1>3

LEMMA SigningStep == ASSUME FormInv, Form!SignAndSubmit PROVE FormInv'
<1>0. FormShape /\ Matching
  BY DEF FormInv
<1> PICK fresh : fresh = Form!AttestationStatement(facts)
  OBVIOUS
<1>1. /\ saving = None /\ form # None /\ form.step = "attest" /\ UNCHANGED <<facts, saving, apart>>
      /\ IF fresh # form.statement
         THEN form' = [form EXCEPT !.statement = fresh] /\ UNCHANGED signed
         ELSE /\ Form!Read("pending", facts, None)
              /\ signed' = [page |-> Form!AttestationStatement(Form!Parsed(Form!ForApi(form.draft))),
                            words |-> fresh, apart |-> apart]
  BY DEF Form!SignAndSubmit, Form!Idle
<1>2. CASE fresh # form.statement
  <2>1. form' = [step |-> form.step, draft |-> form.draft, marks |-> form.marks, statement |-> fresh]
    BY <1>0, <1>1, <1>2 DEF FormShape
  <2>2. FormShape'
    BY <1>1, <2>1 DEF FormShape
  <2> QED
    BY <1>1, <1>2, <2>1, <2>2, FormStays
<1>3. CASE fresh = form.statement
  <2>1. form' = None
    BY <1>1, <1>3 DEF Form!Read
  <2>2. FormShape' /\ Matching'
    BY <1>1, <2>1 DEF FormShape, Matching
  <2>3. ~apart => Form!Parsed(Form!ForApi(form.draft)) = facts
    BY <1>0, <1>1 DEF Matching
  <2>4. /\ signed'.page = Form!AttestationStatement(Form!Parsed(Form!ForApi(form.draft)))
        /\ signed'.words = fresh /\ signed'.apart = apart
    BY <1>1, <1>3
  <2>5. SignsWhatThePageShows'
    <3>1. CASE apart
      BY <2>4, <3>1 DEF SignsWhatThePageShows, Form!SignsWhatThePageShows
    <3>2. CASE ~apart
      BY <2>3, <2>4, <3>2 DEF SignsWhatThePageShows, Form!SignsWhatThePageShows
    <3> QED
      BY <3>1, <3>2
  <2> QED
    BY <2>2, <2>5 DEF FormInv
<1> QED
  BY <1>2, <1>3

LEMMA FormNext == ASSUME FormInv, Form!Next PROVE FormInv'
<1>0. FormShape /\ Matching
  BY DEF FormInv
<1>1. CASE Form!Load \/ Form!Start
  <2>1. /\ saving' = None /\ signed' = signed
        /\ \E st : Form!Read(st, facts', None)
    BY <1>1 DEF Form!Load, Form!Start, Form!Idle
  <2>2. form' = None \/ form' = Form!Mounted(facts')
    BY <2>1, FormReads
  <2> QED
    BY <2>1, <2>2, FormAnew
<1>2. CASE Form!EndSave \/ Form!LoseAnswer \/ \E n \in {"business", "attest"} : Form!BeginSave(n)
  BY <1>2, SavingStep
<1>3. CASE Form!ReadAttestation
  <2>1. form # None /\ UNCHANGED <<saving, signed, facts, apart>>
    BY <1>3 DEF Form!ReadAttestation
  <2>2. form' = [step |-> form.step, draft |-> form.draft, marks |-> form.marks,
                 statement |-> Form!AttestationStatement(facts)]
    BY <1>0, <1>3 DEF Form!ReadAttestation, FormShape
  <2>3. FormShape'
    BY <1>0, <2>1, <2>2 DEF FormShape
  <2> QED
    BY <2>1, <2>2, <2>3, FormStays
<1>4. CASE Form!BackToBusiness
  <2>1. form # None /\ UNCHANGED <<saving, signed, facts, apart>>
    BY <1>4 DEF Form!BackToBusiness
  <2>2. form' = [step |-> "business", draft |-> form.draft, marks |-> form.marks, statement |-> form.statement]
    BY <1>0, <1>4 DEF Form!BackToBusiness, FormShape
  <2>3. FormShape'
    BY <1>0, <2>1, <2>2 DEF FormShape
  <2> QED
    BY <2>1, <2>2, <2>3, FormStays
<1>5. CASE Form!SignAndSubmit
  BY <1>5, SigningStep
<1>6. CASE \E f \in Form!Field, t \in Sample \cup {Form!Blank} : Form!Type(f, t)
  <2>1. PICK f \in Form!Field, t \in Sample \cup {Form!Blank} : Form!Type(f, t)
    BY <1>6
  <2>2. apart' = TRUE /\ UNCHANGED <<saving, signed>> /\ form # None /\ form' = [form EXCEPT !.draft[f] = t]
    BY <2>1 DEF Form!Type, Form!Filling
  <2> PICK d : d = [form.draft EXCEPT ![f] = t]
    OBVIOUS
  <2>3. form' = [step |-> form.step, draft |-> d, marks |-> form.marks, statement |-> form.statement]
    BY <1>0, <2>2 DEF FormShape
  <2>4. FormShape'
    BY <1>0, <2>2, <2>3 DEF FormShape
  <2> QED
    BY <2>2, <2>4, FormApart
<1>7. CASE Form!OpenDialog \/ Form!Cancel \/ \E choice \in Form!DecisionStatuses : Form!Choose(choice)
  BY <1>7, FormStays DEF Form!OpenDialog, Form!Cancel, Form!Choose
<1>8. CASE \E reason \in Remark : Form!RecordDecision(reason)
  <2>1. UNCHANGED <<saving, signed, facts, apart>> /\ Form!Read(decision, facts, form) /\ decision # "started"
    BY <1>8 DEF Form!RecordDecision, Form!DecisionStatuses
  <2>2. form' = None
    BY <2>1 DEF Form!Read
  <2> QED
    BY <2>1, <2>2, FormStays
<1>9. CASE \E stored \in Elsewhere : Form!OtherSaves(stored)
  <2>1. apart' = TRUE /\ UNCHANGED <<form, saving, signed>>
    BY <1>9 DEF Form!OtherSaves
  <2>2. FormShape'
    BY <1>0, <2>1 DEF FormShape
  <2> QED
    BY <2>1, <2>2, FormApart
<1>10. CASE \E to \in DOMAIN Form!Transitions : Form!OtherMoves(to)
  BY <1>10, FormStays DEF Form!OtherMoves
<1> QED
  BY <1>1, <1>2, <1>3, <1>4, <1>5, <1>6, <1>7, <1>8, <1>9, <1>10 DEF Form!Next

LEMMA FormStep == FormInv /\ [Next]_<<part, entry, rules, screens>> => FormInv'
<1> SUFFICES ASSUME FormInv, [Next]_<<part, entry, rules, screens>> PROVE FormInv'
  OBVIOUS
<1>1. CASE Form!Next
  BY <1>1, FormNext
<1>2. CASE UNCHANGED application
  BY <1>2 DEF application, FormInv, FormShape, Matching, SignsWhatThePageShows, Form!SignsWhatThePageShows
<1> QED
  BY <1>1, <1>2 DEF Next, screens

\* ApplicationForm (verification-application.tsx): the facts on the page that an owner
\* signs are those that the signed words state, through saves that are refused, lost or
\* answered late, reloads and decisions of a reviewer, unless the owner typed during a
\* save or another owner saved since.
THEOREM SignsThePage == Spec => []SignsWhatThePageShows
<1>1. Init => FormInv
  BY FormInit DEF Init
<1>2. FormInv => SignsWhatThePageShows
  BY DEF FormInv
<1> QED
  BY <1>1, <1>2, FormStep, PTL DEF Spec

\* A text, a draft, a body on its way to the API and what the API has stored of one.
TextFits(t) ==
  /\ t = [length |-> t.length, padded |-> t.padded, lower |-> t.lower,
          longRun |-> t.longRun, pasted |-> t.pasted, reads |-> t.reads]
  /\ t.length \in Nat /\ {t.padded, t.lower, t.longRun, t.pasted} \subseteq BOOLEAN
  /\ t.length = 0 => ~t.longRun /\ ~t.pasted /\ t.reads = {}
  /\ t.pasted => t.reads \cap {"register", "type", "jurisdiction", "country"} = {}
DraftFits(d) == d = [f \in Form!Field |-> d[f]] /\ \A f \in Form!Field : TextFits(d[f])
BodyFits(b) ==
  /\ DOMAIN b \subseteq Form!Field /\ Form!Field \ Form!Optional \subseteq DOMAIN b
  /\ b = [f \in DOMAIN b |-> b[f]]
  /\ \A f \in DOMAIN b : TextFits(b[f]) /\ Form!Trim(b[f]) = b[f]
StoredFits(e) ==
  /\ DOMAIN e \subseteq Form!Field /\ Form!Field \ Form!Optional \subseteq DOMAIN e
  /\ e = [f \in DOMAIN e |-> e[f]]
  /\ \A f \in DOMAIN e : /\ TextFits(e[f]) /\ e[f].length > 0
                         /\ Form!Accepts(f, e[f]) /\ Form!Parse(f, e[f]) = e[f]

\* The reviewer's choice is one that the dialog offers.
ChoiceFits ==
  /\ {stage, view.status} \subseteq DOMAIN Form!Transitions
  /\ decision # None => decision \in Form!DecisionOptions(view.status)

AgreeInv ==
  /\ form # None => DraftFits(form.draft)
  /\ saving # None => BodyFits(saving.body)
  /\ facts = Form!NoProfile \/ StoredFits(facts)
  /\ ChoiceFits

\* Trimming and capitals leave alone what the rules look at.
Alike(t, u) ==
  t.length = u.length /\ t.longRun = u.longRun /\ t.pasted = u.pasted /\ t.reads = u.reads

LEMMA BlankText == TextFits(Form!Blank)
BY DEF TextFits, Form!Blank

LEMMA TextExcept ==
  ASSUME NEW t, TextFits(t), NEW x
  PROVE  /\ [t EXCEPT !.padded = x] = [length |-> t.length, padded |-> x, lower |-> t.lower,
                                      longRun |-> t.longRun, pasted |-> t.pasted, reads |-> t.reads]
         /\ [t EXCEPT !.lower = x] = [length |-> t.length, padded |-> t.padded, lower |-> x,
                                     longRun |-> t.longRun, pasted |-> t.pasted, reads |-> t.reads]
<1> PICK n, p, l, g, s, r : t = [length |-> n, padded |-> p, lower |-> l, longRun |-> g, pasted |-> s, reads |-> r]
  BY DEF TextFits
<1>1. [t EXCEPT !.padded = x] = [length |-> n, padded |-> x, lower |-> l, longRun |-> g, pasted |-> s, reads |-> r]
  OBVIOUS
<1>2. [t EXCEPT !.lower = x] = [length |-> n, padded |-> p, lower |-> x, longRun |-> g, pasted |-> s, reads |-> r]
  OBVIOUS
<1> QED
  BY <1>1, <1>2

LEMMA TrimFits ==
  ASSUME NEW t, TextFits(t)
  PROVE  TextFits(Form!Trim(t)) /\ Alike(t, Form!Trim(t)) /\ Form!Trim(Form!Trim(t)) = Form!Trim(t)
<1>1. CASE t.length = 0
  <2>1. Form!Trim(t) = Form!Blank /\ Form!Blank.length = 0
    BY <1>1 DEF Form!Trim, Form!Blank
  <2>2. Alike(t, Form!Blank)
    BY <1>1 DEF Alike, TextFits, Form!Blank
  <2> QED
    BY <2>1, <2>2, BlankText DEF Form!Trim
<1>2. CASE t.length # 0
  <2> PICK u : u = [length |-> t.length, padded |-> FALSE, lower |-> t.lower,
                    longRun |-> t.longRun, pasted |-> t.pasted, reads |-> t.reads]
    OBVIOUS
  <2>1. Form!Trim(t) = u
    BY <1>2, TextExcept DEF Form!Trim
  <2>2. TextFits(u) /\ Alike(t, u) /\ u.length # 0
    BY <1>2 DEF TextFits, Alike
  <2>3. [u EXCEPT !.padded = FALSE] = u
    BY <2>2, TextExcept
  <2>4. Form!Trim(u) = u
    BY <2>2, <2>3 DEF Form!Trim
  <2> QED
    BY <2>1, <2>2, <2>4
<1> QED
  BY <1>1, <1>2

LEMMA ParseFits ==
  ASSUME NEW t, TextFits(t), Form!Trim(t) = t, NEW f
  PROVE  /\ TextFits(Form!Parse(f, t)) /\ Alike(t, Form!Parse(f, t))
         /\ t.length > 0 => Form!Parse(f, Form!Parse(f, t)) = Form!Parse(f, t)
<1>1. CASE f \notin {"jurisdiction", "country"}
  BY <1>1 DEF Form!Parse, Alike
<1>2. CASE f \in {"jurisdiction", "country"}
  <2> PICK u : u = [length |-> t.length, padded |-> t.padded, lower |-> FALSE,
                    longRun |-> t.longRun, pasted |-> t.pasted, reads |-> t.reads]
    OBVIOUS
  <2>1. Form!Parse(f, t) = u
    BY <1>2, TextExcept DEF Form!Parse
  <2>2. TextFits(u) /\ Alike(t, u)
    BY DEF TextFits, Alike
  <2>3. ASSUME t.length > 0 PROVE Form!Parse(f, u) = u
    <3> PICK v : v = [length |-> t.length, padded |-> FALSE, lower |-> t.lower,
                      longRun |-> t.longRun, pasted |-> t.pasted, reads |-> t.reads]
      OBVIOUS
    <3>1. t.length # 0
      BY <2>3 DEF TextFits
    <3>2. t = v
      BY <3>1, TextExcept DEF Form!Trim
    <3>3. t.padded = FALSE
      BY <3>2
    <3>4. u.length # 0 /\ u.padded = FALSE /\ u.lower = FALSE
      BY <3>1, <3>3
    <3>5. [u EXCEPT !.padded = FALSE] = u /\ [u EXCEPT !.lower = FALSE] = u
      BY <2>2, <3>4, TextExcept DEF TextFits
    <3>6. Form!Trim(u) = u
      BY <3>4, <3>5 DEF Form!Trim
    <3> QED
      BY <1>2, <3>5, <3>6 DEF Form!Parse
  <2> QED
    BY <2>1, <2>2, <2>3
<1> QED
  BY <1>1, <1>2

LEMMA AlikeAccepted ==
  ASSUME NEW t, NEW u, Alike(t, u), NEW f
  PROVE  Form!Accepts(f, t) <=> Form!Accepts(f, u)
BY DEF Alike, Form!Accepts, Form!Fits, Form!FreeText, Form!RegistrationNumber, Form!RegisterIdentifier, Form!Website

LEMMA AcceptedText ==
  ASSUME NEW t, TextFits(t), NEW f \in Form!Field, Form!Accepts(f, t)
  PROVE  t.length > 0
<1>1. CASE f \in {"entityType", "jurisdiction", "country"}
  BY <1>1 DEF TextFits, Form!Accepts
<1>2. CASE f \notin {"entityType", "jurisdiction", "country"}
  <2>1. f \in DOMAIN Form!Limits /\ Form!Limits[f][1] \in Nat /\ Form!Limits[f][1] > 0
    BY <1>2 DEF Form!Limits, Form!Field, Form!Address
  <2> QED
    BY <2>1 DEF Form!Accepts, Form!Fits, TextFits
<1> QED
  BY <1>1, <1>2

\* What is sent of a draft, what the API stores of it, and the draft that a page reads back.
LEMMA BodySent == ASSUME NEW d, DraftFits(d) PROVE BodyFits(Form!ForApi(d))
<1> PICK b : b = Form!ForApi(d)
  OBVIOUS
<1>1. DOMAIN b = Form!Sent(d) /\ \A f \in DOMAIN b : b[f] = Form!Trim(d[f])
  BY DEF Form!ForApi
<1>2. Form!Sent(d) \subseteq Form!Field /\ Form!Field \ Form!Optional \subseteq Form!Sent(d)
  BY DEF Form!Sent
<1>3. b = [f \in DOMAIN b |-> b[f]]
  BY DEF Form!ForApi
<1>4. \A f \in DOMAIN b : TextFits(b[f]) /\ Form!Trim(b[f]) = b[f]
  BY <1>1, <1>2, TrimFits DEF DraftFits
<1> QED
  BY <1>1, <1>2, <1>3, <1>4 DEF BodyFits

LEMMA BodyStored ==
  ASSUME NEW b, BodyFits(b), Form!Refused(b) = {}
  PROVE  StoredFits(Form!Parsed(b))
<1> PICK e : e = Form!Parsed(b)
  OBVIOUS
<1>1. DOMAIN e = DOMAIN b /\ e = [f \in DOMAIN e |-> e[f]] /\ \A f \in DOMAIN b : e[f] = Form!Parse(f, b[f])
  BY DEF Form!Parsed
<1>2. ASSUME NEW f \in DOMAIN b
      PROVE  TextFits(e[f]) /\ e[f].length > 0 /\ Form!Accepts(f, e[f]) /\ Form!Parse(f, e[f]) = e[f]
  <2>1. TextFits(b[f]) /\ Form!Trim(b[f]) = b[f] /\ Form!Accepts(f, b[f]) /\ f \in Form!Field
    BY DEF BodyFits, Form!Refused
  <2>2. b[f].length > 0
    BY <2>1, AcceptedText
  <2>3. TextFits(e[f]) /\ Alike(b[f], e[f]) /\ Form!Parse(f, e[f]) = e[f]
    BY <1>1, <2>1, <2>2, ParseFits
  <2> QED
    BY <2>1, <2>2, <2>3, AlikeAccepted DEF Alike
<1> QED
  BY <1>1, <1>2 DEF BodyFits, StoredFits

LEMMA StoredElsewhere == ASSUME NEW e \in Elsewhere PROVE StoredFits(e)
<1>1. DOMAIN e \subseteq Form!Field /\ Form!Complete(e) /\ Form!Parsed(e) = e
  BY StoredAssumption
<1>2. e = [f \in DOMAIN e |-> e[f]] /\ \A f \in DOMAIN e : Form!Parse(f, e[f]) = e[f]
  BY <1>1 DEF Form!Parsed
<1>3. \A f \in DOMAIN e : TextFits(e[f])
  BY TextAssumption DEF TextFits
<1>4. Form!Field \ Form!Optional \subseteq DOMAIN e /\ \A f \in DOMAIN e : Form!Accepts(f, e[f])
  BY <1>1 DEF Form!Complete, Form!Refused
<1>5. \A f \in DOMAIN e : e[f].length > 0
  BY <1>1, <1>3, <1>4, AcceptedText
<1> QED
  BY <1>1, <1>2, <1>3, <1>4, <1>5 DEF StoredFits

LEMMA StoredRead ==
  ASSUME NEW e, e = Form!NoProfile \/ StoredFits(e)
  PROVE  DraftFits(Form!Hydrate(e))
BY BlankText DEF DraftFits, Form!Hydrate, Form!NoProfile, StoredFits

\* What is saved can be loaded, and what is loaded can be saved as it is.
LEMMA StoredAgain ==
  ASSUME NEW e, StoredFits(e)
  PROVE  Form!Complete(e) /\ Form!Parsed(Form!ForApi(Form!Hydrate(e))) = e
<1> PICK d : d = Form!Hydrate(e)
  OBVIOUS
<1> PICK b : b = Form!ForApi(d)
  OBVIOUS
<1>1. \A f \in Form!Field : d[f] = IF f \in DOMAIN e THEN e[f] ELSE Form!Blank
  BY DEF Form!Hydrate
<1>2. Form!Sent(d) = DOMAIN e
  <2>1. ASSUME NEW f \in DOMAIN e PROVE f \in Form!Sent(d)
    BY <1>1 DEF StoredFits, Form!Sent
  <2>2. ASSUME NEW f \in Form!Sent(d), f \notin DOMAIN e PROVE FALSE
    <3>1. f \in Form!Field /\ f \in Form!Optional /\ d[f].length > 0
      BY <2>2 DEF StoredFits, Form!Sent
    <3>2. d[f].length = 0
      BY <1>1, <2>2, <3>1 DEF Form!Blank
    <3> QED
      BY <3>1, <3>2
  <2> QED
    BY <2>1, <2>2
<1>3. ASSUME NEW f \in DOMAIN e PROVE Form!Parse(f, Form!Trim(d[f])) = e[f]
  <2>1. TextFits(e[f]) /\ e[f].length # 0 /\ Form!Parse(f, e[f]) = e[f] /\ d[f] = e[f]
    BY <1>1 DEF StoredFits, TextFits
  <2>2. Form!Trim(Form!Trim(e[f])) = Form!Trim(e[f])
    BY <2>1, TrimFits
  <2> QED
    BY <2>1, <2>2 DEF Form!Parse
<1>4. Form!Parsed(b) = [f \in DOMAIN e |-> e[f]]
  <2>1. DOMAIN b = DOMAIN e /\ \A f \in DOMAIN e : b[f] = Form!Trim(d[f])
    BY <1>2 DEF Form!ForApi
  <2> QED
    BY <1>3, <2>1 DEF Form!Parsed
<1>5. Form!Parsed(b) = e
  BY <1>4 DEF StoredFits
<1>6. Form!Complete(e)
  BY DEF StoredFits, Form!Complete, Form!Refused
<1> QED
  BY <1>5, <1>6

\* The form points at nothing that the API would take, and at every document.
LEMMA ProblemsAgree ==
  ASSUME NEW d, DraftFits(d)
  PROVE  /\ Form!Problems(d) \subseteq Form!Refused(Form!ForApi(d))
         /\ \A f \in Form!Field \ Form!Problems(d) :
              /\ f \in Form!FreeTextFields => Form!FreeText(d[f])
              /\ f = "website" => ~d[f].pasted
<1>1. ASSUME NEW f \in Form!Problems(d) PROVE f \in Form!Refused(Form!ForApi(d))
  <2>1. f \in Form!Field /\ Form!FieldProblem(f, d[f]) /\ TextFits(d[f])
    BY DEF Form!Problems, DraftFits
  <2>2. f \in DOMAIN Form!ForApi(d) /\ Form!ForApi(d)[f] = Form!Trim(d[f])
    BY <2>1 DEF Form!ForApi, Form!Sent, Form!FieldProblem
  <2> PICK t : t = d[f]
    OBVIOUS
  <2>3. ~Form!Accepts(f, t)
    <3>1. CASE f \in Form!FreeTextFields /\ (t.pasted \/ t.longRun)
      BY <3>1 DEF Form!Accepts, Form!FreeText
    <3>2. CASE f \in Form!Shaped /\ Form!ShapeOf(f) \notin t.reads
      BY <3>2 DEF Form!Shaped, Form!ShapeOf, Form!Accepts, Form!Website
    <3>3. CASE f \notin Form!FreeTextFields /\ t.pasted
      <4>1. t.reads \cap {"register", "type", "jurisdiction", "country"} = {}
        BY <2>1, <3>3 DEF TextFits
      <4>2. f \in {"entityType", "registrationNumber", "postalCode", "website", "jurisdiction", "country"}
        BY <2>1, <3>3 DEF Form!Field, Form!Address, Form!FreeTextFields
      <4> QED
        BY <3>3, <4>1, <4>2 DEF Form!Accepts, Form!RegistrationNumber, Form!RegisterIdentifier, Form!Website
    <3> QED
      BY <2>1, <3>1, <3>2, <3>3 DEF Form!FieldProblem, Form!Prose, Form!FreeTextFields
  <2>4. ~Form!Accepts(f, Form!Trim(t))
    BY <2>1, <2>3, TrimFits, AlikeAccepted
  <2> QED
    BY <2>2, <2>4 DEF Form!Refused
<1>2. ASSUME NEW f \in Form!Field \ Form!Problems(d)
      PROVE  /\ f \in Form!FreeTextFields => Form!FreeText(d[f])
             /\ f = "website" => ~d[f].pasted
  <2>1. TextFits(d[f]) /\ ~Form!FieldProblem(f, d[f])
    BY DEF Form!Problems, DraftFits
  <2>2. d[f].length = 0 \/ d[f].length > 0
    BY <2>1 DEF TextFits
  <2> QED
    BY <2>1, <2>2 DEF TextFits, Form!FieldProblem, Form!FreeText, Form!FreeTextFields, Form!Prose
<1> QED
  BY <1>1, <1>2

LEMMA WhatAgrees == ASSUME AgreeInv PROVE FormAgrees
<1>1. form # None => /\ Form!Problems(form.draft) \subseteq Form!Refused(Form!ForApi(form.draft))
                     /\ \A f \in Form!Field \ Form!Problems(form.draft) :
                          /\ f \in Form!FreeTextFields => Form!FreeText(form.draft[f])
                          /\ f = "website" => ~form.draft[f].pasted
  BY ProblemsAgree DEF AgreeInv
<1>2. facts # Form!NoProfile => Form!Complete(facts) /\ Form!Parsed(Form!ForApi(Form!Hydrate(facts))) = facts
  BY StoredAgain DEF AgreeInv
<1>3. decision # None /\ view.status = stage => decision \in Form!DecisionStatuses \cap Form!Transitions[stage]
  BY DEF AgreeInv, ChoiceFits, Form!DecisionOptions
<1> QED
  BY <1>1, <1>2, <1>3 DEF FormAgrees, Form!FormAgrees

LEMMA AgreeInit == Form!Init => AgreeInv
<1> SUFFICES ASSUME Form!Init PROVE AgreeInv
  OBVIOUS
<1>1. /\ saving = None /\ decision = None /\ (form = None \/ form = Form!Mounted(facts))
      /\ stage \in {"unstarted", "started"} /\ view.status = stage
      /\ facts \in {Form!NoProfile} \cup Elsewhere
  BY DEF Form!Init
<1>2. facts = Form!NoProfile \/ StoredFits(facts)
  BY <1>1, StoredElsewhere
<1>3. Form!Mounted(facts).draft = Form!Hydrate(facts)
  BY DEF Form!Mounted
<1>4. form # None => DraftFits(form.draft)
  BY <1>1, <1>2, <1>3, StoredRead
<1>5. ChoiceFits
  BY <1>1 DEF ChoiceFits, Form!Transitions
<1> QED
  BY <1>1, <1>2, <1>4, <1>5 DEF AgreeInv

\* What the API has taken, and a form that is read anew or kept.
LEMMA StoredLands == ASSUME AgreeInv, Form!Lands PROVE StoredFits(Form!Parsed(saving.body))
BY BodyStored DEF AgreeInv, Form!Lands

LEMMA ReadAgrees ==
  ASSUME facts' = Form!NoProfile \/ StoredFits(facts'), NEW st, NEW kept, kept # None => DraftFits(kept.draft),
         Form!Read(st, facts', kept)
  PROVE  (form' # None => DraftFits(form'.draft)) /\ view'.status = st
<1>1. Form!Mounted(facts').draft = Form!Hydrate(facts')
  BY DEF Form!Mounted
<1>2. view'.status = st
  BY DEF Form!Read
<1>3. DraftFits(Form!Hydrate(facts'))
  BY StoredRead
<1> QED
  BY <1>1, <1>2, <1>3, FormReads

\* A choice of the dialog is one of the three that an open case allows.
LEMMA OpenChoices ==
  /\ DOMAIN Form!Transitions = {"unstarted", "started", "pending", "verified", "rejected", "expired"}
  /\ Form!DecisionOptions("started") = Form!DecisionStatuses
  /\ \A st \in DOMAIN Form!Transitions :
       /\ Form!Transitions[st] \subseteq DOMAIN Form!Transitions
       /\ Form!DecisionOptions(st) \subseteq Form!DecisionStatuses
       /\ Form!DecisionOptions(st) # {} => Form!FirstOption(st) \in Form!DecisionOptions(st)
<1>1. DOMAIN Form!Transitions = {"unstarted", "started", "pending", "verified", "rejected", "expired"}
  BY DEF Form!Transitions
<1>2. Form!DecisionOptions("started") = Form!DecisionStatuses
  BY DEF Form!Transitions, Form!DecisionOptions, Form!DecisionStatuses
<1>3. ASSUME NEW st \in DOMAIN Form!Transitions
      PROVE  /\ Form!Transitions[st] \subseteq DOMAIN Form!Transitions
             /\ Form!DecisionOptions(st) \subseteq Form!DecisionStatuses
             /\ Form!DecisionOptions(st) # {} => Form!FirstOption(st) \in Form!DecisionOptions(st)
  <2>1. Form!Transitions[st] \subseteq DOMAIN Form!Transitions
    BY DEF Form!Transitions
  <2>2. Form!DecisionOptions(st) \subseteq Form!DecisionStatuses
    BY DEF Form!DecisionOptions
  <2>3. Form!DecisionOptions(st) # {} => "expired" \in Form!DecisionOptions(st)
    BY DEF Form!Transitions, Form!DecisionOptions, Form!DecisionStatuses
  <2> QED
    BY <2>1, <2>2, <2>3 DEF Form!FirstOption
<1> QED
  BY <1>1, <1>2, <1>3

\* Nothing is decided and the case is where it may be.
LEMMA Undecided ==
  ASSUME decision' = None, stage' \in DOMAIN Form!Transitions, view'.status \in DOMAIN Form!Transitions
  PROVE  ChoiceFits'
BY DEF ChoiceFits

LEMMA AgreeSaving ==
  ASSUME FormShape, AgreeInv, \/ Form!EndSave \/ Form!LoseAnswer \/ \E n \in {"business", "attest"} : Form!BeginSave(n)
  PROVE  AgreeInv'
<1>1. CASE \E n \in {"business", "attest"} : Form!BeginSave(n)
  <2> PICK n \in {"business", "attest"} : Form!BeginSave(n)
    BY <1>1
  <2>1. /\ form # None /\ UNCHANGED <<stage, facts, view, form, decision>>
        /\ saving' = [body |-> Form!ForApi(form.draft), next |-> n]
    BY DEF Form!BeginSave, Form!Filling
  <2>2. BodyFits(saving'.body)
    BY <2>1, BodySent DEF AgreeInv
  <2> QED
    BY <2>1, <2>2 DEF AgreeInv, ChoiceFits
<1>2. CASE Form!EndSave
  <2>1. saving # None /\ saving' = None /\ UNCHANGED <<stage, decision>>
    BY <1>2 DEF Form!EndSave
  <2>2. CASE Form!Lands
    <3> PICK g : g = IF form = None THEN None ELSE [form EXCEPT !.marks = {}, !.step = saving.next]
      OBVIOUS
    <3>1. facts' = Form!Parsed(saving.body) /\ Form!Read(stage, facts', g) /\ stage = "started"
      BY <1>2, <2>2 DEF Form!EndSave, Form!Lands
    <3>2. StoredFits(facts')
      BY <2>2, <3>1, StoredLands
    <3>3. g # None => DraftFits(g.draft)
      <4>1. form # None => g = [step |-> saving.next, draft |-> form.draft, marks |-> {}, statement |-> form.statement]
        BY DEF FormShape
      <4>2. g # None => form # None /\ g.draft = form.draft
        BY <4>1
      <4> QED
        BY <4>2 DEF AgreeInv
    <3>4. (form' # None => DraftFits(form'.draft)) /\ view'.status = "started"
      BY <3>1, <3>2, <3>3, ReadAgrees
    <3>5. ChoiceFits'
      BY <2>1, <3>1, <3>4, OpenChoices DEF AgreeInv, ChoiceFits
    <3> QED
      BY <2>1, <3>2, <3>4, <3>5 DEF AgreeInv
  <2>3. CASE ~Form!Lands
    <3> PICK marked : form' = IF form = None THEN None ELSE [form EXCEPT !.marks = marked]
      BY <1>2, <2>3 DEF Form!EndSave
    <3>1. form # None => form' = [step |-> form.step, draft |-> form.draft, marks |-> marked, statement |-> form.statement]
      BY DEF FormShape
    <3>2. form' # None => DraftFits(form'.draft)
      BY <3>1 DEF AgreeInv
    <3>3. UNCHANGED <<facts, view>>
      BY <1>2, <2>3 DEF Form!EndSave
    <3> QED
      BY <2>1, <3>2, <3>3 DEF AgreeInv, ChoiceFits
  <2> QED
    BY <2>2, <2>3
<1>3. CASE Form!LoseAnswer
  <2>1. /\ saving' = None /\ UNCHANGED <<stage, view, decision>>
        /\ form' = IF form = None THEN None ELSE [form EXCEPT !.marks = {}]
        /\ facts' = facts \/ (Form!Lands /\ facts' = Form!Parsed(saving.body))
    BY <1>3 DEF Form!LoseAnswer
  <2>2. form # None => form' = [step |-> form.step, draft |-> form.draft, marks |-> {}, statement |-> form.statement]
    BY <2>1 DEF FormShape
  <2>3. form' # None => DraftFits(form'.draft)
    BY <2>1, <2>2 DEF AgreeInv
  <2>4. facts' = Form!NoProfile \/ StoredFits(facts')
    BY <2>1, StoredLands DEF AgreeInv
  <2> QED
    BY <2>1, <2>3, <2>4 DEF AgreeInv, ChoiceFits
<1> QED
  BY <1>1, <1>2, <1>3

LEMMA AgreeReading ==
  ASSUME FormShape, AgreeInv, Form!Load \/ Form!Start \/ Form!SignAndSubmit \/ \E reason \in Remark : Form!RecordDecision(reason)
  PROVE  AgreeInv'
<1>1. CASE Form!Load
  <2>1. /\ facts' = facts \/ (Form!Lands /\ facts' = Form!Parsed(saving.body))
        /\ Form!Read(stage, facts', None) /\ saving' = None /\ decision' = None /\ stage' = stage
    BY <1>1 DEF Form!Load
  <2>2. facts' = Form!NoProfile \/ StoredFits(facts')
    BY <2>1, StoredLands DEF AgreeInv
  <2>3. (form' # None => DraftFits(form'.draft)) /\ view'.status = stage
    BY <2>1, <2>2, ReadAgrees
  <2>4. ChoiceFits'
    BY <2>1, <2>3, Undecided DEF AgreeInv, ChoiceFits
  <2> QED
    BY <2>1, <2>2, <2>3, <2>4 DEF AgreeInv
<1>2. CASE Form!Start
  <2>1. /\ Form!Read("started", facts', None) /\ saving' = None /\ decision' = None /\ facts' = facts
        /\ stage' = "started"
    BY <1>2 DEF Form!Start, Form!Idle
  <2>2. (form' # None => DraftFits(form'.draft)) /\ view'.status = "started"
    BY <2>1, ReadAgrees DEF AgreeInv
  <2>3. ChoiceFits'
    BY <2>1, <2>2, OpenChoices, Undecided
  <2> QED
    BY <2>1, <2>2, <2>3 DEF AgreeInv
<1>3. CASE Form!SignAndSubmit
  <2> PICK fresh : fresh = Form!AttestationStatement(facts)
    OBVIOUS
  <2>1. /\ saving = None /\ decision = None /\ form # None /\ UNCHANGED <<facts, saving, decision>>
        /\ IF fresh # form.statement
           THEN form' = [form EXCEPT !.statement = fresh] /\ UNCHANGED <<stage, view>>
           ELSE stage' = "pending" /\ Form!Read("pending", facts, None)
    BY <1>3 DEF Form!SignAndSubmit, Form!Idle
  <2>2. CASE fresh # form.statement
    <3>1. form' = [step |-> form.step, draft |-> form.draft, marks |-> form.marks, statement |-> fresh]
      BY <2>1, <2>2 DEF FormShape
    <3>2. form'.draft = form.draft
      BY <3>1
    <3> QED
      BY <2>1, <2>2, <3>2 DEF AgreeInv, ChoiceFits
  <2>3. CASE fresh = form.statement
    <3>1. form' = None /\ view'.status = "pending"
      BY <2>1, <2>3 DEF Form!Read
    <3>2. ChoiceFits'
      BY <2>1, <2>3, <3>1, OpenChoices, Undecided
    <3> QED
      BY <2>1, <3>1, <3>2 DEF AgreeInv
  <2> QED
    BY <2>2, <2>3
<1>4. CASE \E reason \in Remark : Form!RecordDecision(reason)
  <2>1. /\ UNCHANGED <<saving, facts>> /\ Form!Read(decision, facts, form) /\ decision \in Form!DecisionStatuses
        /\ stage' = decision /\ decision' = None
    BY <1>4 DEF Form!RecordDecision
  <2>2. form' = None /\ view'.status = decision
    BY <2>1 DEF Form!Read, Form!DecisionStatuses
  <2>3. ChoiceFits'
    BY <2>1, <2>2, OpenChoices, Undecided DEF Form!DecisionStatuses
  <2> QED
    BY <2>1, <2>2, <2>3 DEF AgreeInv
<1> QED
  BY <1>1, <1>2, <1>3, <1>4

LEMMA AgreeNext == ASSUME FormShape, AgreeInv, Form!Next PROVE AgreeInv'
<1>1. CASE Form!Load \/ Form!Start \/ Form!SignAndSubmit \/ \E reason \in Remark : Form!RecordDecision(reason)
  BY <1>1, AgreeReading
<1>2. CASE Form!EndSave \/ Form!LoseAnswer \/ \E n \in {"business", "attest"} : Form!BeginSave(n)
  BY <1>2, AgreeSaving
<1>3. CASE Form!ReadAttestation \/ Form!BackToBusiness
  <2>1. form # None /\ UNCHANGED <<stage, view, decision, saving, facts>>
    BY <1>3 DEF Form!ReadAttestation, Form!BackToBusiness
  <2>2. form = [step |-> form.step, draft |-> form.draft, marks |-> form.marks, statement |-> form.statement]
    BY <2>1 DEF FormShape
  <2>3. form'.draft = form.draft
    BY <1>3, <2>2 DEF Form!ReadAttestation, Form!BackToBusiness
  <2> QED
    BY <2>1, <2>3 DEF AgreeInv, ChoiceFits
<1>4. CASE \E f \in Form!Field, t \in Sample \cup {Form!Blank} : Form!Type(f, t)
  <2> PICK f \in Form!Field, t \in Sample \cup {Form!Blank} : Form!Type(f, t)
    BY <1>4
  <2> PICK d : d = [form.draft EXCEPT ![f] = t]
    OBVIOUS
  <2>1. form # None /\ form' = [form EXCEPT !.draft[f] = t] /\ UNCHANGED <<stage, facts, view, saving, decision>>
    BY DEF Form!Type, Form!Filling
  <2>2. form' = [step |-> form.step, draft |-> d, marks |-> form.marks, statement |-> form.statement]
    BY <2>1 DEF FormShape
  <2>3. TextFits(t)
    BY TextAssumption, BlankText DEF TextFits
  <2>4. DraftFits(d)
    BY <2>1, <2>3 DEF AgreeInv, DraftFits
  <2> QED
    BY <2>1, <2>2, <2>4 DEF AgreeInv, ChoiceFits
<1>5. CASE Form!OpenDialog
  <2>1. /\ UNCHANGED <<stage, facts, view, form, saving>> /\ Form!DecisionOptions(view.status) # {}
        /\ decision' = Form!FirstOption(view.status)
    BY <1>5 DEF Form!OpenDialog
  <2>2. decision' \in Form!DecisionOptions(view.status)
    BY <2>1, OpenChoices DEF AgreeInv, ChoiceFits
  <2> QED
    BY <2>1, <2>2 DEF AgreeInv, ChoiceFits
<1>6. CASE Form!Cancel \/ \E choice \in Form!DecisionStatuses : Form!Choose(choice)
  BY <1>6 DEF Form!Cancel, Form!Choose, AgreeInv, ChoiceFits
<1>7. CASE \E e \in Elsewhere : Form!OtherSaves(e)
  BY <1>7, StoredElsewhere DEF Form!OtherSaves, AgreeInv, ChoiceFits
<1>8. CASE \E to \in DOMAIN Form!Transitions : Form!OtherMoves(to)
  BY <1>8 DEF Form!OtherMoves, AgreeInv, ChoiceFits
<1> QED
  BY <1>1, <1>2, <1>3, <1>4, <1>5, <1>6, <1>7, <1>8 DEF Form!Next

LEMMA AgreeStep == FormInv /\ AgreeInv /\ [Next]_<<part, entry, rules, screens>> => AgreeInv'
<1> SUFFICES ASSUME FormInv, AgreeInv, [Next]_<<part, entry, rules, screens>> PROVE AgreeInv'
  OBVIOUS
<1>1. CASE Form!Next
  BY <1>1, AgreeNext DEF FormInv
<1>2. CASE UNCHANGED application
  BY <1>2 DEF application, AgreeInv, ChoiceFits
<1> QED
  BY <1>1, <1>2 DEF Next, screens

\* ApplicationForm (verification-application.tsx, verification-fields.ts, verification.ts,
\* verification-routes.ts): form and API go by the same rules. The form holds up nothing that
\* the API would take and points at every document, stored facts can be loaded and saved as
\* they are, and the dialog offers the decisions that the API takes.
THEOREM FormAndApiAgree == Spec => []FormAgrees
<1>1. Init => FormInv /\ AgreeInv
  BY FormInit, AgreeInit DEF Init
<1>2. AgreeInv => FormAgrees
  BY WhatAgrees
<1> QED
  BY <1>1, <1>2, FormStep, AgreeStep, PTL DEF Spec
=============================================================================
