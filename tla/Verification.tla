--------------------------- MODULE Verification ---------------------------
(***************************************************************************)
(* The business verification of one organisation: the case on the          *)
(* organisation row, the application row, the API routes that move them and *)
(* the console's wizard from which an owner saves the draft, reads the      *)
(* statement, signs it and submits it.  A route that checks before it       *)
(* writes is two steps, because nothing holds a lock in between.            *)
(***************************************************************************)
EXTENDS Naturals

CONSTANTS
  Owner,        \* principals with the role owner, each with a bound wallet
  Profile,      \* complete sets of entity facts
  Draft,        \* a form that is not finished
  NoProfile, NoStatement, Nobody, \* nulls
  MaxCases      \* bound on how often a case is opened

VARIABLES
  status, opened, decidedBy, \* organizations.verification_*; opened stands for started_at
  profile, submission,       \* verification_cases: the draft, and the signed statement
  tab,                       \* per owner: the console's wizard
  request,                   \* per owner: a save or a submission under way
  told,                      \* ghost: the words the signer of the submission had read
  late                       \* ghost: a write was made on a check that no longer held

vars == <<status, opened, decidedBy, profile, submission, tab, request, told, late>>

Transitions ==
  [unstarted |-> {"started"},
   started   |-> {"pending", "verified", "rejected", "expired"},
   pending   |-> {"verified", "rejected", "expired"},
   verified  |-> {"expired"},
   rejected  |-> {"started"},
   expired   |-> {"started"}]
Status == DOMAIN Transitions

\* Everything the schema and the form's own checks look at, as one answer.
Complete(facts) == facts \in Profile

\* The text that is signed: the facts, the signer and the start of the case.
Statement == [facts : Profile, by : Owner, opened : 1 .. MaxCases]
StatementFor(o) == [facts |-> profile, by |-> o, opened |-> opened]

\* Mutant: the draft can be written at any time.
NoLock == FALSE
ProfileLock == status # "started"
SubmitCheck == "pending" \in Transitions[status] /\ Complete(profile)

Idle == [op |-> "idle"]
Away == [step |-> "away", draft |-> Draft, shown |-> NoStatement]
Hydrate == [step |-> "business", draft |-> IF profile = NoProfile THEN Draft ELSE profile,
            shown |-> NoStatement]

Init ==
  /\ status = "unstarted" /\ opened = 0 /\ decidedBy = Nobody
  /\ profile = NoProfile /\ submission = NoStatement
  /\ tab = [o \in Owner |-> Away]
  /\ request = [o \in Owner |-> Idle]
  /\ told = NoStatement
  /\ late = FALSE

-----------------------------------------------------------------------------
(* The case. Both moves lock the organisation row and check the edge again. *)

ClearSubmission == submission' = NoStatement

Start(o) ==
  /\ opened < MaxCases /\ "started" \in Transitions[status]
  /\ status' = "started" /\ opened' = opened + 1 /\ decidedBy' = Nobody
  /\ ClearSubmission /\ told' = NoStatement
  /\ UNCHANGED <<profile, tab, request, late>>

Decide(o, to) ==
  /\ to \in {"verified", "rejected", "expired"} /\ to \in Transitions[status]
  /\ status' = to /\ decidedBy' = o
  /\ UNCHANGED <<opened, profile, submission, tab, request, told, late>>

-----------------------------------------------------------------------------
(* The wizard. It is mounted while the console's copy of the case is open.  *)

Busy(o) == request[o] # Idle
SetTab(o, step, shown) ==
  tab' = [tab EXCEPT ![o].step = step, ![o].shown = shown]
Case == <<status, opened, decidedBy, profile, submission>>

Open(o) ==
  /\ ~Busy(o) /\ status = "started"
  /\ tab' = [tab EXCEPT ![o] = Hydrate]
  /\ UNCHANGED <<Case, request, told, late>>

\* The inputs are not disabled while a save is under way.
Type(o, facts) ==
  /\ tab[o].step = "business"
  /\ tab' = [tab EXCEPT ![o].draft = facts]
  /\ UNCHANGED <<Case, request, told, late>>

Back(o) ==
  /\ ~Busy(o) /\ tab[o].step = "attest"
  /\ SetTab(o, "business", tab[o].shown)
  /\ UNCHANGED <<Case, request, told, late>>

\* PUT profile: the schema, then the lock, read without holding the row.
BeginSave(o, next) ==
  /\ ~Busy(o) /\ tab[o].step = "business"
  /\ Complete(tab[o].draft) /\ ~ProfileLock
  /\ request' = [request EXCEPT ![o] = [op |-> "save", facts |-> tab[o].draft, next |-> next]]
  /\ UNCHANGED <<Case, tab, told, late>>

\* saveProfile only writes; the caller decided whether it may.
FinishSave(o) ==
  /\ request[o].op = "save"
  /\ profile' = request[o].facts
  /\ late' = (late \/ ProfileLock)
  /\ SetTab(o, request[o].next, tab[o].shown)
  /\ request' = [request EXCEPT ![o] = Idle]
  /\ UNCHANGED <<status, opened, decidedBy, submission, told>>

\* An earlier statement stays on the page until the new one has been read.
ReadStatement(o) ==
  /\ ~Busy(o) /\ tab[o].step = "attest" /\ SubmitCheck
  /\ SetTab(o, "attest", StatementFor(o))
  /\ UNCHANGED <<Case, request, told, late>>

\* The words are read again before the wallet opens: new words are shown, not signed.
SignAndSubmit(o) ==
  /\ ~Busy(o) /\ tab[o].step = "attest" /\ tab[o].shown # NoStatement /\ SubmitCheck
  /\ \/ /\ StatementFor(o) # tab[o].shown
        /\ SetTab(o, "attest", StatementFor(o)) /\ UNCHANGED request
     \/ /\ StatementFor(o) = tab[o].shown
        /\ request' = [request EXCEPT ![o] =
             [op |-> "signed", signature |-> StatementFor(o), read |-> tab[o].shown]]
        /\ UNCHANGED tab
  /\ UNCHANGED <<Case, told, late>>

-----------------------------------------------------------------------------
(* POST submit: reads and checks first, then one transaction.               *)

\* The signature must cover the statement the server builds from what it holds.
BeginSubmit(o) ==
  /\ request[o].op = "signed"
  /\ request' = [request EXCEPT ![o] =
       IF SubmitCheck /\ request[o].signature = StatementFor(o)
       THEN [op |-> "submit", statement |-> StatementFor(o), read |-> request[o].read] ELSE Idle]
  /\ UNCHANGED <<Case, tab, told, late>>

FinishSubmit(o) ==
  /\ request[o].op = "submit"
  /\ IF "pending" \in Transitions[status]
     THEN /\ status' = "pending" /\ submission' = request[o].statement /\ told' = request[o].read
          /\ late' = (late \/ request[o].statement # StatementFor(o))
     ELSE UNCHANGED <<status, submission, told, late>>
  /\ request' = [request EXCEPT ![o] = Idle]
  /\ UNCHANGED <<opened, decidedBy, profile, tab>>

\* The server stops, or the connection is lost, between the check and the write.
Abort(o) ==
  /\ Busy(o)
  /\ request' = [request EXCEPT ![o] = Idle]
  /\ UNCHANGED <<Case, tab, told, late>>

Next ==
  \E o \in Owner :
    \/ Start(o) \/ Open(o) \/ Back(o) \/ ReadStatement(o) \/ SignAndSubmit(o)
    \/ FinishSave(o) \/ BeginSubmit(o) \/ FinishSubmit(o) \/ Abort(o)
    \/ \E to \in Status : Decide(o, to)
    \/ \E facts \in Profile \cup {Draft} : Type(o, facts)
    \/ \E next \in {"business", "attest"} : BeginSave(o, next)

Spec == Init /\ [][Next]_vars

-----------------------------------------------------------------------------
\* A case is with a reviewer only with a signed statement. The words on file
\* are words their signer was shown in full before the wallet opened, however
\* other owners edited the draft meanwhile; and unless a write was made on a
\* check that no longer held, the draft still says what was signed, in the case
\* it was signed for.
AttestationHolds ==
  /\ status = "pending" => submission # NoStatement
  /\ submission # NoStatement =>
       /\ submission = told
       /\ late \/ (submission.facts = profile /\ submission.opened = opened)
=============================================================================
