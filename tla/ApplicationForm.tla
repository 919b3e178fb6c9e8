-------------------------- MODULE ApplicationForm --------------------------
(***************************************************************************)
(* The form of the verification application as one owner has it open, the  *)
(* schema with which the API judges what it sends, and the reviewer's      *)
(* dialog beside it.  The console keeps a copy of the API's rules, so that  *)
(* it can speak before the API is asked; Verification has the signing of    *)
(* the statement and its races, and takes a form as finished or not.        *)
(***************************************************************************)
EXTENDS Naturals, Sequences

CONSTANTS
  Sample,       \* what is typed: records of TextShape
  Elsewhere,    \* applications that another owner saves
  Reason,       \* what a reviewer writes: texts, blank ones included
  None,         \* null
  MaxTyped      \* bound on how often an owner types, or another owner acts

VARIABLES
  status, profile, \* the organisation's case and the stored draft
  view,            \* the console's copy: [status, profile]
  form,            \* the open application: [step, draft, marks, statement], or None
  saving,          \* the PUT under way: [body, next], or None
  dialog,          \* the reviewer's choice, or None while the dialog is closed
  typed,           \* bound
  signed,          \* history: what was on the page and in the words when they were signed
  apart            \* ghost: since the last save began, the owner typed or another owner saved

vars == <<status, profile, view, form, saving, dialog, typed, signed, apart>>

-----------------------------------------------------------------------------
(* Texts, by what the rules of the form and of the API look at.             *)

Grammar == {"register", "digit", "type", "jurisdiction", "country", "url"}
TextShape == [length : Nat, padded : BOOLEAN, lower : BOOLEAN,
              longRun : BOOLEAN, pasted : BOOLEAN, reads : SUBSET Grammar]

Blank == [length |-> 0, padded |-> FALSE, lower |-> FALSE,
          longRun |-> FALSE, pasted |-> FALSE, reads |-> {}]
Trim(t) == IF t.length = 0 THEN Blank ELSE [t EXCEPT !.padded = FALSE]

Address == {"line1", "line2", "city", "region", "postalCode", "country"}
Field == Address \cup {"legalName", "entityType", "registrationNumber",
                       "jurisdiction", "website", "businessDescription"}
Optional == {"line2", "region", "website"}

\* The path of a field in the body: the address is one object.
BodyKey(f) == IF f \in Address THEN "registeredAddress" ELSE f

-----------------------------------------------------------------------------
(* The schema of the API.                                                    *)

FreeText(t) == ~t.longRun /\ ~t.pasted
RegisterIdentifier(t) == "register" \in t.reads
RegistrationNumber(t) == RegisterIdentifier(t) /\ "digit" \in t.reads
Website(t) == "url" \in t.reads /\ ~t.pasted

Limits == [legalName |-> <<2, 200>>, businessDescription |-> <<20, 1000>>,
           line1 |-> <<2, 120>>, line2 |-> <<1, 120>>, city |-> <<1, 80>>, region |-> <<1, 80>>,
           registrationNumber |-> <<1, 50>>, postalCode |-> <<1, 16>>, website |-> <<4, 200>>]
FreeTextFields == {"legalName", "businessDescription", "line1", "line2", "city", "region"}

Fits(f, t) ==
  f \in DOMAIN Limits => Limits[f][1] <= t.length /\ t.length <= Limits[f][2]
Accepts(f, t) ==
  /\ Fits(f, t)
  /\ f \in FreeTextFields => FreeText(t)
  /\ f = "entityType" => "type" \in t.reads
  /\ f = "registrationNumber" => RegistrationNumber(t)
  /\ f = "postalCode" => RegisterIdentifier(t)
  /\ f = "website" => Website(t)
  /\ f \in {"jurisdiction", "country"} => f \in t.reads

\* The schema trims what it stores and writes codes in capitals.
Parse(f, t) ==
  IF f \in {"jurisdiction", "country"} THEN [Trim(t) EXCEPT !.lower = FALSE] ELSE Trim(t)

Refused(body) == {f \in DOMAIN body : ~Accepts(f, body[f])}
Parsed(body) == [f \in DOMAIN body |-> Parse(f, body[f])]

Transitions ==
  [unstarted |-> {"started"},
   started   |-> {"pending", "verified", "rejected", "expired"},
   pending   |-> {"verified", "rejected", "expired"},
   verified  |-> {"expired"},
   rejected  |-> {"started"},
   expired   |-> {"started"}]
DecisionStatuses == {"verified", "rejected", "expired"}

-----------------------------------------------------------------------------
(* What the form knows of those rules.                                      *)

\* Mutant: the form's list of prose fields misses one.
ProseWithoutRegion == {"legalName", "line1", "line2", "city", "businessDescription"}
Prose == {"legalName", "line1", "line2", "city", "region", "businessDescription"}
Shaped == {"jurisdiction", "country", "website"}
ShapeOf(f) == IF f = "website" THEN "url" ELSE f

FieldProblem(f, t) ==
  /\ t.length > 0
  /\ \/ t.pasted
     \/ f \in Prose /\ t.longRun
     \/ f \in Shaped /\ ShapeOf(f) \notin t.reads
Missing(d) == {f \in Field \ Optional : d[f].length = 0}
Problems(d) == {f \in Field : FieldProblem(f, d[f])}
Ready(d) == Missing(d) = {} /\ Problems(d) = {}

NoProfile == [f \in {} |-> Blank]
Hydrate(stored) == [f \in Field |-> IF f \in DOMAIN stored THEN stored[f] ELSE Blank]

\* Optional fields that were left blank are not sent, required ones are.
Sent(d) == {f \in Field : f \in Optional => d[f].length > 0}
ForApi(d) == [f \in Sent(d) |-> Trim(d[f])]

\* The entity type is chosen from the list that the API states.
Offers(f) == {Blank} \cup {t \in Sample : f = "entityType" => "type" \in t.reads}

\* The states a reviewer is offered, in the order of the list.
DecisionOptions(from) == DecisionStatuses \cap Transitions[from]
FirstOption(from) ==
  IF "verified" \in DecisionOptions(from) THEN "verified" ELSE "expired"

-----------------------------------------------------------------------------
(* The page.                                                                 *)

\* A form that is put on the page starts from the saved draft.
Mounted(stored) == [step |-> "business", draft |-> Hydrate(stored), marks |-> {}, statement |-> None]

\* The console reads the case; the form stays while the case is open, and goes with it.
Read(st, stored, kept) ==
  /\ view' = [status |-> st, profile |-> stored]
  /\ form' = CASE st # "started" -> None
              [] st = "started" /\ kept = None -> Mounted(stored)
              [] OTHER -> kept

\* The words name the facts; the parts of the address stand in a row.
AddressLine(stored) ==
  SelectSeq([i \in 1 .. 6 |->
    LET part == <<"line1", "line2", "city", "region", "postalCode", "country">>[i]
    IN IF part \in DOMAIN stored THEN stored[part] ELSE Blank], LAMBDA t : t # Blank)
AttestationStatement(stored) ==
  [facts |-> [f \in DOMAIN stored \ Address |-> Parse(f, stored[f])],
   address |-> AddressLine(Parsed(stored))]
Complete(stored) == Field \ Optional \subseteq DOMAIN stored /\ Refused(stored) = {}
SubmitCheck == "pending" \in Transitions[status] /\ Complete(profile)

Init ==
  /\ status \in {"unstarted", "started"} /\ profile \in {NoProfile} \cup Elsewhere
  /\ status = "unstarted" => profile = NoProfile
  /\ view = [status |-> status, profile |-> profile]
  /\ form = IF status = "started" THEN Mounted(profile) ELSE None
  /\ saving = None /\ dialog = None /\ typed = 0 /\ signed = None /\ apart = FALSE

Idle == saving = None /\ dialog = None
Filling == form # None /\ form.step = "business"

\* The tab is loaded again: whatever was not saved is gone. A body that is on
\* its way may still be saved.
Lands == saving # None /\ Refused(saving.body) = {} /\ status = "started"
Load ==
  /\ profile' \in {profile} \cup (IF Lands THEN {Parsed(saving.body)} ELSE {})
  /\ Read(status, profile', None)
  /\ saving' = None /\ dialog' = None /\ apart' = FALSE
  /\ UNCHANGED <<status, typed, signed>>

\* "Start the application" and "Start a new application": the facts stay as a draft.
Start ==
  /\ Idle /\ "started" \in Transitions[view.status]
  /\ "started" \in Transitions[status]
  /\ status' = "started" /\ Read("started", profile, None) /\ apart' = FALSE
  /\ UNCHANGED <<profile, saving, dialog, typed, signed>>

\* The inputs are not disabled while a save is under way.
Type(f, t) ==
  /\ Filling /\ dialog = None /\ typed < MaxTyped
  /\ t \in Offers(f) /\ t # form.draft[f]
  /\ form' = [form EXCEPT !.draft[f] = t]
  /\ typed' = typed + 1 /\ apart' = TRUE
  /\ UNCHANGED <<status, profile, view, saving, dialog, signed>>

\* "Save the draft" is always offered, "Read the statement" when the form is ready.
BeginSave(next) ==
  /\ Idle /\ Filling
  /\ next = "attest" => Ready(form.draft)
  /\ saving' = [body |-> ForApi(form.draft), next |-> next] /\ apart' = FALSE
  /\ UNCHANGED <<status, profile, view, form, dialog, typed, signed>>

\* Mutant: the page goes on to the statement whether the draft was saved or not.
EndSaveGoesOn ==
  /\ saving # None /\ saving' = None /\ form # None
  /\ profile' = (IF Lands THEN Parsed(saving.body) ELSE profile)
  /\ form' = [form EXCEPT !.step = saving.next]
  /\ UNCHANGED <<status, view, dialog, typed, signed, apart>>

\* A refused body is marked by the heads of its fields; other errors mark nothing.
EndSave ==
  /\ saving # None /\ saving' = None
  /\ IF Lands
     THEN /\ profile' = Parsed(saving.body)
          /\ Read(status, profile', IF form = None THEN None
                                    ELSE [form EXCEPT !.marks = {}, !.step = saving.next])
     ELSE /\ form' = IF form = None THEN None
                     ELSE [form EXCEPT !.marks = {BodyKey(f) : f \in Refused(saving.body)}]
          /\ UNCHANGED <<profile, view>>
  /\ UNCHANGED <<status, dialog, typed, signed, apart>>

\* No answer arrived, whether the body was saved or not.
LoseAnswer ==
  /\ saving # None /\ saving' = None
  /\ profile' \in {profile} \cup (IF Lands THEN {Parsed(saving.body)} ELSE {})
  /\ form' = IF form = None THEN None ELSE [form EXCEPT !.marks = {}]
  /\ UNCHANGED <<status, view, dialog, typed, signed, apart>>

ReadAttestation ==
  /\ form # None /\ form.step = "attest" /\ SubmitCheck
  /\ form' = [form EXCEPT !.statement = AttestationStatement(profile)]
  /\ UNCHANGED <<status, profile, view, saving, dialog, typed, signed, apart>>

BackToBusiness ==
  /\ Idle /\ form # None /\ form.step = "attest"
  /\ form' = [form EXCEPT !.step = "business"]
  /\ UNCHANGED <<status, profile, view, saving, dialog, typed, signed, apart>>

\* Words that have changed are shown and not signed. Above them the page shows
\* the draft, which differs from the stored facts by blanks and case alone.
SignAndSubmit ==
  /\ Idle /\ form # None /\ form.step = "attest" /\ form.statement # None /\ SubmitCheck
  /\ LET fresh == AttestationStatement(profile)
     IN IF fresh # form.statement
        THEN /\ form' = [form EXCEPT !.statement = fresh]
             /\ UNCHANGED <<status, view, signed>>
        ELSE /\ status' = "pending" /\ Read("pending", profile, None)
             /\ signed' = [page |-> AttestationStatement(Parsed(ForApi(form.draft))),
                           words |-> fresh, apart |-> apart]
  /\ UNCHANGED <<profile, saving, dialog, typed, apart>>

-----------------------------------------------------------------------------
(* The reviewer's dialog.                                                    *)

OpenDialog ==
  /\ dialog = None /\ DecisionOptions(view.status) # {}
  /\ dialog' = FirstOption(view.status)
  /\ UNCHANGED <<status, profile, view, form, saving, typed, signed, apart>>

Choose(option) ==
  /\ dialog # None /\ option \in DecisionOptions(view.status)
  /\ dialog' = option
  /\ UNCHANGED <<status, profile, view, form, saving, typed, signed, apart>>

\* What the dialog and the schema say of a reason; a blank one is not sent.
ReasonProblem(t) == t.length > 0 /\ (t.pasted \/ t.longRun)
ReasonAccepted(t) == t.length = 0 \/ (3 <= t.length /\ t.length <= 500 /\ FreeText(t))

RecordDecision(reason) ==
  /\ dialog # None /\ ~ReasonProblem(reason)
  /\ ReasonAccepted(reason) /\ dialog \in DecisionStatuses \cap Transitions[status]
  /\ status' = dialog /\ Read(dialog, profile, form) /\ dialog' = None
  /\ UNCHANGED <<profile, saving, typed, signed, apart>>

Cancel ==
  /\ dialog # None /\ dialog' = None
  /\ UNCHANGED <<status, profile, view, form, saving, typed, signed, apart>>

-----------------------------------------------------------------------------
(* Another owner, with a page of their own.                                  *)

OtherSaves(stored) ==
  /\ status = "started" /\ typed < MaxTyped /\ stored # profile
  /\ profile' = stored /\ typed' = typed + 1 /\ apart' = TRUE
  /\ UNCHANGED <<status, view, form, saving, dialog, signed>>

OtherMoves(to) ==
  /\ to \in Transitions[status] \ {"pending"} /\ typed < MaxTyped
  /\ status' = to /\ typed' = typed + 1
  /\ UNCHANGED <<profile, view, form, saving, dialog, signed, apart>>

Next ==
  \/ Load \/ Start \/ EndSave \/ LoseAnswer \/ ReadAttestation \/ BackToBusiness \/ SignAndSubmit
  \/ \E f \in Field, t \in Sample \cup {Blank} : Type(f, t)
  \/ \E next \in {"business", "attest"} : BeginSave(next)
  \/ OpenDialog \/ Cancel
  \/ \E option \in DecisionStatuses : Choose(option)
  \/ \E reason \in Reason : RecordDecision(reason)
  \/ \E stored \in Elsewhere : OtherSaves(stored)
  \/ \E to \in DOMAIN Transitions : OtherMoves(to)

Spec == Init /\ [][Next]_vars

-----------------------------------------------------------------------------
\* The form and the API agree. The form never holds up an application that the
\* API would take; it points at every document, and every number of a document,
\* that the API refuses in prose; what is saved can be loaded, and loaded, it
\* can be saved as it is; and the dialog offers exactly the decisions that the
\* API takes, unless the case has moved since the page was read.
FormAgrees ==
  /\ form # None =>
       LET d == form.draft IN
       /\ Problems(d) \subseteq Refused(ForApi(d))
       /\ \A f \in Field \ Problems(d) :
            /\ f \in FreeTextFields => FreeText(d[f])
            /\ f = "website" => ~d[f].pasted
  /\ profile # NoProfile => Complete(profile) /\ Parsed(ForApi(Hydrate(profile))) = profile
  /\ dialog # None /\ view.status = status => dialog \in DecisionStatuses \cap Transitions[status]

\* An owner signs the facts that the page shows above the words, unless
\* the owner typed while the save was under way or another owner saved since.
SignsWhatThePageShows == signed # None => signed.apart \/ signed.page = signed.words
=============================================================================
