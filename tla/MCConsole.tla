----------------------------- MODULE MCConsole -----------------------------
(***************************************************************************)
(* What the members of an organisation do in the console and the operator    *)
(* beside it, one component at a time: a behaviour picks one at the start    *)
(* and leaves the state of the others alone.                                 *)
(***************************************************************************)
EXTENDS Naturals, TLC

CONSTANTS
  None, Wallet, Tab, Owner, Agent, Policy, Target, Run, Path, Profile, Draft, Plan,
  Account, Solana,  \* what proves itself and is paid, and what of it is Solana's
  Lifetime, Drift,  \* of a challenge and between clocks
  Invoice, Mine,    \* of one treasury, and that of the pay page
  Price, OtherPrice, \* what that one asks for, and what the others do
  Sample, Elsewhere, Remark, \* of applications: texts, and those of other owners and reviewers
  Asset, Network, Places, Unit, \* the registry of assets
  Entered, Imported, \* of policies: amounts, and terms from elsewhere
  MaxMembers, MaxSession, MaxFlows, MaxChallenges, MaxTime, MaxTokens, MaxChanges, MaxSigner,
  MaxBinding, MaxEdition, MaxEntered, MaxCases, MaxTyped, MaxResource, MaxVaults, MaxRuns,
  MaxTransfers, MaxAnswers  \* bounds

\* An organisation starts with an owner; times are numbers.
ASSUME ConsoleAssumption == Owner # {} /\ Lifetime \in Nat /\ Drift \in Nat

\* No other open invoice asks for the amount of the page's: the subtotal with its
\* identifier tells them apart.
ASSUME InvoiceAssumption == Mine \in Invoice /\ Price \in Nat /\ OtherPrice \in Nat /\ Price # OtherPrice

\* null is none of the values that it stands in for.
ASSUME NullAssumption ==
  /\ None \notin Nat \cup Plan \cup Path \cup Profile
  /\ None \notin [vault : 1 .. MaxVaults, plan : Plan, stage : {"prepared", "sent"}]
  /\ None \notin [facts : Profile, by : Owner, opened : Nat]
  /\ None \notin [target : Path, answer : Nat \cup {None}]

\* Text is described by what the rules look at, and there is none in an empty one: a
\* pasted document is no number of a register, type or code.
ASSUME TextAssumption ==
  /\ \A t \in Sample \cup UNION {{e[f] : f \in DOMAIN e} : e \in Elsewhere} :
       /\ t = [length |-> t.length, padded |-> t.padded, lower |-> t.lower,
               longRun |-> t.longRun, pasted |-> t.pasted, reads |-> t.reads]
       /\ t.length \in Nat /\ {t.padded, t.lower, t.longRun, t.pasted} \subseteq BOOLEAN
       /\ t.length = 0 => ~t.longRun /\ ~t.pasted /\ t.reads = {}
       /\ t.pasted => t.reads \cap {"register", "type", "jurisdiction", "country"} = {}

\* Amounts are whole numbers of an asset's smallest unit; a policy is for some asset.
ASSUME TermsAssumption ==
  /\ Unit \in [DOMAIN Unit -> Nat \ {0}] /\ Places \in [Asset -> DOMAIN Unit] /\ Entered \subseteq Nat
  /\ \A t \in Imported :
       /\ {t.frozen, t.always, t.beneficiary} \subseteq BOOLEAN
       /\ {t.perPayment, t.perDay, t.autoUpTo, t.approvals} \subseteq Nat
       /\ t.assets # {} /\ t.assets \subseteq Asset /\ t.kinds \subseteq {"transfer", "x402"}

VARIABLES
  part,
  member, session, cookie, window, flows, behind,
  status, token, request, signIn, changes, cutOff, overlapped,
  latest, binding, adding, bind, unlocked,
  edition, editor,
  now, challenges, trade, proven, turnedAway,
  envelope, writes, keys, sealing, run, clear, misordered,
  version, path, data, error, loading, inFlight, mutating, dropped,
  case, opened, decidedBy, profile, submission, tab, save, told, late,
  stage, facts, view, form, saving, decision, typed, signed, apart,
  planned, sent, deployed, recorded, draft, dialog, asking, runs, confirmed, stray,
  evm, invoice, shown, missing, busy, notice, answers, flow, asked, elsewhere, transfers, again

browser == <<member, session, cookie, window, flows, behind>>
members == <<status, token, request, signIn, changes, cutOff, overlapped>>
terms == <<edition, editor>>
proofs == <<now, challenges, trade, proven, turnedAway>>
policies == <<latest, binding, adding, bind, unlocked>>
encryption == <<envelope, writes, keys, sealing, run, clear, misordered>>
page == <<version, path, data, error, loading, inFlight, mutating, dropped>>
wizard == <<case, opened, decidedBy, profile, submission, tab, save, told, late>>
application == <<stage, facts, view, form, saving, decision, typed, signed, apart>>
vaults == <<planned, sent, deployed, recorded, draft, dialog, asking, runs, confirmed, stray>>
payer == <<evm, invoice, shown, missing, busy, notice, answers, flow, asked, elsewhere, transfers, again>>

entry == <<browser, proofs, members>>
rules == <<policies, terms, encryption>>
screens == <<page, wizard, application, vaults, payer>>

Browser == INSTANCE SignIn WITH tab <- window
Proofs == INSTANCE Challenges WITH Wallet <- Account, Client <- Tab, request <- trade
Members == INSTANCE Access
Policies == INSTANCE PolicyBinding WITH MaxVersion <- MaxBinding, overlapped <- unlocked
Editing == INSTANCE PolicyEditor WITH
             Address <- Account, NetworkOf <- Network, PlacesOf <- Places,
             MaxVersion <- MaxEdition, versions <- edition
Keys == INSTANCE KeyRotation
Page == INSTANCE Resource WITH MaxVersion <- MaxResource
Wizard == INSTANCE Verification WITH
            NoProfile <- None, NoStatement <- None, Nobody <- None,
            status <- case, request <- save
Form == INSTANCE ApplicationForm WITH
          Reason <- Remark, status <- stage, profile <- facts, dialog <- decision
Vaults == INSTANCE VaultOpening WITH MaxFlows <- MaxRuns
\* What is left of the other invoice when a part is paid is what this one asks for.
Payer == INSTANCE PayPage WITH
           Subtotal <- [v \in Invoice |-> IF v = Mine THEN Price ELSE OtherPrice],
           Tag <- [v \in Invoice |-> 1], Part <- {1}, told <- notice

\* The applications that other owners save are what the API accepts and stores.
ASSUME StoredAssumption ==
  \A e \in Elsewhere : DOMAIN e \subseteq Form!Field /\ Form!Complete(e) /\ Form!Parsed(e) = e

\* A component that is not picked starts in one of its initial states.
Init ==
  /\ part \in {"browser", "proofs", "members", "policies", "terms", "keys", "page", "wizard", "form",
              "vaults", "payer"}
  /\ Browser!Init /\ Proofs!Init /\ Members!Init /\ Policies!Init /\ Wizard!Init /\ Vaults!Init
  /\ Keys!Init /\ (part # "keys" => \A s \in 1 .. MaxSigner : envelope[s] = None)
  /\ Page!Init /\ (part # "page" => path = CHOOSE p \in Path : TRUE)
  /\ Editing!Init /\ (part # "terms" => edition = <<>>)
  /\ Form!Init /\ (part # "form" => stage = "unstarted")
  /\ Payer!Init /\ (part # "payer" => evm /\ ~elsewhere)

Next ==
  \/ /\ part = "browser" /\ UNCHANGED <<part, proofs, members, rules, screens>>
     /\ Browser!Next
  \/ /\ part = "proofs" /\ UNCHANGED <<part, browser, members, rules, screens>>
     /\ Proofs!Next
  \/ /\ part = "members" /\ UNCHANGED <<part, browser, proofs, rules, screens>>
     /\ Members!Next
  \/ /\ part = "policies" /\ UNCHANGED <<part, terms, encryption, entry, screens>>
     /\ Policies!Next
  \/ /\ part = "terms" /\ UNCHANGED <<part, policies, encryption, entry, screens>>
     /\ Editing!Next
  \/ /\ part = "keys" /\ UNCHANGED <<part, policies, terms, entry, screens>>
     /\ Keys!Next
  \/ /\ part = "page" /\ UNCHANGED <<part, wizard, application, vaults, payer, entry, rules>>
     /\ Page!Next
  \/ /\ part = "wizard" /\ UNCHANGED <<part, page, application, vaults, payer, entry, rules>>
     /\ Wizard!Next
  \/ /\ part = "form" /\ UNCHANGED <<part, page, wizard, vaults, payer, entry, rules>>
     /\ Form!Next
  \/ /\ part = "vaults" /\ UNCHANGED <<part, page, wizard, application, payer, entry, rules>>
     /\ Vaults!Next
  \/ /\ part = "payer" /\ UNCHANGED <<part, page, wizard, application, vaults, entry, rules>>
     /\ Payer!Next

Spec == Init /\ [][Next]_<<part, entry, rules, screens>>

\* Sets whose members are told apart by nothing but their identity; those that
\* no component has in common are exchanged together.
Exchanges == {t @@ o @@ r @@ q @@ f : t \in Permutations(Tab), o \in Permutations(Owner),
                                      r \in Permutations(Run), q \in Permutations(Plan),
                                      f \in Permutations(Profile)}
Symmetry == {e \in Exchanges : (\A v \in DOMAIN e : e[v] = v) \/ \A v \in DOMAIN e : e[v] # v}

-----------------------------------------------------------------------------
\* SignIn: a tab acts in the organisation that it shows.
ActsAsShown == Browser!ActsAsShown
\* Access: the organisation keeps an active owner.
AnOwnerRemains == Members!AnOwnerRemains
\* Access and Challenges: what was cut off stays cut off, and what is let in has
\* proven its wallet.
OnlyGranted == Members!RevokedStaysOut /\ Proofs!Proven
\* PolicyBinding and PolicyEditor: what is bound has a policy, and a policy says
\* what its owners saw and changed.
PoliciesKept == Policies!BindingsFollowPolicy /\ Editing!TermsAsEdited
\* KeyRotation: the worker can open every signer while keys are replaced.
NoKeyLost == Keys!NoKeyLost
\* Resource and PayPage: a settled page shows its resource as it is, and a customer
\* pays the invoice that the page shows.
ShownIsCurrent == Page!ShownIsCurrent /\ Payer!CustomerPaysInvoice
\* Verification: the signed words were shown and still describe the draft.
AttestationHolds == Wizard!AttestationHolds
\* ApplicationForm: form, dialog and API go by the same rules.
FormAgrees == Form!FormAgrees
\* ApplicationForm: the page shows the facts of the words that are signed.
SignsWhatThePageShows == Form!SignsWhatThePageShows
\* VaultOpening: a vault on chain is recorded as it was signed for, or can be.
VaultsAccountedFor == Vaults!VaultsAccountedFor
-----------------------------------------------------------------------------
\* Texts for each rule of the application to judge: one that is good for some
\* fields and bad for others, or too short for most.
Text(length, reads) ==
  [length |-> length, padded |-> FALSE, lower |-> FALSE,
   longRun |-> FALSE, pasted |-> FALSE, reads |-> reads]
Letter == Text(1, {"register"})
Words == [Text(25, {"register"}) EXCEPT !.padded = TRUE]
Number == [Text(8, {"register", "digit"}) EXCEPT !.longRun = TRUE]
Code == [Text(2, {"register", "jurisdiction", "country"}) EXCEPT !.lower = TRUE]
Subdivision == Text(5, {"register", "jurisdiction"})
Website == Text(17, {"url"})
Scan == [Text(25, {"url"}) EXCEPT !.pasted = TRUE]
Company == Text(7, {"register", "type"})
Texts == {Letter, Words, Number, Code, Subdivision, Website, Scan, Company}
Reasons == {Words, Letter, Number, Scan}

\* Applications that are complete, as the API stores them.
Tidy == [Words EXCEPT !.padded = FALSE]
Capitals == [Code EXCEPT !.lower = FALSE]
Good ==
  [f \in {"legalName", "line1", "city", "businessDescription"} |-> Tidy]
  @@ [f \in {"registrationNumber", "postalCode"} |-> Number]
  @@ [f \in {"jurisdiction", "country"} |-> Capitals] @@ ("entityType" :> Company)
Longer == ("line2" :> Tidy) @@ Good
Applications == {Good, Longer}

\* Assets of two networks with one decimal place or none, and terms that a
\* policy may start with; the last are not the console's.
PlacesHere == [a \in Asset |-> IF a = "point" THEN 0 ELSE 1]
NetworkHere == [a \in Asset |-> IF a = "usd2" THEN "n2" ELSE "n1"]
Decimal == [places \in {0, 1} |-> IF places = 0 THEN 10 ELSE 1]
Strict ==
  [frozen |-> TRUE, perPayment |-> 10, perDay |-> 20, autoUpTo |-> 0, assets |-> {"usd1"},
   networks |-> {"n1"}, addresses |-> {CHOOSE a \in Account : TRUE}, kinds |-> {"transfer"}, always |-> TRUE,
   approvals |-> 2, beneficiary |-> TRUE]
Free ==
  [Strict EXCEPT !.frozen = FALSE, !.perPayment = 1, !.perDay = 2, !.autoUpTo = 1, !.always = FALSE,
                 !.assets = {"point"}, !.addresses = {}, !.kinds = {"transfer", "x402"}]
Foreign == [Free EXCEPT !.assets = {"usd1", "usd2"}, !.kinds = {"x402"}]
Drafts == {Strict, Free, Foreign}
=============================================================================
