---------------------------- MODULE PolicyEditor ----------------------------
(***************************************************************************)
(* The terms of one policy, from what an owner types to what they refuse.    *)
(* The editor opens with the terms of a version, shows amounts in the units  *)
(* of its assets, and saves all terms as a new version, also those that the  *)
(* owner left alone.  A list may be old: an editor that was opened before    *)
(* another owner saved opens here with an earlier version.                   *)
(***************************************************************************)
EXTENDS Integers, Sequences, FiniteSets

CONSTANTS
  Asset, NetworkOf, PlacesOf, \* the registry: networks, decimal places
  Unit,        \* by decimal places, an asset's smallest unit as a multiple of the smallest of all
  Address, None,
  Entered,     \* amounts that an owner types, in the smallest unit of any asset
  Imported,    \* terms that a policy may start with
  MaxEntered,  \* bound on the fields that an edit changes
  MaxVersion

VARIABLES
  versions, \* policy_versions: terms, and the form and version they were saved from
  editor    \* PolicyEditor's state, None when it is closed

vars == <<versions, editor>>

Written(terms) == [terms |-> terms, form |-> None, opened |-> 0]
Init ==
  /\ versions \in {<<>>} \cup {<<Written(terms)>> : terms \in Imported}
  /\ editor = None

-----------------------------------------------------------------------------
(* Amounts.  None is an empty field, or a number with too many decimals.     *)

Format(units, places) == units * Unit[places]
Parse(amount, places) ==
  IF amount = None \/ amount % Unit[places] # 0 THEN None ELSE amount \div Unit[places]

-----------------------------------------------------------------------------
(* The form.                                                                *)

Blank ==
  [assets |-> {}, perPayment |-> None, perDay |-> None, autoUpTo |-> 0, always |-> TRUE,
   approvals |-> 1, beneficiary |-> FALSE, x402 |-> FALSE, addresses |-> {}, frozen |-> FALSE]

\* What the editor shows before anything is typed: no amounts while it does not
\* know the decimals.
Shown(terms, loaded) ==
  LET places == PlacesOf[CHOOSE a \in terms.assets : TRUE]
      amount(units) == IF loaded THEN Format(units, places) ELSE None
  IN [assets |-> terms.assets, perPayment |-> amount(terms.perPayment),
      perDay |-> amount(terms.perDay),
      autoUpTo |-> IF terms.always THEN 0 ELSE amount(terms.autoUpTo),
      always |-> terms.always, approvals |-> terms.approvals, beneficiary |-> terms.beneficiary,
      x402 |-> "x402" \in terms.kinds, addresses |-> terms.addresses, frozen |-> terms.frozen]

Fields ==
  [assets |-> SUBSET Asset, perPayment |-> Entered, perDay |-> Entered, autoUpTo |-> Entered,
   always |-> BOOLEAN, approvals |-> 1 .. 2, beneficiary |-> BOOLEAN, x402 |-> BOOLEAN,
   addresses |-> SUBSET Address, frozen |-> BOOLEAN]

Opened == IF editor.opened = 0 THEN Blank ELSE Shown(versions[editor.opened].terms, editor.loaded)
Form == [f \in DOMAIN Fields |-> IF f \in DOMAIN editor.typed THEN editor.typed[f] ELSE Opened[f]]

\* Edit, or New policy; the registry may still be loading.
Open ==
  /\ editor = None /\ Len(versions) < MaxVersion
  /\ \E n \in IF versions = <<>> THEN {0} ELSE DOMAIN versions, loaded \in BOOLEAN :
       editor' = [at |-> "form", opened |-> n, loaded |-> loaded, typed |-> [f \in {} |-> None]]
  /\ UNCHANGED versions

Load ==
  /\ editor # None /\ ~editor.loaded /\ editor' = [editor EXCEPT !.loaded = TRUE]
  /\ UNCHANGED versions

\* A new policy needs three fields.
Room == IF editor.opened = 0 THEN 3 ELSE MaxEntered

\* Assets are offered once they are loaded; two fields are there only sometimes.
Type(field, value) ==
  /\ editor # None /\ editor.at = "form" /\ Form[field] # value
  /\ Cardinality(DOMAIN editor.typed \cup {field}) <= Room
  /\ field = "assets" => editor.loaded
  /\ field = "autoUpTo" => ~Form.always
  /\ field = "frozen" => editor.opened # 0
  /\ editor' = [editor EXCEPT !.typed = [f \in DOMAIN @ \cup {field} |-> IF f = field THEN value ELSE @[f]]]
  /\ UNCHANGED versions

\* submit: the terms that the form stands for, and its own checks on them.
TermsAt(form, places) ==
  [frozen |-> form.frozen, perPayment |-> Parse(form.perPayment, places),
   perDay |-> Parse(form.perDay, places),
   autoUpTo |-> IF form.always THEN 0 ELSE Parse(form.autoUpTo, places),
   networks |-> {NetworkOf[a] : a \in form.assets}, assets |-> form.assets,
   addresses |-> form.addresses,
   kinds |-> IF form.x402 THEN {"transfer", "x402"} ELSE {"transfer"},
   always |-> form.always, approvals |-> form.approvals, beneficiary |-> form.beneficiary]

\* Mutant: a term that is not sent takes the default of the schema.
TermsThawed(form, places) == [TermsAt(form, places) EXCEPT !.frozen = FALSE]
Terms(form, places) == TermsAt(form, places)

Submit ==
  /\ editor # None /\ editor.at = "form" /\ editor.loaded /\ Form.assets # {}
  /\ \E places \in DOMAIN Unit :
       /\ \A a \in Form.assets : PlacesOf[a] = places
       /\ LET terms == Terms(Form, places)
          IN /\ None \notin {terms.perPayment, terms.perDay, terms.autoUpTo}
             /\ terms.perDay >= terms.perPayment /\ terms.autoUpTo <= terms.perPayment
             /\ editor' = [at |-> "saving", opened |-> editor.opened, loaded |-> TRUE,
                           typed |-> editor.typed, terms |-> terms]
  /\ UNCHANGED versions

\* createPolicy, which makes another policy when it is sent again, or
\* addPolicyVersion.
Save ==
  /\ editor # None /\ editor.at = "saving" /\ Len(versions) < MaxVersion
  /\ versions' = IF editor.opened = 0 /\ versions # <<>> THEN versions
                 ELSE Append(versions, [terms |-> editor.terms, form |-> Form, opened |-> editor.opened])
  /\ editor' = [editor EXCEPT !.at = "saved"]

\* The answer closes the editor; without one it stays open as it is.
Close ==
  /\ editor # None /\ editor.at \in {"form", "saved"} /\ editor' = None
  /\ UNCHANGED versions

Fail ==
  /\ editor # None /\ editor.at \in {"saving", "saved"}
  /\ editor' = [at |-> "form", opened |-> editor.opened, loaded |-> TRUE, typed |-> editor.typed]
  /\ UNCHANGED versions

Next ==
  \/ Open \/ Load \/ Submit \/ Save \/ Close \/ Fail
  \/ \E field \in DOMAIN Fields : \E value \in Fields[field] : Type(field, value)

Spec == Init /\ [][Next]_vars

-----------------------------------------------------------------------------
(* What terms do to a payment.                                               *)

Reason == {"frozen", "kind", "network", "asset", "amount", "daily", "address", "beneficiary"}
Refuses(terms, p, r) ==
  \/ r = "frozen" /\ terms.frozen
  \/ r = "kind" /\ p.kind \notin terms.kinds
  \/ r = "network" /\ NetworkOf[p.asset] \notin terms.networks
  \/ r = "asset" /\ p.asset \notin terms.assets
  \/ r = "amount" /\ p.amount > terms.perPayment
  \/ r = "daily" /\ p.amount + p.spent > terms.perDay
  \/ r = "address" /\ terms.addresses # {} /\ p.to \notin terms.addresses
  \/ r = "beneficiary" /\ terms.beneficiary /\ p.kind = "transfer" /\ ~p.approved

Approvals(terms, p) == IF terms.always \/ p.amount > terms.autoUpTo THEN terms.approvals ELSE 0

Amounts == {Parse(e, places) : e \in Entered, places \in DOMAIN Unit} \ {None}
Payment ==
  [kind : {"transfer", "x402"}, asset : Asset, amount : {n + k : n \in Amounts, k \in {0, 1}},
   spent : {0, 1}, to : Address, approved : BOOLEAN]

-----------------------------------------------------------------------------
\* What a save has just written; versions are only ever added.
Saved ==
  {n \in DOMAIN versions : n = Len(versions) /\ versions[n].form # None /\ editor # None /\ editor.at = "saved"}

\* A saved policy lets nothing through that the page it was saved from excludes:
\* no payment of an asset not chosen, over an amount shown, or when frozen.
HoldsWhatWasShown ==
  \A n \in Saved :
    LET form == versions[n].form
        terms == versions[n].terms
        Excluded(p, amount) ==
          p.asset \notin form.assets \/ amount > form.perPayment \/ amount > form.perDay \/ form.frozen
    IN \A p \in Payment : Excluded(p, Format(p.amount, PlacesOf[p.asset])) => \E r \in Reason : Refuses(terms, p, r)

\* The field that each objection to a payment comes from.
From == [frozen |-> "frozen", kind |-> "x402", network |-> "assets", asset |-> "assets",
         amount |-> "perPayment", daily |-> "perDay", address |-> "addresses",
         beneficiary |-> "beneficiary"]
\* Terms as the editor writes them; other clients may write others.
FromConsole(terms) ==
  /\ "transfer" \in terms.kinds /\ terms.networks = {NetworkOf[a] : a \in terms.assets}
  /\ \A a, b \in terms.assets : PlacesOf[a] = PlacesOf[b]
\* An owner loosens only what it changed: a refusal, or an approval, of payments
\* in assets that the policy keeps goes away only with a change of its field, in
\* the form as it was opened, if nobody saved since.
LoosensOnlyWhatChanged ==
  \A n \in Saved \ {1} :
    LET before == versions[n - 1].terms
        after == versions[n].terms
        shown == Shown(before, TRUE)
        form == versions[n].form
        kept(f) == form[f] = shown[f]
    IN versions[n].opened = n - 1 /\ FromConsole(before) =>
         \A p \in {q \in Payment : q.asset \in before.assets \cap after.assets} :
           /\ \A r \in Reason : Refuses(before, p, r) /\ kept(From[r]) => Refuses(after, p, r)
           /\ Approvals(after, p) < Approvals(before, p)
                => \E f \in {"always", "autoUpTo", "approvals"} : ~kept(f)

TermsAsEdited == HoldsWhatWasShown /\ LoosensOnlyWhatChanged
=============================================================================
