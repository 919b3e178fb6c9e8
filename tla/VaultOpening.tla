---------------------------- MODULE VaultOpening ----------------------------
(***************************************************************************)
(* An owner opens a vault: the form, the preparation by the API, the         *)
(* deployment by the owner's own wallet, and the record of a treasury once   *)
(* the chain shows what was asked for.  The browser keeps one draft, so that *)
(* a flow that stopped can be finished later.  The dialog may be closed and  *)
(* opened again while its requests go on; closing the tab stops them.        *)
(***************************************************************************)
EXTENDS Naturals, FiniteSets

CONSTANTS
  Plan,      \* what a form can ask for: owners and threshold
  None,      \* null
  MaxVaults, \* bound on the preparations
  MaxFlows   \* bound on the preparations, and on the deployments and records, under way at once

VARIABLES
  planned,   \* per vault: the plan its address was prepared for
  sent,      \* vaults whose deployment is broadcast and not in a block
  deployed,  \* vaults that exist on chain
  recorded,  \* per vault: the plan its treasury was recorded with
  draft,     \* localStorage: one vault, a plan and the stage it got to
  dialog,    \* the component's state, gone when it is closed
  asking,    \* preparations under way, of this dialog or of one since closed
  runs,      \* the rest of each deploy and finish, between two awaits
  confirmed, \* ghost, per vault: the plans on screen when its deployment was signed
  stray      \* ghost: vaults whose draft was not written, was wrong or was lost

vars == <<planned, sent, deployed, recorded, draft, dialog, asking, runs, confirmed, stray>>
Vault == 1 .. MaxVaults
Chain == <<planned, sent, deployed>>

Closed == [step |-> "closed"]
\* Broadcast and confirmed are one stage: no button tells them apart.
Saved(v, plan, stage) == [vault |-> v, plan |-> plan, stage |-> stage]

Init ==
  /\ planned = [v \in Vault |-> None] /\ sent = {} /\ deployed = {}
  /\ recorded = [v \in Vault |-> None] /\ draft = None
  /\ dialog = Closed /\ asking = {} /\ runs = {}
  /\ confirmed = [v \in Vault |-> {}] /\ stray = {}

\* There is one draft: a new one takes the place of whatever was there.
WriteDraft(d) ==
  /\ draft' = d
  /\ stray' = (stray \ {d.vault})
              \cup (IF draft = None THEN {} ELSE {draft.vault} \ {d.vault})
              \cup (IF d.plan = planned'[d.vault] THEN {} ELSE {d.vault})
ClearDraft(v) ==
  /\ draft' = None
  /\ stray' = IF draft = None THEN stray ELSE stray \cup ({draft.vault} \ {v})

-----------------------------------------------------------------------------
(* The dialog.                                                              *)

Show(step, failure) == dialog' = [dialog EXCEPT !.step = step, !.failure = failure]

Open ==
  /\ dialog = Closed
  /\ \E plan \in Plan :
       dialog' = [step |-> "form", form |-> plan, prepared |-> None, failure |-> None,
                  resumable |-> draft]
  /\ UNCHANGED <<Chain, recorded, draft, asking, runs, confirmed, stray>>

\* Closing the dialog leaves its requests under way, with nothing to show for them.
Close ==
  /\ dialog # Closed /\ dialog' = Closed
  /\ asking' = {[a EXCEPT !.here = FALSE] : a \in asking}
  /\ runs' = {[r EXCEPT !.here = FALSE] : r \in runs}
  /\ UNCHANGED <<Chain, recorded, draft, confirmed, stray>>

\* Closing the tab does not; a deployment may be out that nothing has noted.
CloseTab ==
  /\ dialog' = Closed /\ asking' = {} /\ runs' = {}
  /\ stray' = stray \cup {r.vault : r \in {r \in runs : r.at = "sent"}}
  /\ UNCHANGED <<Chain, recorded, draft, confirmed>>

\* The fields are not locked while a preparation is under way.
Edit(plan) ==
  /\ dialog.step = "form" /\ dialog' = [dialog EXCEPT !.form = plan]
  /\ UNCHANGED <<Chain, recorded, draft, asking, runs, confirmed, stray>>

Back ==
  /\ dialog.step = "confirm" /\ Show("form", None)
  /\ UNCHANGED <<Chain, recorded, draft, asking, runs, confirmed, stray>>

\* Without a draft to finish, what was prepared last comes back, or the form.
TryAgain ==
  /\ dialog.step = "failed" /\ dialog.failure = None
  /\ Show(IF dialog.prepared = None THEN "form" ELSE "confirm", None)
  /\ UNCHANGED <<Chain, recorded, draft, asking, runs, confirmed, stray>>

\* Offered for a draft that was prepared and, it says, never signed.
Discard ==
  /\ dialog.step = "form" /\ dialog.resumable # None /\ dialog.resumable.stage = "prepared"
  /\ dialog' = [dialog EXCEPT !.resumable = None]
  /\ ClearDraft(None)
  /\ UNCHANGED <<Chain, recorded, asking, runs, confirmed>>

-----------------------------------------------------------------------------
(* prepare: the executor key and the address, and nothing on chain yet.     *)

Free == Cardinality(runs) < MaxFlows

Busy == \E a \in asking : a.here

BeginPrepare ==
  /\ dialog.step = "form" /\ ~Busy /\ Cardinality(asking) < MaxFlows
  /\ asking' = asking \cup {[plan |-> dialog.form, here |-> TRUE]}
  /\ dialog' = [dialog EXCEPT !.failure = None]
  /\ UNCHANGED <<Chain, recorded, draft, runs, confirmed, stray>>

FinishPrepare(a) ==
  /\ asking' = asking \ {a}
  /\ \E v \in Vault :
       /\ planned[v] = None /\ \A w \in 1 .. v - 1 : planned[w] # None
       /\ planned' = [planned EXCEPT ![v] = a.plan]
       /\ WriteDraft(Saved(v, a.plan, "prepared"))
       /\ dialog' = IF a.here THEN [dialog EXCEPT !.step = "confirm", !.prepared = v, !.failure = None] ELSE dialog
  /\ UNCHANGED <<sent, deployed, recorded, runs, confirmed>>

\* What was prepared before stays prepared.
FailPrepare(a) ==
  /\ asking' = asking \ {a}
  /\ IF a.here THEN Show("failed", None) ELSE UNCHANGED dialog
  /\ UNCHANGED <<Chain, recorded, draft, runs, confirmed, stray>>

-----------------------------------------------------------------------------
(* deploy: the wallet signs and pays, and the draft follows it.             *)

\* The address is the prepared one, everything else is what the form says now.
Deploy ==
  /\ dialog.step = "confirm" /\ ~Busy /\ Free
  /\ LET v == dialog.prepared
     IN /\ runs' = runs \cup {[vault |-> v, plan |-> dialog.form, at |-> "sent", here |-> TRUE]}
        /\ sent' = sent \cup {v}
        /\ confirmed' = [confirmed EXCEPT ![v] = @ \cup {dialog.form}]
  /\ Show("working", None)
  /\ UNCHANGED <<planned, deployed, recorded, draft, asking, stray>>

Refuse ==
  /\ dialog.step = "confirm" /\ ~Busy /\ Show("failed", None)
  /\ UNCHANGED <<Chain, recorded, draft, asking, runs, confirmed, stray>>

GoesTo(r, at) == runs' = (runs \ {r}) \cup {[r EXCEPT !.at = at]}
Ends(r, step, failure) ==
  /\ runs' = runs \ {r}
  /\ IF r.here THEN Show(step, failure) ELSE UNCHANGED dialog

NoteSent(r) ==
  /\ r.at = "sent" /\ GoesTo(r, "waiting")
  /\ UNCHANGED <<Chain, recorded, dialog, asking, confirmed>>
  /\ WriteDraft(Saved(r.vault, r.plan, "sent"))

\* The answer to the send is lost: it counts as not sent.
LoseAnswer(r) ==
  /\ r.at = "sent" /\ Ends(r, "failed", None)
  /\ stray' = stray \cup {r.vault}
  /\ UNCHANGED <<Chain, recorded, draft, asking, confirmed>>

NoteConfirmed(r) ==
  /\ r.at = "waiting" /\ r.vault \in deployed /\ GoesTo(r, "registering")
  /\ UNCHANGED <<Chain, recorded, dialog, asking, confirmed>>
  /\ WriteDraft(Saved(r.vault, r.plan, "sent"))

\* Not confirmed in time, failed on chain, or the API did not answer.
\* Mutant: a deployment that did not confirm leaves no draft.
GiveUpForgetting(r) ==
  /\ r.at = "waiting" /\ Ends(r, "failed", Saved(r.vault, r.plan, "sent"))
  /\ draft' = None
  /\ UNCHANGED <<Chain, recorded, asking, confirmed, stray>>
GiveUp(r) ==
  /\ r.at = "waiting" /\ Ends(r, "failed", Saved(r.vault, r.plan, "sent"))
  /\ UNCHANGED <<Chain, recorded, draft, asking, confirmed, stray>>

-----------------------------------------------------------------------------
(* finish: POST /v1/vaults, again and again while the chain has not caught up. *)

Finish(saved) ==
  /\ Free
  /\ runs' = runs \cup {[vault |-> saved.vault, plan |-> saved.plan, at |-> "registering", here |-> TRUE]}
  /\ UNCHANGED <<Chain, recorded, draft, dialog, asking, confirmed, stray>>

Resume ==
  \/ dialog.step = "failed" /\ dialog.failure # None /\ Finish(dialog.failure)
  \/ /\ dialog.step = "form" /\ dialog.resumable # None /\ dialog.resumable.stage # "prepared"
     /\ Finish(dialog.resumable)

\* The chain must show the owners and the threshold of the request, and for a
\* Safe the address must be the one that they predict.
\* Mutant: it is enough that something is at the address.
VerifiedThere(v, plan) == v \in deployed
Verified(v, plan) == v \in deployed /\ plan = planned[v]

Register(r) ==
  /\ r.at = "registering" /\ Verified(r.vault, r.plan) /\ recorded[r.vault] = None
  /\ recorded' = [recorded EXCEPT ![r.vault] = r.plan]
  /\ GoesTo(r, "recorded")
  /\ UNCHANGED <<Chain, draft, dialog, asking, confirmed, stray>>

Done(r) ==
  /\ r.at = "recorded" /\ runs' = runs \ {r}
  /\ ClearDraft(r.vault)
  /\ dialog' = IF r.here THEN [dialog EXCEPT !.step = "done", !.failure = None, !.resumable = None] ELSE dialog
  /\ UNCHANGED <<Chain, recorded, asking, confirmed>>

\* Refused, recorded already, or no answer.
FailRegister(r) ==
  /\ r.at \in {"registering", "recorded"}
  /\ Ends(r, "failed", Saved(r.vault, r.plan, "sent"))
  /\ UNCHANGED <<Chain, recorded, draft, asking, confirmed, stray>>

-----------------------------------------------------------------------------
(* The chain: an address is deployed once, with the plan it was derived from. *)

Land(v) ==
  /\ v \in sent /\ sent' = sent \ {v} /\ deployed' = deployed \cup {v}
  /\ UNCHANGED <<planned, recorded, draft, dialog, asking, runs, confirmed, stray>>

Drop(v) ==
  /\ v \in sent /\ sent' = sent \ {v}
  /\ UNCHANGED <<planned, deployed, recorded, draft, dialog, asking, runs, confirmed, stray>>

Next ==
  \/ Open \/ Close \/ CloseTab \/ Back \/ TryAgain \/ Discard \/ Resume
  \/ BeginPrepare \/ Deploy \/ Refuse
  \/ \E plan \in Plan : Edit(plan)
  \/ \E a \in asking : FinishPrepare(a) \/ FailPrepare(a)
  \/ \E r \in runs :
       \/ NoteSent(r) \/ LoseAnswer(r) \/ NoteConfirmed(r) \/ GiveUp(r)
       \/ Register(r) \/ Done(r) \/ FailRegister(r)
  \/ \E v \in Vault : Land(v) \/ Drop(v)

Spec == Init /\ [][Next]_vars

-----------------------------------------------------------------------------
\* A vault that Relay records asks of its owners what was on the screen when one
\* of them signed for it, although the form can change beside the preparation.
\* And a vault that is on chain without a record can be recorded from what the
\* browser keeps or is still doing, unless its draft was never written, carries
\* another plan, or gave way to the draft of another vault.
VaultsAccountedFor ==
  /\ \A v \in Vault : recorded[v] # None => recorded[v] \in confirmed[v] /\ recorded[v] = planned[v]
  /\ \A v \in deployed \ stray : recorded[v] = None =>
       \/ \E r \in runs : r.vault = v /\ r.at = "sent"
       \/ draft # None /\ draft.vault = v /\ draft.plan = planned[v] /\ draft.stage # "prepared"
=============================================================================
