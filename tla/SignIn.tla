------------------------------- MODULE SignIn -------------------------------
(***************************************************************************)
(* Signing in with a wallet, changing the organisation and signing out, from *)
(* the tabs of one browser, which share a cookie.  A first sign-in creates a *)
(* workspace.  Requests carry the cookie that was there when they were sent; *)
(* what a tab shows is the last answer about the session that it was given.  *)
(***************************************************************************)
EXTENDS Naturals, Sequences, FiniteSets

CONSTANTS
  Wallet, Tab,  \* addresses that this person signs with, and tabs
  None,         \* null
  MaxMembers,   \* bound on the memberships
  MaxSession,   \* bound on the sessions
  MaxFlows      \* bound on the requests under way

VARIABLES
  member,    \* human_wallets in their order: the organisation, the wallet, whether active
  session,   \* sessions: the organisation, the wallet, whether live; ghost: whether
             \* issued while the member was put out
  cookie,    \* the session that the browser presents
  tab,       \* per tab: SessionProvider's state and the organisation it shows
  flows,     \* what a tab has asked for, and how far it got
  behind     \* ghost: tabs that show a session from before the cookie changed, or
             \* that signed out without clearing it

vars == <<member, session, cookie, tab, flows, behind>>
Tables == <<member, session>>

Shows(state, org) == [state |-> state, org |-> org]
SignedOut == Shows("signed-out", None)

Init ==
  /\ member = <<>> /\ session = <<>> /\ cookie = None
  /\ tab = [t \in Tab |-> SignedOut] /\ flows = {}
  /\ behind = {}

\* The preHandler: a live session of an active principal.
Belongs(w, org) == \E n \in DOMAIN member : member[n] = [org |-> org, wallet |-> w, active |-> TRUE]
Accepted(s) == s # None /\ session[s].live /\ Belongs(session[s].wallet, session[s].org)

\* A request of a tab: where it is, with the session that it presents or was
\* given, the wallet and the organisation that it is about.
Flow(t, at, s) == [tab |-> t, at |-> at, session |-> s, wallet |-> None, org |-> None]
Start(f) == Cardinality(flows) < MaxFlows /\ f \notin flows /\ flows' = flows \cup {f}
Becomes(f, g) == flows' = (flows \ {f}) \cup {g}
Ends(f) == flows' = flows \ {f}

-----------------------------------------------------------------------------
(* Signing in.                                                              *)

\* POST challenges for the account that the wallet shares, and its signature;
\* one at a time in a tab.
Challenge(t, w) ==
  /\ tab[t].state = "signed-out"
  /\ \A f \in flows : f.tab = t => f.at \notin {"verify", "bootstrap", "enter", "answer"}
  /\ Start([Flow(t, "verify", None) EXCEPT !.wallet = w])
  /\ UNCHANGED <<Tables, cookie, tab, behind>>

\* findMemberships, and the first that is active.
Memberships(w) == {n \in DOMAIN member : member[n].wallet = w}
FirstActive(w) ==
  LET active == {n \in Memberships(w) : member[n].active}
  IN IF active = {} THEN None ELSE member[CHOOSE n \in active : \A k \in active : n <= k].org

\* POST verify, which fails when the challenge has expired, or was signed with
\* the account that is selected by then.
Verify(f) ==
  /\ f.at = "verify"
  /\ \/ Ends(f)
     \/ Memberships(f.wallet) = {} /\ Becomes(f, [f EXCEPT !.at = "bootstrap"])
     \/ /\ FirstActive(f.wallet) # None
        /\ Becomes(f, [f EXCEPT !.at = "enter", !.org = FirstActive(f.wallet)])
  /\ UNCHANGED <<Tables, cookie, tab, behind>>

Orgs == {member[n].org : n \in DOMAIN member}
AddWallet(w, org) == member' = Append(member, [org |-> org, wallet |-> w, active |-> TRUE])
BootstrapOwner(f) ==
  /\ f.at = "bootstrap" /\ Len(member) < MaxMembers
  /\ LET org == Cardinality(Orgs) + 1
     IN AddWallet(f.wallet, org) /\ Becomes(f, [f EXCEPT !.at = "enter", !.org = org])
  /\ UNCHANGED <<session, cookie, tab, behind>>

\* issueSession, of verify and of switch, which asks no more about the member:
\* one that was put out since it was read gets a session too.
CreateSession(f) ==
  /\ f.at = "enter" /\ Len(session) < MaxSession
  /\ session' = Append(session, [org |-> f.org, wallet |-> f.wallet, live |-> TRUE, out |-> ~Belongs(f.wallet, f.org)])
  /\ Becomes(f, [f EXCEPT !.at = "answer", !.session = Len(session) + 1])
  /\ UNCHANGED <<member, cookie, tab, behind>>

-----------------------------------------------------------------------------
(* The answers change the cookie for every tab, and make one load again.     *)

Others(t) == Tab \ {t}

\* Mutant: the pages load again, but not the session.
AnswerPagesOnly(f) ==
  /\ f.at = "answer" /\ cookie' = f.session /\ Ends(f)
  /\ behind' = behind \cup Others(f.tab)
  /\ UNCHANGED <<Tables, tab>>
Answer(f) ==
  /\ f.at = "answer" /\ cookie' = f.session
  /\ Becomes(f, Flow(f.tab, "load", f.session))
  /\ behind' = behind \cup Others(f.tab)
  /\ UNCHANGED <<Tables, tab>>

\* reload, of the provider and of the pages that change the organisation.
Reload(t) ==
  /\ Start(Flow(t, "load", cookie))
  /\ UNCHANGED <<Tables, cookie, tab, behind>>

\* GET session, and its answer: the answers of two requests come in any order.
ShowSession(f) ==
  /\ f.at = "load" /\ Ends(f)
  /\ tab' = [tab EXCEPT ![f.tab] = IF Accepted(f.session) THEN Shows("ready", session[f.session].org) ELSE SignedOut]
  /\ behind' = IF f.session = cookie THEN behind \ {f.tab} ELSE behind \cup {f.tab}
  /\ UNCHANGED <<Tables, cookie>>

-----------------------------------------------------------------------------
(* Changing the organisation, and signing out.                               *)

\* The page offers the memberships that it read with the session.
Switch(t, org) ==
  /\ tab[t].state = "ready" /\ org # tab[t].org
  /\ Start([Flow(t, "switch", cookie) EXCEPT !.org = org])
  /\ UNCHANGED <<Tables, cookie, tab, behind>>

\* POST switch authenticates and reads, and revokes later.
ReadMembership(f) ==
  /\ f.at = "switch"
  /\ IF Accepted(f.session) /\ Belongs(session[f.session].wallet, f.org)
     THEN Becomes(f, [f EXCEPT !.at = "revoke", !.wallet = session[f.session].wallet]) ELSE Ends(f)
  /\ UNCHANGED <<Tables, cookie, tab, behind>>

Revoke(s) == session' = [session EXCEPT ![s].live = FALSE]
RevokeSession(f) ==
  /\ f.at \in {"revoke", "logout"}
  /\ IF f.at = "revoke" THEN Revoke(f.session) /\ Becomes(f, [f EXCEPT !.at = "enter"])
     ELSE IF Accepted(f.session) THEN Revoke(f.session) /\ Becomes(f, [f EXCEPT !.at = "left"])
     ELSE Becomes(f, [f EXCEPT !.at = "refused"]) /\ UNCHANGED session
  /\ UNCHANGED <<member, cookie, tab, behind>>

SignOut(t) ==
  /\ tab[t].state = "ready" /\ Start(Flow(t, "logout", cookie))
  /\ UNCHANGED <<Tables, cookie, tab, behind>>

\* The tab is signed out with any answer and with none; only one clears the cookie.
Leave(f) ==
  /\ f.at \in {"left", "refused", "logout"} /\ Ends(f)
  /\ tab' = [tab EXCEPT ![f.tab] = SignedOut]
  /\ \/ f.at = "left" /\ cookie' = None /\ behind' = (behind \ {f.tab}) \cup Others(f.tab)
     \/ UNCHANGED cookie /\ behind' = behind \cup {f.tab}
  /\ UNCHANGED Tables

\* No answer, or the API stopped: the console says so and stays as it is, or
\* calls the API unreachable.
Fail(f) ==
  /\ f.at \notin {"left", "refused", "logout"} /\ Ends(f)
  /\ tab' = IF f.at = "load" THEN [tab EXCEPT ![f.tab] = Shows("unreachable", None)] ELSE tab
  /\ UNCHANGED <<Tables, cookie, behind>>

-----------------------------------------------------------------------------
(* Other members, and time.                                                  *)

\* addMember, by an owner of that organisation, perhaps one that is not here yet.
AddMember(w, org) ==
  /\ Len(member) < MaxMembers
  /\ \A n \in Memberships(w) : member[n].org # org
  /\ AddWallet(w, org)
  /\ UNCHANGED <<session, cookie, tab, flows, behind>>

\* setPrincipalStatus, of any member and with any status: putting a member out
\* revokes the sessions that it has, and taking it back restores none.
SetPrincipalStatus(n, active) ==
  /\ member' = [member EXCEPT ![n].active = active]
  /\ session' = [s \in DOMAIN session |-> [session[s] EXCEPT !.live = @ /\
       (active \/ session[s].org # member[n].org \/ session[s].wallet # member[n].wallet)]]
  /\ UNCHANGED <<cookie, tab, flows, behind>>

Next ==
  \/ \E t \in Tab :
       \/ \E w \in Wallet : Challenge(t, w)
       \/ \E org \in Orgs : Switch(t, org)
       \/ Reload(t) \/ SignOut(t)
  \/ \E f \in flows :
       \/ Verify(f) \/ BootstrapOwner(f) \/ CreateSession(f) \/ Answer(f)
       \/ ShowSession(f) \/ ReadMembership(f) \/ RevokeSession(f) \/ Leave(f) \/ Fail(f)
  \/ \E w \in Wallet, org \in Orgs \cup {Cardinality(Orgs) + 1} : AddMember(w, org)
  \/ \E n \in DOMAIN member, active \in BOOLEAN : SetPrincipalStatus(n, active)

Spec == Init /\ [][Next]_vars

-----------------------------------------------------------------------------
\* A tab that has nothing under way and is not behind acts in the organisation
\* that it shows, and one that is signed out acts in none: through lost answers,
\* changes of organisation that overlap, and members that are put out and taken
\* back.  Only a session issued after its member was put out, which is refused at
\* first, can be accepted later behind a tab that shows itself signed out.
ActsAsShown ==
  \A t \in Tab \ behind :
    Accepted(cookie) /\ (\A f \in flows : f.tab # t) =>
      \/ tab[t] = Shows("ready", session[cookie].org)
      \/ tab[t].state = "unreachable"
      \/ tab[t] = SignedOut /\ session[cookie].out
=============================================================================
