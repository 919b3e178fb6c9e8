------------------------------- MODULE Access -------------------------------
(***************************************************************************)
(* Who may act in one organisation: its members with the sessions of their  *)
(* wallets, its agents with their credentials.  A route authenticates first  *)
(* and acts later, and a sign-in reads the memberships before it creates     *)
(* the session; nothing locks the principal in between.                      *)
(***************************************************************************)
EXTENDS Naturals, FiniteSets

CONSTANTS
  Owner, Agent,   \* principals: members with the role owner, and agents
  MaxTokens,      \* bound on the sessions and credentials
  MaxChanges      \* bound on the changes of status

VARIABLES
  status,   \* principals.status
  token,    \* sessions and agent_credentials: their principal and whether revoked
  request,  \* per owner: an authenticated request under way
  signIn,   \* per owner: a sign-in between its awaits
  changes,  \* how often a status was set
  cutOff,   \* ghost: tokens whose principal was put out while they existed
  overlapped \* ghost: an owner acted who had been put out since it authenticated

vars == <<status, token, request, signIn, changes, cutOff, overlapped>>
Principal == Owner \cup Agent
Status == {"active", "frozen", "revoked"}
Ghosts == <<cutOff, overlapped>>

Nothing == [op |-> "none"]
Init ==
  /\ status = [p \in Principal |-> "active"] /\ token = {}
  /\ request = [o \in Owner |-> Nothing] /\ signIn = [o \in Owner |-> "no"]
  /\ changes = 0 /\ cutOff = {} /\ overlapped = FALSE

Of(p) == {t \in token : t.of = p}
Issue(p) ==
  /\ Cardinality(token) < MaxTokens
  /\ token' = token \cup {[of |-> p, number |-> Cardinality(token), live |-> TRUE]}
Revoke(ts) == (token \ ts) \cup {[t EXCEPT !.live = FALSE] : t \in ts}

\* The preHandler: the token is live and its principal is active.
Accepted(t) == t.live /\ status[t.of] = "active"
SignedIn(o) == \E t \in Of(o) : Accepted(t)

-----------------------------------------------------------------------------
(* Sign-in, switch and logout.                                              *)

\* verify: the challenge is consumed and the active memberships are read.
BeginSignIn(o) ==
  /\ signIn[o] = "no" /\ status[o] = "active"
  /\ signIn' = [signIn EXCEPT ![o] = "verified"]
  /\ UNCHANGED <<status, token, request, changes, Ghosts>>

CreateSession(o) ==
  /\ signIn[o] = "verified" /\ Issue(o)
  /\ signIn' = [signIn EXCEPT ![o] = "no"]
  /\ UNCHANGED <<status, request, changes, Ghosts>>

\* switch authenticates, reads the memberships, and revokes before it creates.
Switch(t) ==
  /\ t.of \in Owner /\ Accepted(t) /\ signIn[t.of] = "no"
  /\ token' = Revoke({t}) /\ signIn' = [signIn EXCEPT ![t.of] = "verified"]
  /\ UNCHANGED <<status, request, changes, Ghosts>>

\* The API stops between two of them, and the console signs in again.
AbandonSignIn(o) ==
  /\ signIn[o] # "no" /\ signIn' = [signIn EXCEPT ![o] = "no"]
  /\ UNCHANGED <<status, token, request, changes, Ghosts>>

\* logout, or DELETE of a credential.
RevokeToken(t) ==
  /\ t.live /\ (t.of \in Owner => Accepted(t))
  /\ token' = Revoke({t})
  /\ UNCHANGED <<status, request, signIn, changes, Ghosts>>

-----------------------------------------------------------------------------
(* Members, agents and credentials: requests of an owner.                   *)

\* A member may be set to any status by any owner, but never itself to less.
\* Mutant: an owner may put itself out.
AnyTarget(o, p, s) == s \in Status
Permitted(o, p, s) == p = o => s = "active"

Authenticate(o) ==
  /\ request[o] = Nothing /\ SignedIn(o)
  /\ \/ \E p \in Principal, s \in Status :
          Permitted(o, p, s) /\ request' = [request EXCEPT ![o] = [op |-> "set", to |-> p, status |-> s]]
     \/ \E a \in Agent : status[a] # "revoked"
          /\ request' = [request EXCEPT ![o] = [op |-> "credential", to |-> a]]
  /\ UNCHANGED <<status, token, signIn, changes, Ghosts>>

\* Members lose their sessions with any status but active; agents lose their
\* credentials only when revoked, and a frozen agent's are refused meanwhile.
PutsOut(p, s) == IF p \in Owner THEN s # "active" ELSE s = "revoked"

\* setPrincipalStatus and setAgentStatus, each one transaction.
SetStatus(o) ==
  /\ request[o].op = "set" /\ changes < MaxChanges
  /\ LET p == request[o].to
         s == request[o].status
         out == s = "revoked" \/ (p \in Owner /\ s = "frozen")
     IN /\ status' = [status EXCEPT ![p] = s]
        /\ token' = IF PutsOut(p, s) THEN Revoke(Of(p)) ELSE token
        /\ changes' = changes + 1
        /\ cutOff' = IF out THEN cutOff \cup {t.number : t \in Of(p)} ELSE cutOff
  /\ overlapped' = (overlapped \/ status[o] # "active")
  /\ request' = [request EXCEPT ![o] = Nothing]
  /\ UNCHANGED signIn

\* The agent's status was read before; the insert does not look at it.
CreateCredential(o) ==
  /\ request[o].op = "credential" /\ Issue(request[o].to)
  /\ request' = [request EXCEPT ![o] = Nothing]
  /\ UNCHANGED <<status, signIn, changes, Ghosts>>

AbandonRequest(o) ==
  /\ request[o] # Nothing /\ request' = [request EXCEPT ![o] = Nothing]
  /\ UNCHANGED <<status, token, signIn, changes, Ghosts>>

Next ==
  \/ \E o \in Owner :
       \/ BeginSignIn(o) \/ CreateSession(o) \/ AbandonSignIn(o) \/ Authenticate(o)
       \/ SetStatus(o) \/ CreateCredential(o) \/ AbandonRequest(o)
  \/ \E t \in token : Switch(t) \/ RevokeToken(t)

Spec == Init /\ [][Next]_vars

-----------------------------------------------------------------------------
\* An organisation never locks itself out: some owner is active, unless an owner
\* acted on a check made before it was put out itself.
AnOwnerRemains == overlapped \/ \E o \in Owner : status[o] = "active"

\* A session or credential that existed when its principal was put out is never
\* accepted again, also when the principal is active again later.
RevokedStaysOut ==
  \A t \in token : Accepted(t) => t.number \notin cutOff
=============================================================================
