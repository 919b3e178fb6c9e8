---------------------------- MODULE Console_proofs ----------------------------
(***************************************************************************)
(* Proofs about the components that MCConsole brings together, each in a    *)
(* section of its own: for any number of members, agents, tokens, signers,  *)
(* runs, requests and vaults, and any lifetime of a challenge.              *)
(***************************************************************************)
EXTENDS MCConsole, FiniteSets, Sequences, FiniteSetTheorems, WellFoundedInduction, TLAPS

(***************************************************************************)
(* KeyRotation                                                             *)
(***************************************************************************)
Envelope == {Keys!Legacy, Keys!Sealed("old"), Keys!Sealed("new"), Keys!Held}

KeysTypes ==
  /\ envelope \in [Keys!Signer -> Envelope \cup {None}]
  /\ sealing \in [Keys!Signer -> Envelope \cup {None}]
  /\ keys \in [Keys!Process -> {{"old"}, {"old", "new"}, {"new"}}]

\* The old key is clear of signers from the report on, so that it can go.
KeyCleared ==
  clear => \A s \in Keys!Signer : Keys!Exists(s) => envelope[s].format = 0 \/ envelope[s].key = "new"

KeysInv == KeysTypes /\ (misordered \/ (NoKeyLost /\ KeyCleared))

LEMMA KeysInit == Keys!Init => KeysInv
<1> SUFFICES ASSUME Keys!Init PROVE KeysInv
  OBVIOUS
<1> USE DEF Keys!Init
<1>1. KeysTypes
  BY DEF KeysTypes, Envelope
<1>2. keys["worker"] = {"old"} /\ ~clear
  BY DEF Keys!Process
<1>3. \A s \in Keys!Signer : Keys!Exists(s) => envelope[s].key = "old"
  BY DEF Keys!Exists, Keys!Legacy, Keys!Sealed
<1>4. NoKeyLost /\ KeyCleared
  BY <1>2, <1>3 DEF NoKeyLost, Keys!NoKeyLost, Keys!Opens, KeyCleared
<1> QED
  BY <1>1, <1>4 DEF KeysInv

\* What is written in the order that the operator keeps to can be opened.
LEMMA KeysStore ==
  ASSUME KeysInv, NEW s, NEW e \in Envelope, Keys!Store(s, e), UNCHANGED <<keys, clear>>,
         sealing' \in [Keys!Signer -> Envelope \cup {None}]
  PROVE  KeysInv'
<1> USE DEF Keys!Store
<1>1. KeysTypes'
  BY DEF KeysInv, KeysTypes
<1>2. envelope' = [envelope EXCEPT ![s] = e] /\ envelope \in [Keys!Signer -> Envelope \cup {None}]
  BY DEF KeysInv, KeysTypes
<1>3. ASSUME ~misordered' PROVE (NoKeyLost /\ KeyCleared)'
  <2>1. ~misordered /\ ~Keys!OutOfOrder(e)
    BY <1>3
  <2>2. Keys!Opens(keys["worker"], e) /\ (clear => e.format = 0 \/ e.key = "new")
    BY <2>1 DEF Keys!OutOfOrder, Envelope, Keys!Legacy, Keys!Held, Keys!Sealed
  <2>3. \A t \in Keys!Signer : envelope'[t] = IF t = s THEN e ELSE envelope[t]
    BY <1>2
  <2> QED
    BY <2>1, <2>2, <2>3 DEF KeysInv, NoKeyLost, Keys!NoKeyLost, KeyCleared, Keys!Exists, Keys!Opens
<1> QED
  BY <1>1, <1>3 DEF KeysInv

LEMMA KeysNext == KeysInv /\ Keys!Next => KeysInv'
<1> SUFFICES ASSUME KeysInv, Keys!Next PROVE KeysInv'
  OBVIOUS
<1> USE DEF Keys!Process
<1>0. KeysTypes
  BY DEF KeysInv
<1>1. ASSUME NEW s \in Keys!Signer, Keys!Seal(s) PROVE KeysInv'
  <2>1. KeysTypes'
    BY <1>0, <1>1 DEF KeysTypes, Keys!Seal, Keys!Active, Envelope
  <2> QED
    BY <2>1, <1>1 DEF KeysInv, Keys!Seal, NoKeyLost, Keys!NoKeyLost, KeyCleared, Keys!Exists, Keys!Opens
<1>2. ASSUME NEW s \in Keys!Signer, Keys!CreateSigner(s) PROVE KeysInv'
  <2>1. sealing[s] \in Envelope /\ sealing' \in [Keys!Signer -> Envelope \cup {None}]
    BY <1>0, <1>2 DEF KeysTypes, Keys!CreateSigner
  <2>2. Keys!Store(s, sealing[s]) /\ UNCHANGED <<keys, clear>>
    BY <1>2 DEF Keys!CreateSigner
  <2> QED
    BY <2>1, <2>2, KeysStore
<1>3. ASSUME NEW s \in Keys!Signer, Keys!CreateKmsSigner(s) PROVE KeysInv'
  <2>1. Keys!Held \in Envelope /\ sealing' \in [Keys!Signer -> Envelope \cup {None}]
    BY <1>0, <1>3 DEF KeysTypes, Keys!CreateKmsSigner, Envelope
  <2>2. Keys!Store(s, Keys!Held) /\ UNCHANGED <<keys, clear>>
    BY <1>3 DEF Keys!CreateKmsSigner
  <2> QED
    BY <2>1, <2>2, KeysStore
<1>4. ASSUME NEW p \in Keys!Process, Keys!Introduce(p) PROVE KeysInv'
  <2>1. keys[p] = {"old"} /\ keys' = [keys EXCEPT ![p] = {"old", "new"}]
    BY <1>0, <1>4 DEF KeysTypes, Keys!Introduce
  <2>2. KeysTypes' /\ keys["worker"] \subseteq keys'["worker"]
    BY <1>0, <1>4, <2>1 DEF KeysTypes, Keys!Introduce
  <2> QED
    BY <2>2, <1>4 DEF KeysInv, Keys!Introduce, NoKeyLost, Keys!NoKeyLost, KeyCleared, Keys!Exists, Keys!Opens
<1>5. ASSUME NEW p \in Keys!Process, Keys!Retire(p) PROVE KeysInv'
  <2>1. "new" \in keys'["worker"] \/ keys'["worker"] = keys["worker"]
    BY <1>0, <1>5 DEF KeysTypes, Keys!Retire
  <2>2. KeysTypes'
    BY <1>0, <1>5 DEF KeysTypes, Keys!Retire
  <2> QED
    BY <2>1, <2>2, <1>5 DEF KeysInv, Keys!Retire, NoKeyLost, Keys!NoKeyLost, KeyCleared, Keys!Exists, Keys!Opens
<1>6. ASSUME NEW r \in Run, Keys!Replace(r) PROVE KeysInv'
  <2>1. CASE Keys!Store(run[r].after, Keys!Rewrapped)
    <3>1. Keys!Rewrapped \in Envelope /\ sealing' \in [Keys!Signer -> Envelope \cup {None}]
      BY <1>0, <1>6 DEF KeysTypes, Keys!Replace, Envelope, Keys!Rewrapped
    <3>2. UNCHANGED <<keys, clear>>
      BY <1>6 DEF Keys!Replace
    <3> QED
      BY <2>1, <3>1, <3>2, KeysStore
  <2>2. CASE UNCHANGED <<envelope, misordered>>
    BY <2>2, <1>6 DEF KeysInv, KeysTypes, Keys!Replace, NoKeyLost, Keys!NoKeyLost, KeyCleared,
                      Keys!Exists, Keys!Opens
  <2> QED
    BY <1>6, <2>1, <2>2 DEF Keys!Replace
<1>7. ASSUME NEW r \in Run, Keys!Report(r) PROVE KeysInv'
  <2>1. KeysTypes'
    BY <1>0, <1>7 DEF KeysTypes, Keys!Report
  <2>2. misordered => misordered'
    BY <1>7 DEF Keys!Report
  <2>3. ~misordered => NoKeyLost'
    BY <1>7 DEF KeysInv, Keys!Report, NoKeyLost, Keys!NoKeyLost, Keys!Exists, Keys!Opens
  <2>4. clear' = (clear \/ Keys!ToRewrap = {})
    BY <1>7 DEF Keys!Report
  <2>5. ~misordered => KeyCleared'
    BY <2>4, <1>7 DEF KeysInv, Keys!Report, KeyCleared, Keys!Exists, Keys!ToRewrap
  <2> QED
    BY <2>1, <2>2, <2>3, <2>5 DEF KeysInv
<1>8. ASSUME NEW r \in Run, Keys!Start(r) \/ Keys!ReadNext(r) \/ Keys!Crash(r) PROVE KeysInv'
  <2>1. UNCHANGED <<envelope, writes, keys, sealing, clear, misordered>>
    BY <1>8 DEF Keys!Start, Keys!ReadNext, Keys!Crash
  <2> QED
    BY <2>1 DEF KeysInv, KeysTypes, NoKeyLost, Keys!NoKeyLost, KeyCleared, Keys!Exists, Keys!Opens
<1> QED
  BY <1>1, <1>2, <1>3, <1>4, <1>5, <1>6, <1>7, <1>8 DEF Keys!Next

LEMMA KeysStep == KeysInv /\ [Next]_<<part, entry, rules, screens>> => KeysInv'
<1> SUFFICES ASSUME KeysInv, [Next]_<<part, entry, rules, screens>> PROVE KeysInv'
  OBVIOUS
<1>1. CASE Keys!Next
  BY <1>1, KeysNext
<1>2. CASE UNCHANGED encryption
  BY <1>2 DEF encryption, KeysInv, KeysTypes, NoKeyLost, Keys!NoKeyLost, KeyCleared, Keys!Exists, Keys!Opens
<1> QED
  BY <1>1, <1>2 DEF Next, rules

\* KeyRotation (rotateKeyEncryption, rotate-keys.ts, openSecret): the worker can
\* open every signer at every time while its key is replaced, whatever runs overlap
\* or stop, as long as the operator keeps to the order of the steps.
THEOREM WorkerKeepsItsSigners == Spec => []NoKeyLost
<1>1. Init => KeysInv
  BY KeysInit DEF Init
<1>2. KeysInv => NoKeyLost
  BY DEF KeysInv, NoKeyLost, Keys!NoKeyLost
<1> QED
  BY <1>1, <1>2, KeysStep, PTL DEF Spec

(***************************************************************************)
(* Access                                                                  *)
(***************************************************************************)

\* The requests under way, as they were permitted.
Permission == [op : {"set"}, to : Members!Principal, status : Members!Status]
              \cup [op : {"credential"}, to : Agent] \cup {Members!Nothing}
RequestsPermitted ==
  /\ status \in [Members!Principal -> Members!Status] /\ request \in [Owner -> Permission]
  /\ \A o \in Owner : request[o].op = "set" => Members!Permitted(o, request[o].to, request[o].status)

OwnersInv == RequestsPermitted /\ AnOwnerRemains

LEMMA OwnersInit == Members!Init => OwnersInv
<1> SUFFICES ASSUME Members!Init PROVE OwnersInv
  OBVIOUS
<1>1. RequestsPermitted
  BY DEF Members!Init, RequestsPermitted, Permission, Members!Nothing, Members!Status
<1>2. AnOwnerRemains
  BY ConsoleAssumption DEF Members!Init, AnOwnerRemains, Members!AnOwnerRemains, Members!Principal
<1> QED
  BY <1>1, <1>2 DEF OwnersInv

LEMMA OwnersNext == OwnersInv /\ Members!Next => OwnersInv'
<1> SUFFICES ASSUME OwnersInv, Members!Next PROVE OwnersInv'
  OBVIOUS
<1>0. RequestsPermitted
  BY DEF OwnersInv
<1>1. ASSUME UNCHANGED <<status, request, overlapped>> PROVE OwnersInv'
  BY <1>1 DEF OwnersInv, RequestsPermitted, AnOwnerRemains, Members!AnOwnerRemains
<1>2. ASSUME NEW o \in Owner, Members!Authenticate(o) PROVE OwnersInv'
  <2>1. PICK r \in Permission :
          /\ request' = [request EXCEPT ![o] = r]
          /\ r.op = "set" => Members!Permitted(o, r.to, r.status)
    <3>1. CASE \E p \in Members!Principal, s \in Members!Status :
                 /\ Members!Permitted(o, p, s)
                 /\ request' = [request EXCEPT ![o] = [op |-> "set", to |-> p, status |-> s]]
      <4>1. PICK p \in Members!Principal, s \in Members!Status :
                 /\ Members!Permitted(o, p, s)
                 /\ request' = [request EXCEPT ![o] = [op |-> "set", to |-> p, status |-> s]]
        BY <3>1
      <4>2. [op |-> "set", to |-> p, status |-> s] \in Permission
        BY DEF Permission
      <4> QED
        BY <4>1, <4>2
    <3>2. CASE \E a \in Agent : request' = [request EXCEPT ![o] = [op |-> "credential", to |-> a]]
      <4>1. PICK a \in Agent : request' = [request EXCEPT ![o] = [op |-> "credential", to |-> a]]
        BY <3>2
      <4>2. [op |-> "credential", to |-> a] \in Permission /\ "credential" # "set"
        BY DEF Permission
      <4> QED
        BY <4>1, <4>2
    <3> QED
      BY <1>2, <3>1, <3>2 DEF Members!Authenticate
  <2>2. UNCHANGED <<status, overlapped>>
    BY <1>2 DEF Members!Authenticate, Members!Ghosts
  <2> QED
    BY <1>0, <2>1, <2>2 DEF OwnersInv, RequestsPermitted, AnOwnerRemains, Members!AnOwnerRemains, Members!Permitted
<1>3. ASSUME NEW o \in Owner, request' = [request EXCEPT ![o] = Members!Nothing], UNCHANGED <<status, overlapped>>
      PROVE  OwnersInv'
  <2>1. Members!Nothing \in Permission /\ Members!Nothing.op # "set"
    BY DEF Permission, Members!Nothing
  <2> QED
    BY <1>0, <1>3, <2>1 DEF OwnersInv, RequestsPermitted, AnOwnerRemains, Members!AnOwnerRemains, Members!Permitted
<1>4. ASSUME NEW o \in Owner, Members!SetStatus(o) PROVE OwnersInv'
  <2>1. Members!Nothing \in Permission /\ Members!Nothing.op # "set"
    BY DEF Permission, Members!Nothing
  <2> DEFINE p == request[o].to
             s == request[o].status
  <2>2. p \in Members!Principal /\ s \in Members!Status /\ Members!Permitted(o, p, s)
    BY <1>0, <1>4 DEF Members!SetStatus, RequestsPermitted, Permission, Members!Nothing
  <2>3. /\ status' = [status EXCEPT ![p] = s] /\ request' = [request EXCEPT ![o] = Members!Nothing]
        /\ overlapped' = (overlapped \/ status[o] # "active")
    BY <1>4 DEF Members!SetStatus
  <2>4. RequestsPermitted'
    BY <1>0, <2>1, <2>2, <2>3 DEF RequestsPermitted, Members!Permitted
  <2>5. ~overlapped' => status'[o] = "active"
    BY <1>0, <2>2, <2>3 DEF RequestsPermitted, Members!Permitted, Members!Principal
  <2> QED
    BY <2>4, <2>5 DEF OwnersInv, AnOwnerRemains, Members!AnOwnerRemains
<1> QED
  BY <1>1, <1>2, <1>3, <1>4 DEF Members!Next, Members!Ghosts, Members!BeginSignIn, Members!CreateSession,
     Members!AbandonSignIn, Members!Switch, Members!RevokeToken, Members!CreateCredential, Members!AbandonRequest

LEMMA OwnersStep == OwnersInv /\ [Next]_<<part, entry, rules, screens>> => OwnersInv'
<1> SUFFICES ASSUME OwnersInv, [Next]_<<part, entry, rules, screens>> PROVE OwnersInv'
  OBVIOUS
<1>1. CASE Members!Next
  BY <1>1, OwnersNext
<1>2. CASE UNCHANGED members
  BY <1>2 DEF members, OwnersInv, RequestsPermitted, AnOwnerRemains, Members!AnOwnerRemains
<1> QED
  BY <1>1, <1>2 DEF Next, entry

\* Access (setPrincipalStatus and the routes of app.ts): however many owners change each
\* other's status at once, one of them is active, unless one of them acted that had
\* been put out since its request was authenticated.
THEOREM NeverLockedOut == Spec => []AnOwnerRemains
<1>1. Init => OwnersInv
  BY OwnersInit DEF Init
<1>2. OwnersInv => AnOwnerRemains
  BY DEF OwnersInv
<1> QED
  BY <1>1, <1>2, OwnersStep, PTL DEF Spec

\* Tokens are numbered in the order in which they are issued, and one that was cut
\* off is dead.
Token == [of : Members!Principal, number : Nat, live : BOOLEAN]
TokensInv ==
  /\ token \subseteq Token /\ IsFiniteSet(token) /\ request \in [Owner -> Permission]
  /\ \A t \in token : t.number < Cardinality(token)
  /\ \A s, t \in token : s.number = t.number => s = t
  /\ cutOff \subseteq {t.number : t \in token}
  /\ \A t \in token : t.number \in cutOff => ~t.live

LEMMA TokensInit == Members!Init => TokensInv
<1> SUFFICES ASSUME Members!Init PROVE TokensInv
  OBVIOUS
<1> USE DEF Members!Init
<1>1. request \in [Owner -> Permission]
  BY DEF Permission
<1> QED
  BY <1>1, FS_EmptySet DEF TokensInv

LEMMA SameCardinality == \A S : Members!Cardinality(S) = Cardinality(S)
BY DEF Members!Cardinality, Cardinality

\* A token more is another token.
LEMMA TokensIssue ==
  ASSUME TokensInv, NEW p \in Members!Principal, Members!Issue(p), UNCHANGED cutOff,
         request' \in [Owner -> Permission]
  PROVE  TokensInv'
<1> DEFINE n == Cardinality(token)
           new == [of |-> p, number |-> n, live |-> TRUE]
<1>1. n \in Nat /\ IsFiniteSet(token) /\ token \subseteq Token
  BY FS_CardinalityType DEF TokensInv
<1>2. token' = token \cup {new} /\ new \in Token /\ new.number = n
  <2>1. token' = token \cup {new}
    BY SameCardinality DEF Members!Issue
  <2>2. new \in [of : Members!Principal, number : Nat, live : BOOLEAN]
    BY <1>1
  <2> QED
    BY <2>1, <2>2 DEF Token
<1>3. \A t \in token : t.number \in Nat /\ t.number < n
  BY <1>1 DEF TokensInv, Token
<1>4. new \notin token
  BY <1>1, <1>2, <1>3
<1>5. IsFiniteSet(token') /\ Cardinality(token') = n + 1
  BY <1>1, <1>2, <1>4, FS_AddElement
<1> HIDE DEF new, n
<1>6. \A t \in token' : t = new \/ (t \in token /\ t.number < n)
  BY <1>2, <1>3
<1>7. \A t \in token' : t.number < Cardinality(token')
  BY <1>1, <1>2, <1>3, <1>5, <1>6
<1>8. \A s, t \in token' : s.number = t.number => s = t
  BY <1>1, <1>2, <1>3, <1>6 DEF TokensInv
<1>9. cutOff' \subseteq {t.number : t \in token'} /\ n \notin cutOff
  BY <1>1, <1>2, <1>3 DEF TokensInv
<1>10. \A t \in token' : t.number \in cutOff' => ~t.live
  BY <1>2, <1>6, <1>9 DEF TokensInv
<1> QED
  BY <1>1, <1>2, <1>5, <1>7, <1>8, <1>9, <1>10 DEF TokensInv

\* Tokens that are revoked stay the same tokens, but dead.
LEMMA TokensRevoke ==
  ASSUME TokensInv, NEW ts \in SUBSET token, token' = Members!Revoke(ts), request' \in [Owner -> Permission],
         cutOff' \subseteq cutOff \cup {t.number : t \in ts}
  PROVE  TokensInv'
<1> DEFINE R(t) == IF t \in ts THEN [t EXCEPT !.live = FALSE] ELSE t
           f == [t \in token |-> R(t)]
<1>1. token \subseteq Token /\ IsFiniteSet(token)
  BY DEF TokensInv
<1>3. \A t \in token : R(t) \in Token /\ R(t).number = t.number /\ (R(t).live => t \notin ts /\ t.live)
  BY <1>1 DEF Token
<1>4. token' = {R(t) : t \in token}
  BY DEF Members!Revoke
<1> HIDE DEF R
<1>5. f \in Bijection(token, token')
  <2>1. f \in [token -> token'] /\ \A t \in token : f[t] = R(t)
    BY <1>4
  <2>2. \A s, t \in token : f[s] = f[t] => s = t
    BY <2>1, <1>3 DEF TokensInv
  <2>3. \A u \in token' : \E t \in token : f[t] = u
    BY <2>1, <1>4
  <2> QED
    BY <2>1, <2>2, <2>3 DEF Bijection, Injection, IsInjective, Surjection
<1>6. IsFiniteSet(token') /\ Cardinality(token') = Cardinality(token)
  BY <1>1, <1>5, FS_Bijection DEF ExistsBijection
<1>7. \A u \in token' : \E t \in token : u = R(t)
  BY <1>4
<1>8. \A u \in token' : u.number < Cardinality(token')
  BY <1>3, <1>6, <1>7 DEF TokensInv
<1>9. \A u, v \in token' : u.number = v.number => u = v
  BY <1>3, <1>7 DEF TokensInv
<1>10. cutOff' \subseteq {t.number : t \in token'}
  <2>1. \A t \in token : R(t) \in token' /\ R(t).number = t.number
    BY <1>3, <1>4
  <2>2. \A c \in cutOff' : \E t \in token : t.number = c
    BY DEF TokensInv
  <2> QED
    BY <2>1, <2>2
<1>11. \A u \in token' : u.number \in cutOff' => ~u.live
  <2> SUFFICES ASSUME NEW t \in token, t.number \in cutOff' PROVE ~R(t).live
    BY <1>3, <1>7
  <2>1. CASE t.number \in cutOff
    BY <2>1, <1>3 DEF TokensInv
  <2>2. CASE \E s \in ts : s.number = t.number
    BY <2>2, <1>3 DEF TokensInv
  <2> QED
    BY <2>1, <2>2
<1>12. token' \subseteq Token
  BY <1>3, <1>7
<1> QED
  BY <1>6, <1>8, <1>9, <1>10, <1>11, <1>12 DEF TokensInv

LEMMA TokensNext == RequestsPermitted /\ TokensInv /\ Members!Next /\ RequestsPermitted' => TokensInv'
<1> SUFFICES ASSUME RequestsPermitted, TokensInv, Members!Next, RequestsPermitted' PROVE TokensInv'
  OBVIOUS
<1> USE DEF Members!Ghosts
<1>0. request' \in [Owner -> Permission]
  BY DEF RequestsPermitted
<1>1. ASSUME UNCHANGED <<token, cutOff>> PROVE TokensInv'
  BY <1>0, <1>1 DEF TokensInv
<1>2. ASSUME NEW o \in Owner, Members!CreateSession(o) PROVE TokensInv'
  <2>1. o \in Members!Principal /\ Members!Issue(o) /\ UNCHANGED cutOff
    BY <1>2 DEF Members!CreateSession, Members!Principal
  <2> QED
    BY <1>0, <2>1, TokensIssue
<1>3. ASSUME NEW t \in token, Members!Switch(t) \/ Members!RevokeToken(t) PROVE TokensInv'
  <2>1. {t} \in SUBSET token /\ token' = Members!Revoke({t}) /\ UNCHANGED cutOff
    BY <1>3 DEF Members!Switch, Members!RevokeToken
  <2>2. cutOff' \subseteq cutOff \cup {s.number : s \in {t}}
    BY <2>1
  <2> QED
    BY <1>0, <2>1, <2>2, TokensRevoke
<1>4. ASSUME NEW o \in Owner, Members!SetStatus(o) PROVE TokensInv'
  <2> DEFINE p == request[o].to
             s == request[o].status
             out == s = "revoked" \/ (p \in Owner /\ s = "frozen")
  <2>1. /\ token' = IF Members!PutsOut(p, s) THEN Members!Revoke(Members!Of(p)) ELSE token
        /\ cutOff' = IF out THEN cutOff \cup {t.number : t \in Members!Of(p)} ELSE cutOff
    BY <1>4 DEF Members!SetStatus
  <2>2. out => Members!PutsOut(p, s)
    BY DEF Members!PutsOut
  <2>3. CASE Members!PutsOut(p, s)
    <3>1. Members!Of(p) \in SUBSET token /\ token' = Members!Revoke(Members!Of(p))
      BY <2>1, <2>3 DEF Members!Of
    <3>2. cutOff' \subseteq cutOff \cup {t.number : t \in Members!Of(p)}
      BY <2>1
    <3> QED
      BY <1>0, <3>1, <3>2, TokensRevoke
  <2>4. CASE ~Members!PutsOut(p, s)
    BY <2>1, <2>2, <2>4, <1>1
  <2> QED
    BY <2>3, <2>4
<1>5. ASSUME NEW o \in Owner, Members!CreateCredential(o) PROVE TokensInv'
  <2>1. request[o].to \in Members!Principal
    BY <1>5 DEF Members!CreateCredential, RequestsPermitted, Permission, Members!Nothing, Members!Principal
  <2>2. Members!Issue(request[o].to) /\ UNCHANGED cutOff
    BY <1>5 DEF Members!CreateCredential
  <2> QED
    BY <1>0, <2>1, <2>2, TokensIssue
<1> QED
  BY <1>1, <1>2, <1>3, <1>4, <1>5 DEF Members!Next, Members!BeginSignIn, Members!AbandonSignIn,
     Members!Authenticate, Members!AbandonRequest

LEMMA TokensStep ==
  OwnersInv /\ OwnersInv' /\ TokensInv /\ [Next]_<<part, entry, rules, screens>> => TokensInv'
<1> SUFFICES ASSUME OwnersInv, OwnersInv', TokensInv, [Next]_<<part, entry, rules, screens>> PROVE TokensInv'
  OBVIOUS
<1>1. CASE Members!Next
  BY <1>1, TokensNext DEF OwnersInv
<1>2. CASE UNCHANGED members
  BY <1>2 DEF members, TokensInv
<1> QED
  BY <1>1, <1>2 DEF Next, entry

LEMMA WhatWasCutOff == TokensInv => Members!RevokedStaysOut
BY DEF TokensInv, Members!RevokedStaysOut, Members!Accepted

(***************************************************************************)
(* Challenges                                                              *)
(***************************************************************************)
Challenge == [message : [address : Account, issuedAt : Nat, expirationTime : Nat], consumed : BOOLEAN, at : Nat]
Signed == [by : Account, over : Nat]
Trade == [at : {"sent", "consumed", "verified"}, nonce : Nat, address : Account, signature : Signed, deserves : BOOLEAN]
Proof == [wallet : Account, nonce : Nat, signature : Signed]

ProofsTypes ==
  /\ now \in Nat /\ challenges \in Seq(Challenge) /\ proven \in Seq(Proof)
  /\ trade \in [Tab -> Trade \cup {Proofs!Nothing}]

\* The wallet has signed the challenge, which was made out to it.
Stands(w, n, signature) ==
  challenges[n].message.address = w /\ signature = [by |-> w, over |-> n]

\* Whatever clock wrote a challenge, it was none that is far ahead.
Written(c, time) ==
  /\ c.at <= time /\ c.at <= c.message.issuedAt /\ c.message.issuedAt <= c.at + Drift
  /\ c.message.expirationTime = c.message.issuedAt + Lifetime
AllWritten == \A n \in 1 .. Len(challenges) : Written(challenges[n], now)

Active(r) == r.at \in {"consumed", "verified"}
Traded(r) ==
  r.at # "idle" =>
    /\ r.nonce \in 1 .. Len(challenges) /\ (Active(r) => challenges[r.nonce].consumed)
    /\ r.at = "verified" => Stands(r.address, r.nonce, r.signature)
    /\ r.at = "consumed" /\ r.deserves =>
         /\ Stands(r.address, r.nonce, r.signature)
         /\ now < challenges[r.nonce].at + Lifetime - Drift
AllTraded == \A c \in Tab : Traded(trade[c])

\* The request or the session that a challenge went to is the only one.
Apart ==
  /\ \A c, d \in Tab : Active(trade[c]) /\ Active(trade[d]) /\ trade[c].nonce = trade[d].nonce => c = d
  /\ \A c \in Tab, k \in 1 .. Len(proven) : Active(trade[c]) => trade[c].nonce # proven[k].nonce
  /\ \A j, k \in 1 .. Len(proven) : proven[j].nonce = proven[k].nonce => j = k
AllProven ==
  \A k \in 1 .. Len(proven) :
    /\ proven[k].nonce \in 1 .. Len(challenges) /\ challenges[proven[k].nonce].consumed
    /\ Stands(proven[k].wallet, proven[k].nonce, proven[k].signature)

ProofsInv == ProofsTypes /\ AllWritten /\ AllTraded /\ Apart /\ AllProven /\ ~turnedAway

LEMMA ProofsInit == Proofs!Init => ProofsInv
<1> SUFFICES ASSUME Proofs!Init PROVE ProofsInv
  OBVIOUS
<1> USE DEF Proofs!Init
<1>1. ProofsTypes /\ Len(challenges) = 0 /\ Len(proven) = 0
  BY DEF ProofsTypes
<1>2. \A c \in Tab : trade[c].at = "idle"
  BY DEF Proofs!Nothing
<1> QED
  BY <1>1, <1>2 DEF ProofsInv, AllWritten, AllTraded, Traded, Apart, Active, AllProven

\* A challenge more, or one that is consumed: those before it stay what they say.
LEMMA ProofsGrow ==
  ASSUME ProofsInv, challenges' \in Seq(Challenge), now' = now, proven' = proven,
         Len(challenges) <= Len(challenges'),
         \A n \in 1 .. Len(challenges) :
           /\ challenges'[n].message = challenges[n].message /\ challenges'[n].at = challenges[n].at
           /\ challenges[n].consumed => challenges'[n].consumed
  PROVE  /\ \A n \in 1 .. Len(challenges) : Written(challenges'[n], now') /\ n \in 1 .. Len(challenges')
         /\ \A r \in Trade : Traded(r) => Traded(r)'
         /\ AllProven'
<1>1. Len(challenges) \in Nat /\ Len(challenges') \in Nat
  BY DEF ProofsInv, ProofsTypes
<1>2. 1 .. Len(challenges) \subseteq 1 .. Len(challenges')
  BY <1>1
<1>3. \A n \in 1 .. Len(challenges) : Written(challenges'[n], now')
  BY DEF ProofsInv, AllWritten, Written
<1>4. \A r \in Trade : Traded(r) => Traded(r)'
  BY <1>2 DEF Traded, Active, Stands
<1>5. AllProven'
  BY <1>2 DEF ProofsInv, AllProven, Stands
<1> QED
  BY <1>2, <1>3, <1>4, <1>5

LEMMA ProofsCreate ==
  ASSUME ProofsInv, NEW w \in Account, Proofs!CreateChallenge(w)
  PROVE  ProofsInv'
<1>1. PICK clock \in Proofs!Clock :
        challenges' = Append(challenges, [message |-> Proofs!Message(w, clock), consumed |-> FALSE, at |-> now])
  BY DEF Proofs!CreateChallenge
<1>2. UNCHANGED <<now, trade, proven, turnedAway>>
  BY DEF Proofs!CreateChallenge
<1> DEFINE new == [message |-> Proofs!Message(w, clock), consumed |-> FALSE, at |-> now]
<1>3. ProofsTypes /\ now \in Nat
  BY DEF ProofsInv, ProofsTypes
<1>4. clock \in Nat /\ now <= clock /\ clock <= now + Drift
  BY <1>3, ConsoleAssumption DEF Proofs!Clock
<1>5. new \in Challenge /\ Written(new, now')
  <2>1. new.message = [address |-> w, issuedAt |-> clock, expirationTime |-> clock + Lifetime]
    BY DEF Proofs!Message
  <2>2. clock + Lifetime \in Nat
    BY <1>4, ConsoleAssumption
  <2> QED
    BY <1>2, <1>3, <1>4, <2>1, <2>2 DEF Challenge, Written, Proofs!Message
<1> HIDE DEF new
<1>6. challenges' = Append(challenges, new)
  BY <1>1 DEF new
<1>7. /\ challenges' \in Seq(Challenge) /\ Len(challenges') = Len(challenges) + 1 /\ Len(challenges) \in Nat
      /\ \A n \in 1 .. Len(challenges) : challenges'[n] = challenges[n]
      /\ challenges'[Len(challenges) + 1] = new
  BY <1>3, <1>5, <1>6 DEF ProofsTypes
<1>8. /\ \A n \in 1 .. Len(challenges) : Written(challenges'[n], now')
      /\ \A r \in Trade : Traded(r) => Traded(r)'
      /\ AllProven'
  BY <1>2, <1>7, ProofsGrow
<1>9. AllWritten'
  <2> SUFFICES ASSUME NEW n \in 1 .. Len(challenges') PROVE Written(challenges'[n], now')
    BY DEF AllWritten
  <2>1. n \in 1 .. Len(challenges) \/ n = Len(challenges) + 1
    BY <1>7
  <2> QED
    BY <1>5, <1>7, <1>8, <2>1
<1>10. AllTraded'
  BY <1>2, <1>3, <1>8 DEF ProofsInv, ProofsTypes, AllTraded, Traded, Proofs!Nothing
<1>11. Apart'
  BY <1>2 DEF ProofsInv, Apart, Active
<1> QED
  BY <1>2, <1>3, <1>7, <1>8, <1>9, <1>10, <1>11 DEF ProofsInv, ProofsTypes

\* What a request and a session stand for does not change with time.
LEMMA ProofsMove ==
  ASSUME ProofsInv, UNCHANGED <<challenges, proven>>, now' \in Nat, now <= now'
  PROVE  /\ AllWritten' /\ AllProven'
         /\ \A r \in Trade : Traded(r) /\ (r.at # "consumed" \/ now' = now) => Traded(r)'
<1>1. AllWritten'
  <2> SUFFICES ASSUME NEW n \in 1 .. Len(challenges) PROVE Written(challenges[n], now')
    BY DEF AllWritten
  <2>1. challenges[n] \in Challenge /\ now \in Nat /\ Written(challenges[n], now)
    BY DEF ProofsInv, ProofsTypes, AllWritten
  <2>2. challenges[n].at \in Nat
    BY <2>1 DEF Challenge
  <2> QED
    BY <2>1, <2>2 DEF Written
<1>2. AllProven'
  BY DEF ProofsInv, AllProven, Stands
<1>3. \A r \in Trade : Traded(r) /\ (r.at # "consumed" \/ now' = now) => Traded(r)'
  BY DEF Traded, Active, Stands
<1> QED
  BY <1>1, <1>2, <1>3

\* A request of a client is another than before, and the challenge of a new active
\* one is nobody else's.
LEMMA ProofsGoto ==
  ASSUME ProofsInv, NEW c \in Tab, NEW r \in Trade \cup {Proofs!Nothing}, Proofs!Goto(c, r),
         now' = now, proven' = proven, turnedAway' = FALSE, challenges' \in Seq(Challenge), AllWritten', AllProven',
         \A s \in Trade : Traded(s) => Traded(s)', Traded(r)',
         Active(r) => /\ \A d \in Tab \ {c} : Active(trade[d]) => trade[d].nonce # r.nonce
                      /\ \A k \in 1 .. Len(proven) : proven[k].nonce # r.nonce
  PROVE  ProofsInv'
<1>1. trade' = [trade EXCEPT ![c] = r] /\ trade \in [Tab -> Trade \cup {Proofs!Nothing}]
  BY DEF Proofs!Goto, ProofsInv, ProofsTypes
<1>2. \A d \in Tab : trade'[d] = IF d = c THEN r ELSE trade[d]
  BY <1>1
<1>3. AllTraded'
  <2>1. ASSUME NEW d \in Tab, NEW s, s = trade'[d] PROVE Traded(s)'
    <3>1. s \in Trade \/ s = Proofs!Nothing \/ s = r
      BY <1>1, <1>2, <2>1
    <3>2. s # r => Traded(s)
      BY <1>2, <2>1 DEF ProofsInv, AllTraded
    <3>3. s = Proofs!Nothing => Traded(s)'
      BY DEF Traded, Proofs!Nothing
    <3> QED
      BY <3>1, <3>2, <3>3
  <2> QED
    BY <2>1 DEF AllTraded, Traded, Active, Stands
<1>4. Apart'
  <2>1. \A d, e \in Tab :
          Active(trade'[d]) /\ Active(trade'[e]) /\ trade'[d].nonce = trade'[e].nonce => d = e
    BY <1>2 DEF ProofsInv, Apart
  <2>2. \A d \in Tab, k \in 1 .. Len(proven) : Active(trade'[d]) => trade'[d].nonce # proven[k].nonce
    BY <1>2 DEF ProofsInv, Apart
  <2> QED
    BY <2>1, <2>2 DEF ProofsInv, Apart, Active
<1>5. ProofsTypes'
  BY <1>1 DEF ProofsInv, ProofsTypes
<1> QED
  BY <1>3, <1>4, <1>5 DEF ProofsInv

\* The challenge of a request that is under way, by the clocks that may judge it.
LEMMA ProofsJudged ==
  ASSUME ProofsInv, NEW r \in Trade, Traded(r), NEW clock \in Proofs!Clock
  PROVE  LET c == challenges[r.nonce] IN
         /\ r.nonce \in 1 .. Len(challenges) /\ r.nonce \in DOMAIN challenges /\ c \in Challenge
         /\ now < c.at + Lifetime - Drift =>
              /\ c.message.expirationTime > clock /\ c.message.issuedAt <= clock + Drift
<1> DEFINE c == challenges[r.nonce]
<1>1. r.at # "idle"
  BY DEF Trade
<1>2. r.nonce \in 1 .. Len(challenges) /\ challenges \in Seq(Challenge)
  BY <1>1 DEF Traded, ProofsInv, ProofsTypes
<1>3. c \in Challenge /\ Written(c, now) /\ r.nonce \in DOMAIN challenges
  BY <1>2 DEF ProofsInv, AllWritten
<1>4. /\ c.at \in Nat /\ c.message.issuedAt \in Nat /\ c.message.expirationTime \in Nat
  <2>1. c \in [message : [address : Account, issuedAt : Nat, expirationTime : Nat], consumed : BOOLEAN, at : Nat]
    BY <1>3 DEF Challenge
  <2>2. c.message \in [address : Account, issuedAt : Nat, expirationTime : Nat] /\ c.at \in Nat
    BY <2>1
  <2> QED
    BY <2>2
<1>5. now \in Nat /\ clock \in Nat /\ now <= clock /\ clock <= now + Drift
  BY ConsoleAssumption DEF Proofs!Clock, ProofsInv, ProofsTypes
<1>6. /\ c.at <= now /\ c.at <= c.message.issuedAt /\ c.message.issuedAt <= c.at + Drift
      /\ c.message.expirationTime = c.message.issuedAt + Lifetime
  BY <1>3 DEF Written
<1> HIDE DEF c
<1>7. now < c.at + Lifetime - Drift => c.message.expirationTime > clock /\ c.message.issuedAt <= clock + Drift
  BY <1>4, <1>5, <1>6, ConsoleAssumption
<1> QED
  BY <1>2, <1>3, <1>7 DEF c

\* A request ends.
LEMMA ProofsDrop ==
  ASSUME ProofsInv, NEW c \in Tab, Proofs!Goto(c, Proofs!Nothing), UNCHANGED <<now, challenges, proven>>,
         turnedAway' = FALSE
  PROVE  ProofsInv'
<1>1. now \in Nat /\ challenges' \in Seq(Challenge) /\ now <= now
  BY DEF ProofsInv, ProofsTypes
<1>2. AllWritten' /\ AllProven' /\ \A s \in Trade : Traded(s) => Traded(s)'
  BY <1>1, ProofsMove
<1>3. Traded(Proofs!Nothing)' /\ ~Active(Proofs!Nothing)
  BY DEF Traded, Active, Proofs!Nothing
<1> DEFINE r == Proofs!Nothing
<1>4. r \in Trade \cup {Proofs!Nothing} /\ Traded(r)' /\ ~Active(r) /\ Proofs!Goto(c, r)
  BY <1>3
<1> QED
  BY <1>1, <1>2, <1>4, ProofsGoto

LEMMA ProofsSend ==
  ASSUME ProofsInv, NEW c \in Tab, NEW w \in Account, NEW n \in DOMAIN challenges, Proofs!Send(c, n, w)
  PROVE  ProofsInv'
<1>1. PICK s \in Proofs!Signature :
        Proofs!Goto(c, [at |-> "sent", nonce |-> n, address |-> w, signature |-> s, deserves |-> FALSE])
  BY DEF Proofs!Send
<1>2. UNCHANGED <<now, challenges, proven, turnedAway>>
  BY DEF Proofs!Send
<1> DEFINE r == [at |-> "sent", nonce |-> n, address |-> w, signature |-> s, deserves |-> FALSE]
<1>3. challenges \in Seq(Challenge) /\ now \in Nat /\ now <= now
  BY DEF ProofsInv, ProofsTypes
<1>4. DOMAIN challenges = 1 .. Len(challenges) /\ 1 .. Len(challenges) \subseteq Nat
  BY <1>3
<1>5. s \in Signed
  BY <1>4 DEF Proofs!Signature, Signed
<1>6. r \in Trade /\ r.at = "sent" /\ r.nonce \in 1 .. Len(challenges)
  BY <1>4, <1>5 DEF Trade
<1>7. Proofs!Goto(c, r)
  BY <1>1
<1> HIDE DEF r
<1>8. Traded(r) /\ ~Active(r)
  BY <1>6 DEF Traded, Active
<1>9. AllWritten' /\ AllProven' /\ \A q \in Trade : Traded(q) => Traded(q)'
  BY <1>2, <1>3, ProofsMove
<1>10. challenges' \in Seq(Challenge) /\ turnedAway' = FALSE
  BY <1>2, <1>3 DEF ProofsInv
<1> QED
  BY <1>2, <1>6, <1>7, <1>8, <1>9, <1>10, ProofsGoto

LEMMA ProofsConsume ==
  ASSUME ProofsInv, NEW c \in Tab, Proofs!Consume(c)
  PROVE  ProofsInv'
<1> DEFINE r == trade[c]
           n == trade[c].nonce
<1>1. r.at = "sent" /\ now' = now /\ proven' = proven
  BY DEF Proofs!Consume
<1>2. r \in Trade /\ Traded(r)
  <2>1. r \in Trade \cup {Proofs!Nothing} /\ Traded(r)
    BY DEF ProofsInv, ProofsTypes, AllTraded
  <2> QED
    BY <1>1, <2>1 DEF Proofs!Nothing
<1>3. PICK clock \in Proofs!Clock :
        IF Proofs!Open(n, clock)
        THEN /\ challenges' = [challenges EXCEPT ![n].consumed = TRUE]
             /\ Proofs!Goto(c, [r EXCEPT !.at = "consumed", !.deserves = Proofs!Deserves(r)])
             /\ UNCHANGED turnedAway
        ELSE /\ Proofs!Goto(c, Proofs!Nothing) /\ turnedAway' = (turnedAway \/ Proofs!Deserves(r))
             /\ UNCHANGED challenges
  BY DEF Proofs!Consume
<1>4. /\ n \in 1 .. Len(challenges) /\ challenges[n] \in Challenge
      /\ now < challenges[n].at + Lifetime - Drift => challenges[n].message.expirationTime > clock
  BY <1>2, ProofsJudged
<1>5. challenges \in Seq(Challenge) /\ Len(challenges) \in Nat
  BY DEF ProofsInv, ProofsTypes
<1>6. CASE ~Proofs!Open(n, clock)
  <2>1. ~Proofs!Deserves(r)
    BY <1>4, <1>6 DEF Proofs!Open, Proofs!Deserves
  <2>2. turnedAway' = FALSE
    BY <1>3, <1>6, <2>1 DEF ProofsInv
  <2> QED
    BY <1>1, <1>3, <1>6, <2>2, ProofsDrop
<1>7. CASE Proofs!Open(n, clock)
  <2>1. ~challenges[n].consumed
    BY <1>7 DEF Proofs!Open
  <2> DEFINE new == [challenges[n] EXCEPT !.consumed = TRUE]
  <2>2. /\ new \in Challenge /\ new.consumed /\ new.at = challenges[n].at
        /\ new.message = challenges[n].message
    BY <1>4 DEF Challenge
  <2>3. challenges' = [challenges EXCEPT ![n] = new]
    BY <1>3, <1>7
  <2> HIDE DEF new
  <2>4. /\ challenges' \in Seq(Challenge) /\ Len(challenges') = Len(challenges)
        /\ \A k \in 1 .. Len(challenges) : challenges'[k] = IF k = n THEN new ELSE challenges[k]
    BY <1>4, <1>5, <2>2, <2>3
  <2>5. /\ \A k \in 1 .. Len(challenges) : Written(challenges'[k], now')
        /\ \A s \in Trade : Traded(s) => Traded(s)'
        /\ AllProven'
    <3>1. \A k \in 1 .. Len(challenges) :
            /\ challenges'[k].message = challenges[k].message /\ challenges'[k].at = challenges[k].at
            /\ challenges[k].consumed => challenges'[k].consumed
      BY <2>2, <2>4
    <3>2. Len(challenges) <= Len(challenges')
      BY <1>5, <2>4
    <3> QED
      BY <1>1, <2>4, <3>1, <3>2, ProofsGrow
  <2>6. AllWritten'
    BY <2>4, <2>5 DEF AllWritten
  <2>7. Proofs!Deserves(r) \in BOOLEAN
    BY DEF Proofs!Deserves
  <2> PICK q : q = [r EXCEPT !.at = "consumed", !.deserves = Proofs!Deserves(r)]
    OBVIOUS
  <2>8. /\ q \in Trade /\ q.at = "consumed" /\ q.nonce = n /\ q.address = r.address /\ q.signature = r.signature
        /\ q.deserves = Proofs!Deserves(r)
    BY <1>2, <2>7 DEF Trade
  <2>9. Proofs!Goto(c, q)
    BY <1>3, <1>7
  <2>10. q.deserves => Stands(q.address, q.nonce, q.signature) /\ now < challenges[n].at + Lifetime - Drift
    BY <2>8 DEF Proofs!Deserves, Stands
  <2>11. Traded(q)'
    BY <1>1, <1>4, <2>2, <2>4, <2>8, <2>10 DEF Traded, Stands, Active
  <2>12. \A d \in Tab : Active(trade[d]) => trade[d].nonce # n
    BY <2>1 DEF ProofsInv, AllTraded, Traded, Active
  <2>13. \A k \in 1 .. Len(proven) : proven[k].nonce # n
    BY <2>1 DEF ProofsInv, AllProven
  <2>14. turnedAway' = FALSE
    BY <1>3, <1>7 DEF ProofsInv
  <2>15. /\ \A d \in Tab \ {c} : Active(trade[d]) => trade[d].nonce # q.nonce
         /\ \A k \in 1 .. Len(proven) : proven[k].nonce # q.nonce
    BY <2>8, <2>12, <2>13
  <2>16. q \in Trade \cup {Proofs!Nothing} /\ challenges' \in Seq(Challenge)
    BY <2>4, <2>8
  <2> QED
    BY <1>1, <2>5, <2>6, <2>9, <2>11, <2>14, <2>15, <2>16, ProofsGoto
<1> QED
  BY <1>6, <1>7

LEMMA ProofsVerify ==
  ASSUME ProofsInv, NEW c \in Tab, Proofs!Verify(c)
  PROVE  ProofsInv'
<1> DEFINE r == trade[c]
           n == trade[c].nonce
<1>1. r.at = "consumed" /\ now' = now /\ proven' = proven /\ challenges' = challenges
  BY DEF Proofs!Verify
<1>2. r \in Trade /\ Traded(r)
  <2>1. r \in Trade \cup {Proofs!Nothing} /\ Traded(r)
    BY DEF ProofsInv, ProofsTypes, AllTraded
  <2> QED
    BY <1>1, <2>1 DEF Proofs!Nothing
<1>3. PICK clock \in Proofs!Clock :
        IF Proofs!Verified(r, clock)
        THEN Proofs!Goto(c, [r EXCEPT !.at = "verified"]) /\ UNCHANGED turnedAway
        ELSE Proofs!Goto(c, Proofs!Nothing) /\ turnedAway' = (turnedAway \/ r.deserves)
  BY DEF Proofs!Verify
<1>4. /\ n \in 1 .. Len(challenges)
      /\ now < challenges[n].at + Lifetime - Drift =>
           /\ challenges[n].message.expirationTime > clock
           /\ challenges[n].message.issuedAt <= clock + Drift
  BY <1>2, ProofsJudged
<1>5. challenges \in Seq(Challenge) /\ now \in Nat /\ now <= now /\ ~turnedAway
  BY DEF ProofsInv, ProofsTypes
<1>6. CASE ~Proofs!Verified(r, clock)
  <2>1. ~r.deserves
    BY <1>1, <1>2, <1>4, <1>6 DEF Traded, Stands, Proofs!Verified, Proofs!Window
  <2>2. turnedAway' = FALSE
    BY <1>3, <1>5, <1>6, <2>1
  <2> QED
    BY <1>1, <1>3, <1>6, <2>2, ProofsDrop
<1>7. CASE Proofs!Verified(r, clock)
  <2> PICK q : q = [r EXCEPT !.at = "verified"]
    OBVIOUS
  <2>1. /\ q \in Trade /\ q.at = "verified" /\ q.nonce = n /\ q.address = r.address
        /\ q.signature = r.signature
    BY <1>2 DEF Trade
  <2>2. Proofs!Goto(c, q) /\ turnedAway' = FALSE
    BY <1>3, <1>5, <1>7
  <2>3. Stands(q.address, n, q.signature)
    BY <1>7, <2>1 DEF Proofs!Verified, Stands
  <2>4. challenges[n].consumed
    BY <1>1, <1>2 DEF Traded, Active
  <2>5. Traded(q)'
    BY <1>1, <1>4, <2>1, <2>3, <2>4 DEF Traded, Stands, Active
  <2>6. /\ \A d \in Tab \ {c} : Active(trade[d]) => trade[d].nonce # q.nonce
        /\ \A k \in 1 .. Len(proven) : proven[k].nonce # q.nonce
    BY <1>1, <2>1 DEF ProofsInv, Apart, Active
  <2>7. AllWritten' /\ AllProven' /\ \A s \in Trade : Traded(s) => Traded(s)'
    BY <1>1, <1>5, ProofsMove
  <2>8. q \in Trade \cup {Proofs!Nothing} /\ challenges' \in Seq(Challenge)
    BY <1>1, <1>5, <2>1
  <2> QED
    BY <1>1, <2>2, <2>5, <2>6, <2>7, <2>8, ProofsGoto
<1> QED
  BY <1>6, <1>7

LEMMA ProofsSession ==
  ASSUME ProofsInv, NEW c \in Tab, Proofs!CreateSession(c)
  PROVE  ProofsInv'
<1> DEFINE r == trade[c]
           new == [wallet |-> trade[c].address, nonce |-> trade[c].nonce, signature |-> trade[c].signature]
<1>1. /\ r.at = "verified" /\ UNCHANGED <<now, challenges, turnedAway>>
      /\ trade' = [trade EXCEPT ![c] = Proofs!Nothing] /\ proven' = Append(proven, new)
  BY DEF Proofs!CreateSession, Proofs!Goto
<1>2. r \in Trade /\ Traded(r)
  <2>1. r \in Trade \cup {Proofs!Nothing} /\ Traded(r)
    BY DEF ProofsInv, ProofsTypes, AllTraded
  <2> QED
    BY <1>1, <2>1 DEF Proofs!Nothing
<1>3. /\ new \in Proof /\ new.nonce = r.nonce /\ new.nonce \in 1 .. Len(challenges)
      /\ challenges[new.nonce].consumed /\ Stands(new.wallet, new.nonce, new.signature)
  <2>1. new \in [wallet : Account, nonce : Nat, signature : Signed]
    BY <1>2 DEF Trade
  <2> QED
    BY <1>1, <1>2, <2>1 DEF Traded, Active, Proof
<1> HIDE DEF new
<1>4. /\ proven' \in Seq(Proof) /\ Len(proven') = Len(proven) + 1 /\ Len(proven) \in Nat
      /\ \A k \in 1 .. Len(proven) : proven'[k] = proven[k]
      /\ proven'[Len(proven) + 1] = new
  <2>1. proven \in Seq(Proof)
    BY DEF ProofsInv, ProofsTypes
  <2> QED
    BY <1>1, <1>3, <2>1
<1>5. \A k \in 1 .. Len(proven') : k \in 1 .. Len(proven) \/ k = Len(proven) + 1
  BY <1>4
<1>6. \A d \in Tab : trade'[d] = IF d = c THEN Proofs!Nothing ELSE trade[d]
  BY <1>1 DEF ProofsInv, ProofsTypes
<1>7. ProofsTypes'
  BY <1>1, <1>4 DEF ProofsInv, ProofsTypes
<1>8. AllWritten' /\ ~turnedAway'
  BY <1>1 DEF ProofsInv, AllWritten
<1>9. AllTraded'
  BY <1>1, <1>6 DEF ProofsInv, AllTraded, Traded, Active, Stands, Proofs!Nothing
<1>10. AllProven'
  <2>1. \A k \in 1 .. Len(proven') :
          /\ proven'[k].nonce \in 1 .. Len(challenges) /\ challenges[proven'[k].nonce].consumed
          /\ Stands(proven'[k].wallet, proven'[k].nonce, proven'[k].signature)
    BY <1>3, <1>4, <1>5 DEF ProofsInv, AllProven
  <2> QED
    BY <1>1, <2>1 DEF AllProven, Stands
<1>11. Apart'
  <2>1. \A d \in Tab : Active(trade'[d]) => d # c /\ trade'[d] = trade[d]
    BY <1>6 DEF Active, Proofs!Nothing
  <2>2. \A d, e \in Tab :
          Active(trade'[d]) /\ Active(trade'[e]) /\ trade'[d].nonce = trade'[e].nonce => d = e
    BY <2>1 DEF ProofsInv, Apart
  <2>3. Active(trade[c])
    BY <1>1 DEF Active
  <2>4. \A d \in Tab, k \in 1 .. Len(proven') : Active(trade'[d]) => trade'[d].nonce # proven'[k].nonce
    BY <1>3, <1>4, <1>5, <2>1, <2>3 DEF ProofsInv, Apart
  <2>5. \A j, k \in 1 .. Len(proven') : proven'[j].nonce = proven'[k].nonce => j = k
    BY <1>3, <1>4, <1>5, <2>3 DEF ProofsInv, Apart
  <2> QED
    BY <2>2, <2>4, <2>5 DEF Apart, Active
<1> QED
  BY <1>7, <1>8, <1>9, <1>10, <1>11 DEF ProofsInv

LEMMA ProofsTick == ProofsInv /\ Proofs!Tick => ProofsInv'
<1> SUFFICES ASSUME ProofsInv, Proofs!Tick PROVE ProofsInv'
  OBVIOUS
<1>1. /\ UNCHANGED <<challenges, trade, proven, turnedAway>> /\ now' = now + 1
      /\ \A c \in Tab : trade[c].at # "consumed"
  BY DEF Proofs!Tick
<1>2. ProofsTypes' /\ now' \in Nat /\ now <= now'
  BY <1>1 DEF ProofsInv, ProofsTypes
<1>3. AllWritten' /\ AllProven' /\ \A r \in Trade : Traded(r) /\ r.at # "consumed" => Traded(r)'
  BY <1>1, <1>2, ProofsMove
<1>4. \A c \in Tab : trade[c] \in Trade \cup {Proofs!Nothing} /\ Traded(trade[c])
  BY DEF ProofsInv, ProofsTypes, AllTraded
<1>5. AllTraded'
  BY <1>1, <1>4 DEF AllTraded, Traded, Active, Stands, Proofs!Nothing
<1> QED
  BY <1>1, <1>2, <1>3, <1>5 DEF ProofsInv, Apart, Active

LEMMA ProofsNext == ProofsInv /\ Proofs!Next => ProofsInv'
<1> SUFFICES ASSUME ProofsInv, Proofs!Next PROVE ProofsInv'
  OBVIOUS
<1>1. ASSUME NEW c \in Tab, Proofs!Abandon(c) PROVE ProofsInv'
  <2>1. Proofs!Goto(c, Proofs!Nothing) /\ UNCHANGED <<now, challenges, proven>> /\ turnedAway' = FALSE
    BY <1>1 DEF Proofs!Abandon, ProofsInv
  <2> QED
    BY <2>1, ProofsDrop
<1> QED
  BY <1>1, ProofsCreate, ProofsSend, ProofsConsume, ProofsVerify, ProofsSession, ProofsTick DEF Proofs!Next

LEMMA ProofsStep == ProofsInv /\ [Next]_<<part, entry, rules, screens>> => ProofsInv'
<1> SUFFICES ASSUME ProofsInv, [Next]_<<part, entry, rules, screens>> PROVE ProofsInv'
  OBVIOUS
<1>1. CASE Proofs!Next
  BY <1>1, ProofsNext
<1>2. CASE UNCHANGED proofs
  BY <1>2 DEF proofs, ProofsInv, ProofsTypes, AllWritten, AllTraded, Traded, Apart, Active, AllProven, Stands
<1> QED
  BY <1>1, <1>2 DEF Next, entry

LEMMA WhatIsProven == ProofsInv => Proofs!Proven
<1> SUFFICES ASSUME ProofsInv PROVE Proofs!Proven
  OBVIOUS
<1>1. DOMAIN proven = 1 .. Len(proven)
  BY DEF ProofsInv, ProofsTypes
<1>2. Proofs!ProvenOnce
  BY <1>1 DEF ProofsInv, AllProven, Stands, Apart, Proofs!ProvenOnce
<1> QED
  BY <1>2 DEF ProofsInv, Proofs!NobodyTurnedAway, Proofs!Proven

\* Access and Challenges (app.ts, consumeChallenge, auth/src/index.ts): a token that was cut
\* off with its principal is never accepted again; and every session stands for one
\* signature of its own wallet over its own challenge, traded once, while no wallet
\* that does what it is asked in time is refused, whatever the clocks show.
THEOREM OnlyTheGrantedGetIn == Spec => []OnlyGranted
<1>1. Init => OwnersInv /\ TokensInv /\ ProofsInv
  BY OwnersInit, TokensInit, ProofsInit DEF Init
<1>2. OwnersInv /\ OwnersInv' /\ TokensInv /\ ProofsInv /\ [Next]_<<part, entry, rules, screens>>
        => TokensInv' /\ ProofsInv'
  BY TokensStep, ProofsStep
<1>3. TokensInv /\ ProofsInv => OnlyGranted
  BY WhatWasCutOff, WhatIsProven DEF OnlyGranted
<1> QED
  BY <1>1, <1>2, <1>3, OwnersStep, PTL DEF Spec

(***************************************************************************)
(* VaultOpening                                                            *)
(***************************************************************************)
Saved == [vault : Vaults!Vault, plan : Plan, stage : {"prepared", "sent"}]
Shown == [step : {"form", "confirm", "working", "failed", "done"}, form : Plan, prepared : Vaults!Vault \cup {None},
          failure : Saved \cup {None}, resumable : Saved \cup {None}]
Rest == [vault : Vaults!Vault, plan : Plan, at : {"sent", "waiting", "registering", "recorded"}, here : BOOLEAN]
Asking == [plan : Plan, here : BOOLEAN]

\* A draft says that a vault was sent only if its plan was signed for.
SignedFor(d, onScreen) == d \in Saved \cup {None} /\ (d # None /\ d.stage = "sent" => d.plan \in onScreen[d.vault])

\* What the dialog offers to deploy is prepared, and what it offers to finish was sent.
Offered(d, plans, onScreen) ==
  d # Vaults!Closed =>
    /\ d \in Shown /\ SignedFor(d.failure, onScreen) /\ SignedFor(d.resumable, onScreen)
    /\ d.failure # None => d.failure.stage = "sent"
    /\ d.prepared # None => plans[d.prepared] # None
    /\ d.step = "confirm" => d.prepared # None

\* The rest of a flow is about what was signed for.
Underway(r, onScreen, records) ==
  r \in Rest /\ r.plan \in onScreen[r.vault] /\ (r.at = "recorded" => records[r.vault] # None)

VaultsTypes ==
  /\ planned \in [Vaults!Vault -> Plan \cup {None}] /\ recorded \in [Vaults!Vault -> Plan \cup {None}]
  /\ confirmed \in [Vaults!Vault -> SUBSET Plan] /\ sent \subseteq Vaults!Vault /\ deployed \subseteq Vaults!Vault
  /\ asking \subseteq Asking
  /\ (\E a \in asking : a.here) \/ (\E r \in runs : r.here) => dialog # Vaults!Closed
  /\ \A v \in sent \cup deployed : planned[v] # None

Flows ==
  /\ Offered(dialog, planned, confirmed) /\ SignedFor(draft, confirmed)
  /\ \A r \in runs : Underway(r, confirmed, recorded)

\* The browser is still sending, or keeps what it takes to finish.
Kept(v) ==
  \/ \E r \in runs : r.vault = v /\ r.at = "sent"
  \/ draft # None /\ draft.vault = v /\ draft.plan = planned[v] /\ draft.stage # "prepared"
AllKept == \A v \in (sent \cup deployed) \ stray : recorded[v] = None => Kept(v)
AsSigned == \A v \in Vaults!Vault : recorded[v] # None => recorded[v] \in confirmed[v] /\ recorded[v] = planned[v]

VaultsInv == VaultsTypes /\ Flows /\ AllKept /\ AsSigned

LEMMA NoSuchDraft == None \notin Saved /\ None \notin Plan /\ None \notin Vaults!Vault
<1>1. Saved = [vault : 1 .. MaxVaults, plan : Plan, stage : {"prepared", "sent"}]
  BY DEF Saved, Vaults!Vault
<1>2. None \notin Saved /\ None \notin Plan /\ None \notin Nat
  BY <1>1, NullAssumption
<1>3. None \notin Vaults!Vault
  BY <1>2 DEF Vaults!Vault
<1> QED
  BY <1>2, <1>3

LEMMA VaultsInit == Vaults!Init => VaultsInv
<1> SUFFICES ASSUME Vaults!Init PROVE VaultsInv
  OBVIOUS
<1> USE DEF Vaults!Init
<1>1. VaultsTypes
  BY DEF VaultsTypes
<1>2. Flows
  BY DEF Flows, Offered, SignedFor
<1>3. AllKept /\ AsSigned
  BY DEF AllKept, AsSigned
<1> QED
  BY <1>1, <1>2, <1>3 DEF VaultsInv

\* The dialog goes to another step.
LEMMA DialogShows ==
  ASSUME NEW d, NEW plans, NEW onScreen, d # Vaults!Closed, Offered(d, plans, onScreen),
         NEW step \in {"form", "confirm", "working", "failed", "done"}, step = "confirm" => d.prepared # None,
         NEW f, SignedFor(f, onScreen), f # None => f.stage = "sent",
         NEW e, e = [d EXCEPT !.step = step, !.failure = f]
  PROVE  e # Vaults!Closed /\ Offered(e, plans, onScreen)
<1>1. d \in Shown /\ f \in Saved \cup {None}
  BY DEF Offered, SignedFor
<1>2. e \in Shown /\ e.step = step /\ e.failure = f /\ e.prepared = d.prepared /\ e.resumable = d.resumable
  BY <1>1 DEF Shown
<1>3. Vaults!Closed.step \notin {"form", "confirm", "working", "failed", "done"}
  BY DEF Vaults!Closed
<1>4. e # Vaults!Closed
  BY <1>2, <1>3
<1>5. Offered(e, plans, onScreen)
  BY <1>2 DEF Offered
<1> QED
  BY <1>4, <1>5

\* It does so without a failure to show.
LEMMA DialogClears ==
  ASSUME dialog # Vaults!Closed, Offered(dialog, planned, confirmed),
         NEW step \in {"form", "confirm", "working", "failed", "done"}, step = "confirm" => dialog.prepared # None,
         dialog' = [dialog EXCEPT !.step = step, !.failure = None]
  PROVE  dialog' # Vaults!Closed /\ Offered(dialog', planned, confirmed)
<1>1. SignedFor(None, confirmed)
  BY DEF SignedFor
<1> QED
  BY <1>1, DialogShows

\* Steps of the dialog and of the flows that leave drafts, chain and records alone.
LEMMA VaultsScreen ==
  ASSUME VaultsInv, UNCHANGED <<planned, sent, deployed, recorded, draft, confirmed, stray>>,
         Offered(dialog', planned, confirmed), asking' \subseteq Asking,
         (\E a \in asking' : a.here) \/ (\E r \in runs' : r.here) => dialog' # Vaults!Closed,
         \A r \in runs' : Underway(r, confirmed, recorded),
         \A r \in runs : r.at = "sent" => \E q \in runs' : q.vault = r.vault /\ q.at = "sent"
  PROVE  VaultsInv'
<1>1. VaultsTypes'
  BY DEF VaultsInv, VaultsTypes
<1>2. Flows'
  BY DEF VaultsInv, Flows
<1>3. AllKept'
  BY DEF VaultsInv, AllKept, Kept
<1>4. AsSigned'
  BY DEF VaultsInv, AsSigned
<1> QED
  BY <1>1, <1>2, <1>3, <1>4 DEF VaultsInv

LEMMA VaultsDialog ==
  ASSUME VaultsInv,
         \/ Vaults!Open \/ Vaults!Close \/ Vaults!Back \/ Vaults!TryAgain \/ Vaults!Refuse \/ Vaults!BeginPrepare
         \/ \E plan \in Plan : Vaults!Edit(plan)
  PROVE  VaultsInv'
<1>1. /\ Offered(dialog, planned, confirmed) /\ asking \subseteq Asking /\ SignedFor(draft, confirmed)
      /\ \A r \in runs : Underway(r, confirmed, recorded)
      /\ (\E a \in asking : a.here) \/ (\E r \in runs : r.here) => dialog # Vaults!Closed
  BY DEF VaultsInv, VaultsTypes, Flows
<1>2. Vaults!Closed.step = "closed" /\ SignedFor(None, confirmed)
  BY DEF Vaults!Closed, SignedFor
<1>3. CASE Vaults!Open
  <2>1. PICK plan \in Plan :
          dialog' = [step |-> "form", form |-> plan, prepared |-> None, failure |-> None, resumable |-> draft]
    BY <1>3 DEF Vaults!Open
  <2>2. /\ dialog' \in Shown /\ dialog'.step = "form" /\ dialog'.prepared = None /\ dialog'.failure = None
        /\ dialog'.resumable = draft
    BY <1>1, <2>1 DEF Shown, SignedFor
  <2>3. dialog' # Vaults!Closed /\ Offered(dialog', planned, confirmed)
    BY <1>1, <1>2, <2>2 DEF Offered
  <2>4. UNCHANGED <<planned, sent, deployed, recorded, draft, asking, runs, confirmed, stray>>
    BY <1>3 DEF Vaults!Open, Vaults!Chain
  <2> QED
    BY <1>1, <2>3, <2>4, VaultsScreen
<1>4. CASE Vaults!Close
  <2>1. /\ dialog' = Vaults!Closed /\ asking' = {[a EXCEPT !.here = FALSE] : a \in asking}
        /\ runs' = {[r EXCEPT !.here = FALSE] : r \in runs}
        /\ UNCHANGED <<planned, sent, deployed, recorded, draft, confirmed, stray>>
    BY <1>4 DEF Vaults!Close, Vaults!Chain
  <2>2. \A a \in asking : [a EXCEPT !.here = FALSE] \in Asking /\ ~[a EXCEPT !.here = FALSE].here
    BY <1>1 DEF Asking
  <2>3. \A r \in runs : LET q == [r EXCEPT !.here = FALSE]
                        IN q \in Rest /\ ~q.here /\ q.vault = r.vault /\ q.at = r.at /\ q.plan = r.plan
    BY <1>1 DEF Underway, Rest
  <2>4. asking' \subseteq Asking /\ \A a \in asking' : ~a.here
    BY <2>1, <2>2
  <2>5. ASSUME NEW q \in runs' PROVE ~q.here /\ Underway(q, confirmed, recorded)
    <3>1. PICK r \in runs : q = [r EXCEPT !.here = FALSE]
      BY <2>1
    <3>2. Underway(r, confirmed, recorded) /\ q \in Rest /\ ~q.here /\ q.vault = r.vault /\ q.at = r.at /\ q.plan = r.plan
      BY <1>1, <2>3, <3>1
    <3> QED
      BY <3>2 DEF Underway
  <2>6. \A r \in runs : r.at = "sent" => \E q \in runs' : q.vault = r.vault /\ q.at = "sent"
    BY <2>1, <2>3
  <2>7. Offered(dialog', planned, confirmed)
    BY <2>1 DEF Offered
  <2> QED
    BY <2>1, <2>4, <2>5, <2>6, <2>7, VaultsScreen
<1>5. CASE Vaults!Back \/ Vaults!TryAgain \/ Vaults!Refuse
  <2>1. PICK step \in {"form", "confirm", "working", "failed", "done"} :
          /\ dialog' = [dialog EXCEPT !.step = step, !.failure = None] /\ dialog.step # "closed"
          /\ step = "confirm" => dialog.prepared # None
    BY <1>5 DEF Vaults!Back, Vaults!TryAgain, Vaults!Refuse, Vaults!Show
  <2>2. dialog # Vaults!Closed
    BY <1>2, <2>1
  <2>3. dialog' # Vaults!Closed /\ Offered(dialog', planned, confirmed)
    BY <1>1, <2>1, <2>2, DialogClears
  <2>4. UNCHANGED <<planned, sent, deployed, recorded, draft, asking, runs, confirmed, stray>>
    BY <1>5 DEF Vaults!Back, Vaults!TryAgain, Vaults!Refuse, Vaults!Chain
  <2> QED
    BY <1>1, <2>3, <2>4, VaultsScreen
<1>6. CASE \E plan \in Plan : Vaults!Edit(plan)
  <2>1. PICK plan \in Plan : Vaults!Edit(plan)
    BY <1>6
  <2>2. dialog.step = "form" /\ dialog # Vaults!Closed /\ dialog \in Shown /\ dialog' = [dialog EXCEPT !.form = plan]
    BY <1>1, <1>2, <2>1 DEF Vaults!Edit, Offered
  <2>3. /\ dialog' \in Shown /\ dialog'.step = "form" /\ dialog'.prepared = dialog.prepared
        /\ dialog'.failure = dialog.failure /\ dialog'.resumable = dialog.resumable
    BY <2>2 DEF Shown
  <2>4. dialog' # Vaults!Closed /\ Offered(dialog', planned, confirmed)
    BY <1>1, <1>2, <2>2, <2>3 DEF Offered
  <2>5. UNCHANGED <<planned, sent, deployed, recorded, draft, asking, runs, confirmed, stray>>
    BY <2>1 DEF Vaults!Edit, Vaults!Chain
  <2> QED
    BY <1>1, <2>4, <2>5, VaultsScreen
<1>7. CASE Vaults!BeginPrepare
  <2>1. /\ dialog.step = "form" /\ dialog' = [dialog EXCEPT !.failure = None]
        /\ asking' = asking \cup {[plan |-> dialog.form, here |-> TRUE]}
        /\ UNCHANGED <<planned, sent, deployed, recorded, draft, runs, confirmed, stray>>
    BY <1>7 DEF Vaults!BeginPrepare, Vaults!Chain
  <2>2. dialog # Vaults!Closed /\ dialog \in Shown
    BY <1>1, <1>2, <2>1 DEF Offered
  <2>3. /\ dialog' \in Shown /\ dialog'.step = "form" /\ dialog'.prepared = dialog.prepared
        /\ dialog'.failure = None /\ dialog'.resumable = dialog.resumable
    BY <2>1, <2>2 DEF Shown
  <2>4. dialog' # Vaults!Closed /\ Offered(dialog', planned, confirmed)
    BY <1>1, <1>2, <2>2, <2>3 DEF Offered
  <2>5. asking' \subseteq Asking
    <3>1. dialog.form \in Plan
      BY <2>2 DEF Shown
    <3>2. [plan |-> dialog.form, here |-> TRUE] \in Asking
      BY <3>1 DEF Asking
    <3> QED
      BY <1>1, <2>1, <3>2
  <2> QED
    BY <1>1, <2>1, <2>4, <2>5, VaultsScreen
<1> QED
  BY <1>3, <1>4, <1>5, <1>6, <1>7

\* A flow that ends, and was not sending, closes nothing but itself.
LEMMA VaultsEnd ==
  ASSUME VaultsInv, NEW r \in runs, r.at # "sent", NEW f, SignedFor(f, confirmed), f # None => f.stage = "sent",
         Vaults!Ends(r, "failed", f),
         UNCHANGED <<planned, sent, deployed, recorded, draft, asking, confirmed, stray>>
  PROVE  VaultsInv'
<1>1. /\ Offered(dialog, planned, confirmed) /\ asking \subseteq Asking
      /\ \A q \in runs : Underway(q, confirmed, recorded)
      /\ (\E a \in asking : a.here) \/ (\E q \in runs : q.here) => dialog # Vaults!Closed
  BY DEF VaultsInv, VaultsTypes, Flows
<1>2. /\ runs' = runs \ {r}
      /\ IF r.here THEN dialog' = [dialog EXCEPT !.step = "failed", !.failure = f] ELSE dialog' = dialog
  BY DEF Vaults!Ends, Vaults!Show
<1>3. Offered(dialog', planned, confirmed) /\ (dialog # Vaults!Closed => dialog' # Vaults!Closed)
  <2>1. CASE r.here
    <3>1. dialog # Vaults!Closed /\ dialog' = [dialog EXCEPT !.step = "failed", !.failure = f]
      BY <1>1, <1>2, <2>1
    <3> QED
      BY <1>1, <3>1, DialogShows
  <2>2. CASE ~r.here
    BY <1>1, <1>2, <2>2
  <2> QED
    BY <2>1, <2>2
<1>4. (\E a \in asking' : a.here) \/ (\E q \in runs' : q.here) => dialog' # Vaults!Closed
  BY <1>1, <1>2, <1>3
<1>5. \A q \in runs' : Underway(q, confirmed, recorded)
  BY <1>1, <1>2
<1>6. \A q \in runs : q.at = "sent" => \E p \in runs' : p.vault = q.vault /\ p.at = "sent"
  BY <1>2
<1> QED
  BY <1>1, <1>3, <1>4, <1>5, <1>6, VaultsScreen

\* A run says what it keeps for a flow that can be finished.
LEMMA SavedSigned ==
  ASSUME VaultsInv, NEW r \in runs
  PROVE  /\ Vaults!Saved(r.vault, r.plan, "sent") \in Saved
         /\ SignedFor(Vaults!Saved(r.vault, r.plan, "sent"), confirmed)
         /\ r \in Rest /\ Underway(r, confirmed, recorded)
<1>1. r \in Rest /\ r.plan \in confirmed[r.vault] /\ Underway(r, confirmed, recorded)
  BY DEF VaultsInv, Flows, Underway
<1>2. r.vault \in Vaults!Vault /\ r.plan \in Plan
  BY <1>1 DEF Rest
<1> DEFINE d == Vaults!Saved(r.vault, r.plan, "sent")
<1>3. d \in Saved /\ d.vault = r.vault /\ d.plan = r.plan
  BY <1>2 DEF Vaults!Saved, Saved
<1> HIDE DEF d
<1>4. SignedFor(d, confirmed)
  BY <1>1, <1>3 DEF SignedFor
<1> QED
  BY <1>1, <1>3, <1>4 DEF d

LEMMA VaultsFail ==
  ASSUME VaultsInv, NEW r \in runs, Vaults!GiveUp(r) \/ Vaults!FailRegister(r)
  PROVE  VaultsInv'
<1> PICK f : f = Vaults!Saved(r.vault, r.plan, "sent")
  OBVIOUS
<1>1. /\ Vaults!Ends(r, "failed", f) /\ r.at # "sent"
      /\ UNCHANGED <<planned, sent, deployed, recorded, draft, asking, confirmed, stray>>
  BY DEF Vaults!GiveUp, Vaults!FailRegister, Vaults!Chain
<1>2. SignedFor(f, confirmed) /\ f.stage = "sent"
  BY SavedSigned DEF Vaults!Saved
<1> QED
  BY <1>1, <1>2, VaultsEnd

\* A flow that begins to finish what was sent.
LEMMA VaultsResume ==
  ASSUME VaultsInv, Vaults!Resume
  PROVE  VaultsInv'
<1>1. /\ Offered(dialog, planned, confirmed) /\ asking \subseteq Asking
      /\ \A q \in runs : Underway(q, confirmed, recorded)
      /\ (\E a \in asking : a.here) \/ (\E q \in runs : q.here) => dialog # Vaults!Closed
  BY DEF VaultsInv, VaultsTypes, Flows
<1>2. dialog \in Shown /\ dialog # Vaults!Closed
  BY <1>1 DEF Vaults!Resume, Vaults!Closed, Offered
<1>3. PICK d \in Saved : Vaults!Finish(d) /\ d.plan \in confirmed[d.vault]
  <2>1. CASE dialog.step = "failed" /\ dialog.failure # None /\ Vaults!Finish(dialog.failure)
    <3>1. dialog.failure \in Saved /\ SignedFor(dialog.failure, confirmed)
      BY <1>1, <1>2, <2>1 DEF Offered, SignedFor
    <3>2. dialog.failure.stage = "sent"
      BY <1>1, <1>2, <2>1 DEF Offered
    <3> QED
      BY <2>1, <3>1, <3>2, NoSuchDraft DEF SignedFor
  <2>2. CASE dialog.resumable # None /\ dialog.resumable.stage # "prepared" /\ Vaults!Finish(dialog.resumable)
    <3>1. dialog.resumable \in Saved /\ SignedFor(dialog.resumable, confirmed)
      BY <1>1, <1>2, <2>2 DEF Offered, SignedFor
    <3>2. dialog.resumable.stage = "sent"
      BY <2>2, <3>1 DEF Saved
    <3> QED
      BY <2>2, <3>1, <3>2 DEF SignedFor
  <2> QED
    BY <2>1, <2>2 DEF Vaults!Resume
<1> DEFINE r == [vault |-> d.vault, plan |-> d.plan, at |-> "registering", here |-> TRUE]
<1>4. r \in Rest /\ r.plan = d.plan /\ r.vault = d.vault /\ r.at = "registering"
  BY DEF Rest, Saved
<1>5. Underway(r, confirmed, recorded)
  BY <1>3, <1>4 DEF Underway
<1>6. runs' = runs \cup {r} /\ UNCHANGED <<planned, sent, deployed, recorded, draft, dialog, asking, confirmed, stray>>
  BY <1>3 DEF Vaults!Finish, Vaults!Chain
<1> QED
  BY <1>1, <1>2, <1>5, <1>6, VaultsScreen

\* The vault of the draft that gives way is noted as stray, and so is that of a
\* draft that carries another plan.
LEMMA VaultsWrite ==
  ASSUME VaultsInv, NEW d \in Saved, Vaults!WriteDraft(d), UNCHANGED <<sent, deployed, recorded>>,
         \A v \in sent \cup deployed : planned'[v] = planned[v],
         d.vault \in sent \cup deployed => d.stage = "sent",
         \A r \in runs : r.at = "sent" /\ r.vault # d.vault => \E q \in runs' : q.vault = r.vault /\ q.at = "sent"
  PROVE  AllKept'
<1>1. /\ draft' = d /\ d # None /\ stray \ {d.vault} \subseteq stray'
      /\ draft # None => {draft.vault} \ {d.vault} \subseteq stray'
      /\ d.plan # planned'[d.vault] => d.vault \in stray'
  BY NoSuchDraft DEF Vaults!WriteDraft
<1>2. ASSUME NEW v \in (sent \cup deployed) \ stray', recorded[v] = None
      PROVE  \/ \E q \in runs' : q.vault = v /\ q.at = "sent"
             \/ d.vault = v /\ d.plan = planned'[v] /\ d.stage # "prepared"
  <2>1. CASE v = d.vault
    BY <1>1, <1>2, <2>1
  <2>2. CASE v # d.vault
    <3>1. v \notin stray /\ Kept(v)
      BY <1>1, <1>2, <2>2 DEF VaultsInv, AllKept
    <3>2. ~(draft # None /\ draft.vault = v)
      BY <1>1, <1>2, <2>2
    <3> QED
      BY <2>2, <3>1, <3>2 DEF Kept
  <2> QED
    BY <2>1, <2>2
<1> QED
  BY <1>1, <1>2 DEF AllKept, Kept

\* The draft goes of a vault that is recorded, or of one that is noted as stray.
LEMMA VaultsClear ==
  ASSUME VaultsInv, NEW u, Vaults!ClearDraft(u), UNCHANGED <<planned, sent, deployed, recorded>>,
         u = None \/ recorded[u] # None,
         \A r \in runs : r.at = "sent" => \E q \in runs' : q.vault = r.vault /\ q.at = "sent"
  PROVE  AllKept' /\ draft' = None
<1>1. /\ draft' = None /\ stray \subseteq stray'
      /\ draft # None => {draft.vault} \ {u} \subseteq stray'
  BY DEF Vaults!ClearDraft
<1>2. ASSUME NEW v \in (sent \cup deployed) \ stray', recorded[v] = None
      PROVE  \E q \in runs' : q.vault = v /\ q.at = "sent"
  <2>1. v \in Vaults!Vault /\ v # None /\ v # u
    BY <1>2, NoSuchDraft DEF VaultsInv, VaultsTypes
  <2>2. v \notin stray /\ Kept(v)
    BY <1>1, <1>2 DEF VaultsInv, AllKept
  <2>3. ~(draft # None /\ draft.vault = v)
    BY <1>1, <1>2, <2>1
  <2> QED
    BY <2>2, <2>3 DEF Kept
<1> QED
  BY <1>1, <1>2 DEF AllKept, Kept

LEMMA VaultsDiscard == VaultsInv /\ Vaults!Discard => VaultsInv'
<1> SUFFICES ASSUME VaultsInv, Vaults!Discard PROVE VaultsInv'
  OBVIOUS
<1>1. /\ dialog.step = "form" /\ dialog' = [dialog EXCEPT !.resumable = None] /\ Vaults!ClearDraft(None)
      /\ UNCHANGED <<planned, sent, deployed, recorded, asking, runs, confirmed>>
  BY DEF Vaults!Discard, Vaults!Chain
<1>2. AllKept' /\ draft' = None
  BY <1>1, VaultsClear
<1>3. Offered(dialog, planned, confirmed) /\ dialog \in Shown
  BY <1>1 DEF VaultsInv, Flows, Offered, Vaults!Closed
<1>4. /\ dialog' \in Shown /\ dialog'.step = "form" /\ dialog'.prepared = dialog.prepared
      /\ dialog'.failure = dialog.failure /\ dialog'.resumable = None
  BY <1>1, <1>3 DEF Shown
<1>5. dialog # Vaults!Closed /\ dialog' # Vaults!Closed
  BY <1>1, <1>4 DEF Vaults!Closed
<1>6. Offered(dialog', planned, confirmed)
  BY <1>3, <1>4, <1>5 DEF Offered, SignedFor
<1>7. VaultsTypes'
  BY <1>1, <1>5 DEF VaultsInv, VaultsTypes
<1>8. Flows'
  BY <1>1, <1>2, <1>6 DEF VaultsInv, Flows, SignedFor
<1>9. AsSigned'
  BY <1>1 DEF VaultsInv, AsSigned
<1> QED
  BY <1>2, <1>7, <1>8, <1>9 DEF VaultsInv

LEMMA VaultsDone == ASSUME VaultsInv, NEW r \in runs, Vaults!Done(r) PROVE VaultsInv'
<1>1. /\ r.at = "recorded" /\ runs' = runs \ {r} /\ Vaults!ClearDraft(r.vault)
      /\ UNCHANGED <<planned, sent, deployed, recorded, asking, confirmed>>
      /\ dialog' = IF r.here THEN [dialog EXCEPT !.step = "done", !.failure = None, !.resumable = None] ELSE dialog
  BY DEF Vaults!Done, Vaults!Chain
<1>2. recorded[r.vault] # None
  BY <1>1 DEF VaultsInv, Flows, Underway
<1>3. \A q \in runs : q.at = "sent" => \E p \in runs' : p.vault = q.vault /\ p.at = "sent"
  BY <1>1
<1>4. AllKept' /\ draft' = None
  BY <1>1, <1>2, <1>3, VaultsClear
<1>5. Offered(dialog, planned, confirmed) /\ (r.here => dialog # Vaults!Closed)
  BY DEF VaultsInv, Flows, VaultsTypes
<1>6. Offered(dialog', planned, confirmed) /\ (dialog # Vaults!Closed => dialog' # Vaults!Closed)
  <2>1. CASE r.here
    <3>1. dialog \in Shown
      BY <1>5, <2>1 DEF Offered
    <3>2. /\ dialog' \in Shown /\ dialog'.step = "done" /\ dialog'.prepared = dialog.prepared
          /\ dialog'.failure = None /\ dialog'.resumable = None
      BY <1>1, <2>1, <3>1 DEF Shown
    <3>3. dialog' # Vaults!Closed
      BY <3>2 DEF Vaults!Closed
    <3> QED
      BY <1>5, <2>1, <3>2, <3>3 DEF Offered, SignedFor
  <2>2. CASE ~r.here
    BY <1>1, <1>5, <2>2
  <2> QED
    BY <2>1, <2>2
<1>7. VaultsTypes'
  BY <1>1, <1>6 DEF VaultsInv, VaultsTypes
<1>8. Flows'
  BY <1>1, <1>4, <1>6 DEF VaultsInv, Flows, SignedFor
<1>9. AsSigned'
  BY <1>1 DEF VaultsInv, AsSigned
<1> QED
  BY <1>4, <1>7, <1>8, <1>9 DEF VaultsInv

\* A deployment that is out, and one that is in a block, are noted in the draft.
LEMMA VaultsNote ==
  ASSUME VaultsInv, NEW r \in runs, Vaults!NoteSent(r) \/ Vaults!NoteConfirmed(r)
  PROVE  VaultsInv'
<1> PICK d : d = Vaults!Saved(r.vault, r.plan, "sent")
  OBVIOUS
<1>1. PICK at \in {"waiting", "registering"} : Vaults!GoesTo(r, at)
  BY DEF Vaults!NoteSent, Vaults!NoteConfirmed
<1>2. Vaults!WriteDraft(d) /\ UNCHANGED <<planned, sent, deployed, recorded, dialog, asking, confirmed>>
  BY DEF Vaults!NoteSent, Vaults!NoteConfirmed, Vaults!Chain
<1> DEFINE s == [r EXCEPT !.at = at]
<1>3. /\ d \in Saved /\ SignedFor(d, confirmed) /\ d.stage = "sent" /\ d.vault = r.vault
      /\ r \in Rest /\ Underway(r, confirmed, recorded)
  BY SavedSigned DEF Vaults!Saved
<1>4. s \in Rest /\ s.at = at /\ s.vault = r.vault /\ s.plan = r.plan /\ s.here = r.here
  BY <1>3 DEF Rest
<1>5. runs' = (runs \ {r}) \cup {s}
  BY <1>1 DEF Vaults!GoesTo
<1> HIDE DEF s
<1>6. Underway(s, confirmed, recorded)
  BY <1>3, <1>4 DEF Underway
<1>7. \A q \in runs : q.at = "sent" /\ q.vault # d.vault => \E p \in runs' : p.vault = q.vault /\ p.at = "sent"
  BY <1>3, <1>5
<1>8. AllKept'
  BY <1>2, <1>3, <1>7, VaultsWrite
<1>9. VaultsTypes'
  BY <1>2, <1>4, <1>5 DEF VaultsInv, VaultsTypes
<1>10. draft' = d
  BY <1>2 DEF Vaults!WriteDraft
<1>11. Flows'
  BY <1>2, <1>3, <1>5, <1>6, <1>10 DEF VaultsInv, Flows
<1>12. AsSigned'
  BY <1>2 DEF VaultsInv, AsSigned
<1> QED
  BY <1>8, <1>9, <1>11, <1>12 DEF VaultsInv

LEMMA VaultsPrepare == ASSUME VaultsInv, NEW a \in asking, Vaults!FinishPrepare(a) PROVE VaultsInv'
<1>1. PICK v \in Vaults!Vault :
        /\ planned[v] = None /\ planned' = [planned EXCEPT ![v] = a.plan]
        /\ Vaults!WriteDraft(Vaults!Saved(v, a.plan, "prepared"))
        /\ dialog' = IF a.here THEN [dialog EXCEPT !.step = "confirm", !.prepared = v, !.failure = None] ELSE dialog
  BY DEF Vaults!FinishPrepare
<1>2. asking' = asking \ {a} /\ UNCHANGED <<sent, deployed, recorded, runs, confirmed>>
  BY DEF Vaults!FinishPrepare
<1> PICK d : d = Vaults!Saved(v, a.plan, "prepared")
  OBVIOUS
<1>3. a \in Asking /\ a.plan \in Plan /\ a.here \in BOOLEAN /\ (a.here => dialog # Vaults!Closed)
  BY DEF VaultsInv, VaultsTypes, Asking
<1>4. d \in Saved /\ d.vault = v /\ d.stage = "prepared" /\ SignedFor(d, confirmed)
  BY <1>3 DEF Vaults!Saved, Saved, SignedFor
<1>5. planned \in [Vaults!Vault -> Plan \cup {None}] /\ \A w \in sent \cup deployed : w # v /\ w \in Vaults!Vault
  BY <1>1 DEF VaultsInv, VaultsTypes
<1>6. /\ planned' \in [Vaults!Vault -> Plan \cup {None}] /\ planned'[v] # None
      /\ \A w \in Vaults!Vault : planned[w] # None => planned'[w] = planned[w]
  BY <1>1, <1>3, <1>5, NoSuchDraft
<1>7. \A w \in sent \cup deployed : planned'[w] = planned[w]
  BY <1>1, <1>5
<1>8. AllKept'
  <2>1. d.vault \notin sent \cup deployed
    BY <1>4, <1>5
  <2>2. \A r \in runs : r.at = "sent" /\ r.vault # d.vault => \E q \in runs' : q.vault = r.vault /\ q.at = "sent"
    BY <1>2
  <2> QED
    BY <1>1, <1>2, <1>4, <1>7, <2>1, <2>2, VaultsWrite
<1>9. /\ Offered(dialog', planned', confirmed)
      /\ (dialog # Vaults!Closed => dialog' # Vaults!Closed)
  <2>1. Offered(dialog, planned, confirmed)
    BY DEF VaultsInv, Flows
  <2>2. CASE a.here
    <3>1. dialog \in Shown
      BY <1>3, <2>1, <2>2 DEF Offered
    <3>2. /\ dialog' \in Shown /\ dialog'.step = "confirm" /\ dialog'.prepared = v
          /\ dialog'.failure = None /\ dialog'.resumable = dialog.resumable
      BY <1>1, <2>2, <3>1 DEF Shown
    <3>3. dialog' # Vaults!Closed
      BY <3>2 DEF Vaults!Closed
    <3>4. SignedFor(dialog'.resumable, confirmed) /\ SignedFor(dialog'.failure, confirmed) /\ v # None
      BY <1>3, <2>1, <2>2, <3>2, NoSuchDraft DEF Offered, SignedFor
    <3> QED
      BY <1>6, <3>2, <3>3, <3>4 DEF Offered
  <2>3. CASE ~a.here
    <3>1. dialog' = dialog
      BY <1>1, <2>3
    <3>2. dialog # Vaults!Closed /\ dialog.prepared # None => dialog.prepared \in Vaults!Vault
      BY <2>1 DEF Offered, Shown
    <3> QED
      BY <1>6, <2>1, <3>1, <3>2 DEF Offered
  <2> QED
    BY <1>3, <2>2, <2>3
<1>10. VaultsTypes'
  <2>1. \A w \in sent \cup deployed : planned'[w] # None
    BY <1>7 DEF VaultsInv, VaultsTypes
  <2>2. (\E b \in asking' : b.here) \/ (\E r \in runs' : r.here) => dialog' # Vaults!Closed
    BY <1>2, <1>9 DEF VaultsInv, VaultsTypes
  <2> QED
    BY <1>2, <1>6, <2>1, <2>2 DEF VaultsInv, VaultsTypes
<1>11. Flows'
  <2>1. draft' = d
    BY <1>1 DEF Vaults!WriteDraft
  <2> QED
    BY <1>2, <1>4, <1>9, <2>1 DEF VaultsInv, Flows
<1>12. AsSigned'
  BY <1>2, <1>6 DEF VaultsInv, AsSigned
<1> QED
  BY <1>8, <1>10, <1>11, <1>12 DEF VaultsInv

LEMMA VaultsFailPrepare == ASSUME VaultsInv, NEW a \in asking, Vaults!FailPrepare(a) PROVE VaultsInv'
<1>1. /\ asking' = asking \ {a}
      /\ IF a.here THEN dialog' = [dialog EXCEPT !.step = "failed", !.failure = None] ELSE dialog' = dialog
      /\ UNCHANGED <<planned, sent, deployed, recorded, draft, runs, confirmed, stray>>
  BY DEF Vaults!FailPrepare, Vaults!Show, Vaults!Chain
<1>2. /\ Offered(dialog, planned, confirmed) /\ asking \subseteq Asking
      /\ \A q \in runs : Underway(q, confirmed, recorded)
      /\ (\E b \in asking : b.here) \/ (\E q \in runs : q.here) => dialog # Vaults!Closed
  BY DEF VaultsInv, VaultsTypes, Flows
<1>3. Offered(dialog', planned, confirmed) /\ (dialog # Vaults!Closed => dialog' # Vaults!Closed)
  <2>1. CASE a.here
    <3>1. dialog # Vaults!Closed /\ dialog' = [dialog EXCEPT !.step = "failed", !.failure = None]
      BY <1>1, <1>2, <2>1
    <3>2. SignedFor(None, confirmed)
      BY DEF SignedFor
    <3> QED
      BY <1>2, <3>1, <3>2, DialogShows
  <2>2. CASE ~a.here
    BY <1>1, <1>2, <2>2
  <2> QED
    BY <2>1, <2>2
<1>4. (\E b \in asking' : b.here) \/ (\E q \in runs' : q.here) => dialog' # Vaults!Closed
  BY <1>1, <1>2, <1>3
<1> QED
  BY <1>1, <1>2, <1>3, <1>4, VaultsScreen

\* What one form asks of a wallet is what that form shows.
LEMMA VaultsDeploy == VaultsInv /\ Vaults!Deploy => VaultsInv'
<1> SUFFICES ASSUME VaultsInv, Vaults!Deploy PROVE VaultsInv'
  OBVIOUS
<1> PICK v, r : v = dialog.prepared /\ r = [vault |-> dialog.prepared, plan |-> dialog.form, at |-> "sent", here |-> TRUE]
  OBVIOUS
<1>1. /\ dialog.step = "confirm" /\ runs' = runs \cup {r} /\ sent' = sent \cup {v}
      /\ confirmed' = [confirmed EXCEPT ![v] = @ \cup {dialog.form}]
      /\ dialog' = [dialog EXCEPT !.step = "working", !.failure = None]
      /\ UNCHANGED <<planned, deployed, recorded, draft, asking, stray>>
  BY DEF Vaults!Deploy, Vaults!Show
<1>2. Offered(dialog, planned, confirmed) /\ dialog # Vaults!Closed /\ dialog \in Shown
  BY <1>1 DEF VaultsInv, Flows, Offered, Vaults!Closed
<1>3. v \in Vaults!Vault /\ planned[v] # None /\ dialog.form \in Plan
  BY <1>1, <1>2 DEF Offered, Shown
<1>4. /\ confirmed' \in [Vaults!Vault -> SUBSET Plan] /\ dialog.form \in confirmed'[v]
      /\ \A w \in Vaults!Vault : confirmed[w] \subseteq confirmed'[w]
  BY <1>1, <1>3 DEF VaultsInv, VaultsTypes
<1>5. \A d : SignedFor(d, confirmed) => SignedFor(d, confirmed')
  BY <1>4 DEF SignedFor, Saved
<1>6. Offered(dialog', planned, confirmed') /\ dialog' # Vaults!Closed
  <2>1. dialog' # Vaults!Closed /\ Offered(dialog', planned, confirmed)
    <3>1. SignedFor(None, confirmed)
      BY DEF SignedFor
    <3> QED
      BY <1>1, <1>2, <3>1, DialogShows
  <2> QED
    BY <1>5, <2>1 DEF Offered
<1>7. r \in Rest /\ r.vault = v /\ r.plan = dialog.form /\ r.at = "sent"
  BY <1>3 DEF Rest
<1>8. \A q \in runs' : Underway(q, confirmed', recorded)
  <2>1. \A q \in runs : Underway(q, confirmed', recorded)
    BY <1>4 DEF VaultsInv, Flows, Underway, Rest
  <2>2. Underway(r, confirmed', recorded)
    BY <1>4, <1>7 DEF Underway
  <2> QED
    BY <1>1, <2>1, <2>2
<1>9. VaultsTypes'
  BY <1>1, <1>3, <1>4, <1>6 DEF VaultsInv, VaultsTypes
<1>10. Flows'
  BY <1>1, <1>5, <1>6, <1>8 DEF VaultsInv, Flows
<1>11. AllKept'
  BY <1>1, <1>7 DEF VaultsInv, AllKept, Kept
<1>12. AsSigned'
  BY <1>1, <1>4 DEF VaultsInv, AsSigned
<1> QED
  BY <1>9, <1>10, <1>11, <1>12 DEF VaultsInv

LEMMA VaultsLose == ASSUME VaultsInv, NEW r \in runs, Vaults!LoseAnswer(r) PROVE VaultsInv'
<1>1. /\ runs' = runs \ {r} /\ stray' = stray \cup {r.vault}
      /\ IF r.here THEN dialog' = [dialog EXCEPT !.step = "failed", !.failure = None] ELSE dialog' = dialog
      /\ UNCHANGED <<planned, sent, deployed, recorded, draft, asking, confirmed>>
  BY DEF Vaults!LoseAnswer, Vaults!Ends, Vaults!Show, Vaults!Chain
<1>2. Offered(dialog, planned, confirmed) /\ (r.here => dialog # Vaults!Closed)
  BY DEF VaultsInv, VaultsTypes, Flows
<1>3. Offered(dialog', planned, confirmed) /\ (dialog # Vaults!Closed => dialog' # Vaults!Closed)
  <2>1. CASE r.here
    <3>1. dialog # Vaults!Closed /\ dialog' = [dialog EXCEPT !.step = "failed", !.failure = None]
      BY <1>1, <1>2, <2>1
    <3>2. SignedFor(None, confirmed)
      BY DEF SignedFor
    <3> QED
      BY <1>2, <3>1, <3>2, DialogShows
  <2>2. CASE ~r.here
    BY <1>1, <1>2, <2>2
  <2> QED
    BY <2>1, <2>2
<1>4. VaultsTypes'
  BY <1>1, <1>3 DEF VaultsInv, VaultsTypes
<1>5. Flows'
  BY <1>1, <1>3 DEF VaultsInv, Flows
<1>6. AllKept'
  BY <1>1 DEF VaultsInv, AllKept, Kept
<1>7. AsSigned'
  BY <1>1 DEF VaultsInv, AsSigned
<1> QED
  BY <1>4, <1>5, <1>6, <1>7 DEF VaultsInv

LEMMA VaultsCloseTab == VaultsInv /\ Vaults!CloseTab => VaultsInv'
<1> SUFFICES ASSUME VaultsInv, Vaults!CloseTab PROVE VaultsInv'
  OBVIOUS
<1>1. /\ dialog' = Vaults!Closed /\ asking' = {} /\ runs' = {}
      /\ stray' = stray \cup {r.vault : r \in {r \in runs : r.at = "sent"}}
      /\ UNCHANGED <<planned, sent, deployed, recorded, draft, confirmed>>
  BY DEF Vaults!CloseTab, Vaults!Chain
<1>2. VaultsTypes'
  BY <1>1 DEF VaultsInv, VaultsTypes
<1>3. Flows'
  BY <1>1 DEF VaultsInv, Flows, Offered
<1>4. AllKept'
  <2>1. \A r \in runs : r.at = "sent" => r.vault \in stray'
    BY <1>1
  <2> QED
    BY <1>1, <2>1 DEF VaultsInv, AllKept, Kept
<1>5. AsSigned'
  BY <1>1 DEF VaultsInv, AsSigned
<1> QED
  BY <1>2, <1>3, <1>4, <1>5 DEF VaultsInv

\* The chain shows what the request asks for, and the request what was signed for.
LEMMA VaultsRegister == ASSUME VaultsInv, NEW r \in runs, Vaults!Register(r) PROVE VaultsInv'
<1> PICK s : s = [r EXCEPT !.at = "recorded"]
  OBVIOUS
<1>1. /\ r.at = "registering" /\ r.plan = planned[r.vault] /\ recorded[r.vault] = None
      /\ recorded' = [recorded EXCEPT ![r.vault] = r.plan] /\ runs' = (runs \ {r}) \cup {s}
      /\ UNCHANGED <<planned, sent, deployed, draft, dialog, asking, confirmed, stray>>
  BY DEF Vaults!Register, Vaults!Verified, Vaults!GoesTo, Vaults!Chain
<1>2. r \in Rest /\ r.plan \in confirmed[r.vault]
  BY SavedSigned DEF Underway
<1>3. /\ s \in Rest /\ s.vault = r.vault /\ s.plan = r.plan /\ s.at = "recorded" /\ s.here = r.here
      /\ r.vault \in Vaults!Vault /\ r.plan \in Plan /\ r.plan # None
  BY <1>2, NoSuchDraft DEF Rest
<1>4. /\ recorded' \in [Vaults!Vault -> Plan \cup {None}] /\ recorded'[r.vault] = r.plan
      /\ \A w \in Vaults!Vault : w # r.vault => recorded'[w] = recorded[w]
  BY <1>1, <1>3 DEF VaultsInv, VaultsTypes
<1>5. VaultsTypes'
  BY <1>1, <1>3, <1>4 DEF VaultsInv, VaultsTypes
<1>6. Flows'
  <2>1. \A q \in runs : Underway(q, confirmed, recorded')
    <3>1. \A q \in runs : q.vault \in Vaults!Vault
      BY DEF VaultsInv, Flows, Underway, Rest
    <3> QED
      BY <1>3, <1>4, <3>1 DEF VaultsInv, Flows, Underway
  <2>2. Underway(s, confirmed, recorded')
    BY <1>2, <1>3, <1>4 DEF Underway
  <2> QED
    BY <1>1, <2>1, <2>2 DEF VaultsInv, Flows
<1>7. AllKept'
  <2>1. ASSUME NEW v \in (sent \cup deployed) \ stray, recorded'[v] = None PROVE recorded[v] = None
    BY <1>3, <1>4, <2>1 DEF VaultsInv, VaultsTypes
  <2>2. \A q \in runs : q.at = "sent" => q \in runs'
    BY <1>1
  <2> QED
    BY <1>1, <2>1, <2>2 DEF VaultsInv, AllKept, Kept
<1>8. AsSigned'
  BY <1>1, <1>2, <1>4 DEF VaultsInv, AsSigned
<1> QED
  BY <1>5, <1>6, <1>7, <1>8 DEF VaultsInv

LEMMA VaultsChain == ASSUME VaultsInv, NEW v, Vaults!Land(v) \/ Vaults!Drop(v) PROVE VaultsInv'
<1>1. /\ sent' \subseteq sent /\ sent' \cup deployed' \subseteq sent \cup deployed /\ deployed' \subseteq deployed \cup sent
      /\ UNCHANGED <<planned, recorded, draft, dialog, asking, runs, confirmed, stray>>
  BY DEF Vaults!Land, Vaults!Drop
<1>2. VaultsTypes'
  BY <1>1 DEF VaultsInv, VaultsTypes
<1>3. Flows'
  BY <1>1 DEF VaultsInv, Flows
<1>4. AllKept'
  BY <1>1 DEF VaultsInv, AllKept, Kept
<1>5. AsSigned'
  BY <1>1 DEF VaultsInv, AsSigned
<1> QED
  BY <1>2, <1>3, <1>4, <1>5 DEF VaultsInv

LEMMA VaultsNext == VaultsInv /\ Vaults!Next => VaultsInv'
BY VaultsDialog, VaultsResume, VaultsDiscard, VaultsCloseTab, VaultsDeploy, VaultsPrepare, VaultsFailPrepare,
   VaultsNote, VaultsLose, VaultsFail, VaultsRegister, VaultsDone, VaultsChain DEF Vaults!Next

LEMMA VaultsStep == VaultsInv /\ [Next]_<<part, entry, rules, screens>> => VaultsInv'
<1> SUFFICES ASSUME VaultsInv, [Next]_<<part, entry, rules, screens>> PROVE VaultsInv'
  OBVIOUS
<1>1. CASE Vaults!Next
  BY <1>1, VaultsNext
<1>2. CASE UNCHANGED vaults
  BY <1>2 DEF vaults, VaultsInv, VaultsTypes, Flows, AllKept, Kept, AsSigned
<1> QED
  BY <1>1, <1>2 DEF Next, screens

\* VaultOpening (create-vault.tsx, api/src/vault-routes.ts): a vault is
\* recorded only with the plan that was on the screen when it was signed for, and one
\* that is on chain without a record can still be recorded, unless its draft was never
\* written, carries another plan, or gave way to another vault's.
THEOREM VaultsAreKept == Spec => []VaultsAccountedFor
<1>1. Init => VaultsInv
  BY VaultsInit DEF Init
<1>2. VaultsInv => VaultsAccountedFor
  BY DEF VaultsInv, AllKept, Kept, AsSigned, VaultsAccountedFor, Vaults!VaultsAccountedFor
<1> QED
  BY <1>1, <1>2, VaultsStep, PTL DEF Spec

(***************************************************************************)
(* SignIn                                                                  *)
(***************************************************************************)

LEMMA SmallestNumber ==
  ASSUME NEW S \in SUBSET Nat, S # {}
  PROVE  \E n \in S : \A k \in S : n <= k
<1>1. PICK n \in S : \A k \in S : <<k, n>> \notin OpToRel(<, Nat)
  BY NatLessThanWellFounded, WFMin
<1>2. \A k \in S : ~(k < n)
  BY <1>1 DEF OpToRel
<1> QED
  BY <1>2

Membership == [org : Nat, wallet : Wallet, active : BOOLEAN]
Session == [org : Nat, wallet : Wallet, live : BOOLEAN, out : BOOLEAN]
View == [state : {"signed-out", "ready", "unreachable"}, org : Nat \cup {None}]
FlowAt == {"verify", "bootstrap", "enter", "answer", "load", "switch", "revoke", "logout", "left", "refused"}
Pending == [tab : Tab, at : FlowAt, session : Nat \cup {None}, wallet : Wallet \cup {None}, org : Nat \cup {None}]

\* The wallet belongs or has belonged to the organisation.
Joined(w, org, m) == \E n \in 1 .. Len(m) : m[n].wallet = w /\ m[n].org = org

FlowFits(f, m, s) ==
  /\ f \in Pending /\ f.session \in (1 .. Len(s)) \cup {None}
  /\ f.at \in {"verify", "bootstrap", "enter", "revoke"} => f.wallet \in Wallet
  /\ f.at \in {"enter", "revoke"} => f.org \in Nat /\ Joined(f.wallet, f.org, m)

BrowserTypes ==
  /\ member \in Seq(Membership) /\ session \in Seq(Session)
  /\ cookie \in (1 .. Len(session)) \cup {None} /\ window \in [Tab -> View]
  /\ \A f \in flows : FlowFits(f, member, session)
  /\ \A n \in 1 .. Len(session) : Joined(session[n].wallet, session[n].org, member)
  /\ \E k \in Nat : Browser!Orgs = 1 .. k

\* A tab shows the session of the cookie, or has yet to learn about it; one that is
\* signed out was told so of a session that is revoked, or that was issued too late.
Current(t) ==
  cookie # None =>
    \/ window[t] = Browser!Shows("ready", session[cookie].org) \/ window[t].state = "unreachable"
    \/ window[t] = Browser!SignedOut /\ (session[cookie].live => session[cookie].out)
    \/ \E f \in flows : f.tab = t /\ f.at = "load"
AllCurrent == \A t \in Tab \ behind : Current(t)

\* Putting a member out revoked what it had been issued before.
HeldByMembers ==
  \A n \in 1 .. Len(session) :
    session[n].live /\ ~session[n].out => Browser!Belongs(session[n].wallet, session[n].org)

BrowserInv == BrowserTypes /\ AllCurrent /\ HeldByMembers

LEMMA BrowserInit == Browser!Init => BrowserInv
<1> SUFFICES ASSUME Browser!Init PROVE BrowserInv
  OBVIOUS
<1>1. member = <<>> /\ session = <<>> /\ cookie = None /\ flows = {} /\ window = [t \in Tab |-> Browser!SignedOut]
  BY DEF Browser!Init
<1>2. Browser!SignedOut \in View
  BY DEF Browser!SignedOut, Browser!Shows, View
<1>3. Browser!Orgs = 1 .. 0
  BY <1>1 DEF Browser!Orgs
<1>4. BrowserTypes
  BY <1>1, <1>2, <1>3 DEF BrowserTypes
<1>5. AllCurrent /\ HeldByMembers
  BY <1>1 DEF AllCurrent, Current, HeldByMembers
<1> QED
  BY <1>4, <1>5 DEF BrowserInv

\* Requests come and go, and the page hears of nothing new.
LEMMA BrowserAsks ==
  ASSUME BrowserInv, UNCHANGED <<member, session, cookie, window, behind>>,
         \A f \in flows' : FlowFits(f, member, session),
         \A f \in flows : f.at = "load" => f \in flows'
  PROVE  BrowserInv'
<1>1. BrowserTypes'
  BY DEF BrowserInv, BrowserTypes, Browser!Orgs
<1>2. AllCurrent'
  BY DEF BrowserInv, AllCurrent, Current
<1>3. HeldByMembers'
  BY DEF BrowserInv, HeldByMembers, Browser!Belongs
<1> QED
  BY <1>1, <1>2, <1>3 DEF BrowserInv

LEMMA FlowBegins ==
  ASSUME BrowserInv, NEW t \in Tab, NEW at \in FlowAt \ {"verify", "bootstrap", "enter", "revoke"},
         NEW s \in (1 .. Len(session)) \cup {None}, NEW org \in Nat \cup {None}
  PROVE  /\ FlowFits(Browser!Flow(t, at, s), member, session)
         /\ FlowFits([Browser!Flow(t, at, s) EXCEPT !.org = org], member, session)
         /\ Browser!Flow(t, at, s).at = at /\ Browser!Flow(t, at, s).tab = t
<1>1. s \in Nat \cup {None}
  BY DEF BrowserInv, BrowserTypes
<1>2. Browser!Flow(t, at, s) = [tab |-> t, at |-> at, session |-> s, wallet |-> None, org |-> None]
  BY DEF Browser!Flow
<1> QED
  BY <1>1, <1>2 DEF FlowFits, Pending

LEMMA BrowserBegins ==
  ASSUME BrowserInv, NEW t \in Tab,
         \/ \E w \in Wallet : Browser!Challenge(t, w)
         \/ \E org \in Browser!Orgs : Browser!Switch(t, org)
         \/ Browser!Reload(t) \/ Browser!SignOut(t)
  PROVE  BrowserInv'
<1>1. PICK g : flows' = flows \cup {g} /\ FlowFits(g, member, session)
  <2>1. ASSUME NEW w \in Wallet, Browser!Challenge(t, w)
        PROVE  \E g : flows' = flows \cup {g} /\ FlowFits(g, member, session)
    <3> DEFINE g == [tab |-> t, at |-> "verify", session |-> None, wallet |-> w, org |-> None]
    <3>1. [Browser!Flow(t, "verify", None) EXCEPT !.wallet = w] = g
      BY DEF Browser!Flow
    <3>2. g \in Pending
      BY DEF Pending, FlowAt
    <3>3. FlowFits(g, member, session)
      BY <3>2 DEF FlowFits
    <3>4. flows' = flows \cup {g}
      BY <2>1, <3>1 DEF Browser!Challenge, Browser!Start
    <3> QED
      BY <3>3, <3>4
  <2>2. cookie \in (1 .. Len(session)) \cup {None}
    BY DEF BrowserInv, BrowserTypes
  <2>3. ASSUME NEW org \in Browser!Orgs, Browser!Switch(t, org)
        PROVE  \E g : flows' = flows \cup {g} /\ FlowFits(g, member, session)
    <3>1. org \in Nat \cup {None}
      BY DEF BrowserInv, BrowserTypes
    <3>2. flows' = flows \cup {[Browser!Flow(t, "switch", cookie) EXCEPT !.org = org]}
      BY <2>3 DEF Browser!Switch, Browser!Start
    <3>3. FlowFits([Browser!Flow(t, "switch", cookie) EXCEPT !.org = org], member, session)
      BY <2>2, <3>1, FlowBegins DEF FlowAt
    <3> QED
      BY <3>2, <3>3
  <2>4. ASSUME Browser!Reload(t) PROVE \E g : flows' = flows \cup {g} /\ FlowFits(g, member, session)
    <3>1. flows' = flows \cup {Browser!Flow(t, "load", cookie)}
      BY <2>4 DEF Browser!Reload, Browser!Start
    <3>2. FlowFits(Browser!Flow(t, "load", cookie), member, session)
      BY <2>2, FlowBegins DEF FlowAt
    <3> QED
      BY <3>1, <3>2
  <2>5. ASSUME Browser!SignOut(t) PROVE \E g : flows' = flows \cup {g} /\ FlowFits(g, member, session)
    <3>1. flows' = flows \cup {Browser!Flow(t, "logout", cookie)}
      BY <2>5 DEF Browser!SignOut, Browser!Start
    <3>2. FlowFits(Browser!Flow(t, "logout", cookie), member, session)
      BY <2>2, FlowBegins DEF FlowAt
    <3> QED
      BY <3>1, <3>2
  <2> QED
    BY <2>1, <2>3, <2>4, <2>5
<1>2. UNCHANGED <<member, session, cookie, window, behind>>
  BY DEF Browser!Challenge, Browser!Switch, Browser!Reload, Browser!SignOut, Browser!Tables
<1>3. \A f \in flows' : FlowFits(f, member, session)
  BY <1>1 DEF BrowserInv, BrowserTypes
<1>4. \A f \in flows : f \in flows'
  BY <1>1
<1> QED
  BY <1>2, <1>3, <1>4, BrowserAsks

LEMMA BelongsJoined ==
  ASSUME BrowserInv, NEW w, NEW org, Browser!Belongs(w, org) PROVE Joined(w, org, member) /\ org \in Nat
<1>0. DOMAIN member = 1 .. Len(member)
  BY DEF BrowserInv, BrowserTypes
<1>1. PICK n \in 1 .. Len(member) : member[n] = [org |-> org, wallet |-> w, active |-> TRUE]
  BY <1>0 DEF Browser!Belongs
<1>2. member[n].wallet = w /\ member[n].org = org /\ member[n] \in Membership
  BY <1>1 DEF BrowserInv, BrowserTypes
<1> QED
  BY <1>2 DEF Joined, Membership

\* The organisation that verify answers with is one that the wallet is in.
LEMMA FirstJoined ==
  ASSUME BrowserInv, NEW w, Browser!FirstActive(w) # None
  PROVE  Joined(w, Browser!FirstActive(w), member) /\ Browser!FirstActive(w) \in Nat
<1> DEFINE active == {n \in Browser!Memberships(w) : member[n].active}
           first == CHOOSE n \in active : \A k \in active : n <= k
<1>1. active # {} /\ Browser!FirstActive(w) = member[first].org
  BY DEF Browser!FirstActive
<1>2. active \subseteq 1 .. Len(member) /\ active \in SUBSET Nat /\ \A n \in active : member[n].wallet = w
  BY DEF Browser!Memberships, BrowserInv, BrowserTypes
<1> HIDE DEF active
<1>3. \E n \in active : \A k \in active : n <= k
  BY <1>1, <1>2, SmallestNumber
<1>4. first \in active
  BY <1>3
<1> HIDE DEF first
<1>5. first \in 1 .. Len(member) /\ member[first].wallet = w /\ member[first] \in Membership
  BY <1>2, <1>4 DEF BrowserInv, BrowserTypes
<1> QED
  BY <1>1, <1>5 DEF Joined, Membership

LEMMA BrowserReads ==
  ASSUME BrowserInv, NEW f \in flows, Browser!Verify(f) \/ Browser!ReadMembership(f)
  PROVE  BrowserInv'
<1>1. FlowFits(f, member, session) /\ f \in Pending
  BY DEF BrowserInv, BrowserTypes, FlowFits
<1>2. UNCHANGED <<member, session, cookie, window, behind>> /\ f.at \in {"verify", "switch"}
  BY DEF Browser!Verify, Browser!ReadMembership, Browser!Tables
<1>3. flows' = flows \ {f} \/ \E g : FlowFits(g, member, session) /\ flows' = (flows \ {f}) \cup {g}
  <2>1. CASE Browser!Verify(f)
    <3>1. f.wallet \in Wallet
      BY <1>1, <2>1 DEF Browser!Verify, FlowFits
    <3>2. CASE flows' = (flows \ {f}) \cup {[f EXCEPT !.at = "bootstrap"]}
      <4> DEFINE g == [f EXCEPT !.at = "bootstrap"]
      <4>1. g \in Pending /\ g.at = "bootstrap" /\ g.session = f.session /\ g.wallet = f.wallet
        BY <1>1 DEF Pending, FlowAt
      <4>2. FlowFits(g, member, session)
        BY <1>1, <3>1, <4>1 DEF FlowFits
      <4> QED
        BY <3>2, <4>2
    <3>3. CASE /\ Browser!FirstActive(f.wallet) # None
               /\ flows' = (flows \ {f}) \cup {[f EXCEPT !.at = "enter", !.org = Browser!FirstActive(f.wallet)]}
      <4> PICK org : org = Browser!FirstActive(f.wallet)
        OBVIOUS
      <4>1. Joined(f.wallet, org, member) /\ org \in Nat
        BY <3>3, FirstJoined
      <4> DEFINE g == [f EXCEPT !.at = "enter", !.org = org]
      <4>2. /\ g \in Pending /\ g.at = "enter" /\ g.session = f.session /\ g.wallet = f.wallet
            /\ g.org = org
        BY <1>1, <4>1 DEF Pending, FlowAt
      <4>3. flows' = (flows \ {f}) \cup {g}
        BY <3>3
      <4> HIDE DEF g
      <4>4. FlowFits(g, member, session)
        BY <1>1, <3>1, <4>1, <4>2 DEF FlowFits
      <4> QED
        BY <4>3, <4>4
    <3> QED
      BY <2>1, <3>2, <3>3 DEF Browser!Verify, Browser!Ends, Browser!Becomes
  <2>2. CASE Browser!ReadMembership(f)
    <3>1. CASE Browser!Accepted(f.session) /\ Browser!Belongs(session[f.session].wallet, f.org)
      <4> PICK w : w = session[f.session].wallet
        OBVIOUS
      <4>1. f.session \in 1 .. Len(session)
        BY <1>1, <3>1 DEF FlowFits, Browser!Accepted
      <4>2. w \in Wallet
        <5>1. session[f.session] \in Session
          BY <4>1 DEF BrowserInv, BrowserTypes
        <5> QED
          BY <5>1 DEF Session
      <4>3. Joined(w, f.org, member) /\ f.org \in Nat
        BY <3>1, BelongsJoined
      <4> DEFINE g == [f EXCEPT !.at = "revoke", !.wallet = w]
      <4>4. /\ g \in Pending /\ g.at = "revoke" /\ g.session = f.session /\ g.wallet = w
            /\ g.org = f.org
        BY <1>1, <4>2 DEF Pending, FlowAt
      <4>5. flows' = (flows \ {f}) \cup {g}
        BY <2>2, <3>1 DEF Browser!ReadMembership, Browser!Becomes
      <4> HIDE DEF g
      <4>6. FlowFits(g, member, session)
        BY <1>1, <4>2, <4>3, <4>4 DEF FlowFits
      <4> QED
        BY <4>5, <4>6
    <3>2. CASE ~(Browser!Accepted(f.session) /\ Browser!Belongs(session[f.session].wallet, f.org))
      BY <2>2, <3>2 DEF Browser!ReadMembership, Browser!Ends
    <3> QED
      BY <3>1, <3>2
  <2> QED
    BY <2>1, <2>2
<1>4. \A g \in flows' : FlowFits(g, member, session)
  BY <1>3 DEF BrowserInv, BrowserTypes
<1>5. \A g \in flows : g.at = "load" => g \in flows'
  BY <1>2, <1>3
<1> QED
  BY <1>2, <1>4, <1>5, BrowserAsks

\* What a tab shows changes with the answer of its own load, or with signing out.
LEMMA BrowserShows ==
  ASSUME BrowserInv, NEW f \in flows, Browser!ShowSession(f) \/ Browser!Fail(f) \/ Browser!Leave(f)
  PROVE  BrowserInv'
<1>1. FlowFits(f, member, session) /\ f.tab \in Tab
  BY DEF BrowserInv, BrowserTypes, FlowFits, Pending
<1>2. flows' = flows \ {f} /\ UNCHANGED <<member, session>>
  BY DEF Browser!ShowSession, Browser!Fail, Browser!Leave, Browser!Ends, Browser!Tables
<1>3. window \in [Tab -> View] /\ cookie \in (1 .. Len(session)) \cup {None}
  BY DEF BrowserInv, BrowserTypes
<1>4. Browser!SignedOut \in View /\ Browser!Shows("unreachable", None) \in View
  BY DEF Browser!SignedOut, Browser!Shows, View
<1>5. ASSUME UNCHANGED cookie \/ cookie' = None, window' \in [Tab -> View] PROVE BrowserTypes' /\ HeldByMembers'
  <2>1. BrowserTypes'
    BY <1>2, <1>5 DEF BrowserInv, BrowserTypes, Browser!Orgs
  <2>2. HeldByMembers'
    BY <1>2 DEF BrowserInv, HeldByMembers, Browser!Belongs
  <2> QED
    BY <2>1, <2>2
<1>6. ASSUME UNCHANGED cookie, NEW t \in Tab, t # f.tab, t \notin behind, window'[t] = window[t] PROVE Current(t)'
  <2>1. \A g \in flows : g.tab = t => g \in flows'
    BY <1>2, <1>6
  <2> QED
    BY <1>2, <1>6, <2>1 DEF BrowserInv, AllCurrent, Current
<1>7. CASE Browser!ShowSession(f)
  <2> PICK v : v = IF Browser!Accepted(f.session) THEN Browser!Shows("ready", session[f.session].org) ELSE Browser!SignedOut
    OBVIOUS
  <2>1. /\ f.at = "load" /\ window' = [window EXCEPT ![f.tab] = v] /\ UNCHANGED cookie
        /\ behind' = IF f.session = cookie THEN behind \ {f.tab} ELSE behind \cup {f.tab}
    BY <1>7 DEF Browser!ShowSession
  <2>2. v \in View
    <3>1. ASSUME Browser!Accepted(f.session) PROVE session[f.session].org \in Nat
      <4>1. f.session \in 1 .. Len(session)
        BY <1>1, <3>1 DEF FlowFits, Browser!Accepted
      <4>2. session[f.session] \in Session
        BY <4>1 DEF BrowserInv, BrowserTypes
      <4> QED
        BY <4>2 DEF Session
    <3> QED
      BY <1>4, <3>1 DEF Browser!Shows, View
  <2>3. window' \in [Tab -> View] /\ \A t \in Tab : window'[t] = IF t = f.tab THEN v ELSE window[t]
    BY <1>3, <2>1, <2>2
  <2>4. ASSUME NEW t \in Tab \ behind' PROVE Current(t)'
    <3>1. CASE t = f.tab
      <4>1. f.session = cookie /\ window'[t] = v
        BY <2>1, <2>3, <2>4, <3>1
      <4>2. CASE Browser!Accepted(cookie)
        <5>1. v = Browser!Shows("ready", session[cookie].org)
          BY <4>1, <4>2
        <5> QED
          BY <1>2, <2>1, <4>1, <5>1 DEF Current
      <4>3. CASE ~Browser!Accepted(cookie)
        <5>1. v = Browser!SignedOut
          BY <4>1, <4>3
        <5>2. cookie # None => (session[cookie].live => session[cookie].out)
          BY <1>3, <4>3 DEF BrowserInv, HeldByMembers, Browser!Accepted
        <5> QED
          BY <1>2, <2>1, <4>1, <5>1, <5>2 DEF Current
      <4> QED
        BY <4>2, <4>3
    <3>2. CASE t # f.tab
      BY <1>6, <2>1, <2>3, <2>4, <3>2
    <3> QED
      BY <3>1, <3>2
  <2> QED
    BY <1>5, <2>1, <2>3, <2>4 DEF BrowserInv, AllCurrent
<1>8. CASE Browser!Fail(f)
  <2>1. /\ UNCHANGED <<cookie, behind>>
        /\ window' = IF f.at = "load" THEN [window EXCEPT ![f.tab] = Browser!Shows("unreachable", None)] ELSE window
    BY <1>8 DEF Browser!Fail
  <2>2. window' \in [Tab -> View] /\ \A t \in Tab : t # f.tab => window'[t] = window[t]
    BY <1>3, <1>4, <2>1
  <2>3. ASSUME NEW t \in Tab \ behind PROVE Current(t)'
    <3>1. CASE t # f.tab
      BY <1>6, <2>1, <2>2, <2>3, <3>1
    <3>2. CASE t = f.tab /\ f.at = "load"
      <4>1. window'[t].state = "unreachable"
        BY <1>1, <1>3, <2>1, <3>2 DEF Browser!Shows
      <4> QED
        BY <4>1 DEF Current
    <3>3. CASE t = f.tab /\ f.at # "load"
      <4>1. UNCHANGED window /\ \A g \in flows : g.at = "load" => g \in flows'
        BY <1>2, <2>1, <3>3
      <4> QED
        BY <1>2, <2>1, <2>3, <4>1 DEF BrowserInv, AllCurrent, Current
    <3> QED
      BY <3>1, <3>2, <3>3
  <2> QED
    BY <1>5, <2>1, <2>2, <2>3 DEF BrowserInv, AllCurrent
<1>9. CASE Browser!Leave(f)
  <2>1. /\ window' = [window EXCEPT ![f.tab] = Browser!SignedOut]
        /\ cookie' = None \/ (UNCHANGED cookie /\ behind' = behind \cup {f.tab})
    BY <1>9 DEF Browser!Leave
  <2>2. window' \in [Tab -> View] /\ \A t \in Tab : t # f.tab => window'[t] = window[t]
    BY <1>3, <1>4, <2>1
  <2>3. CASE cookie' = None
    BY <1>5, <2>2, <2>3 DEF BrowserInv, AllCurrent, Current
  <2>4. CASE UNCHANGED cookie /\ behind' = behind \cup {f.tab}
    <3>1. ASSUME NEW t \in Tab \ behind' PROVE Current(t)'
      BY <1>6, <2>2, <2>4, <3>1
    <3> QED
      BY <1>5, <2>2, <2>4, <3>1 DEF BrowserInv, AllCurrent
  <2> QED
    BY <2>1, <2>3, <2>4
<1> QED
  BY <1>7, <1>8, <1>9

\* Members are added, put out and taken back, sessions are added and revoked, and no
\* session becomes live, or timely, that was not.
LEMMA BrowserTables ==
  ASSUME BrowserInv, UNCHANGED <<cookie, window, behind>>,
         member' \in Seq(Membership), session' \in Seq(Session),
         Len(member) <= Len(member'), Len(session) <= Len(session'),
         \A n \in 1 .. Len(member) :
           member'[n].wallet = member[n].wallet /\ member'[n].org = member[n].org,
         \A n \in 1 .. Len(session) :
           /\ session'[n].wallet = session[n].wallet /\ session'[n].org = session[n].org
           /\ session'[n].live => session[n].live
           /\ session'[n].out = session[n].out,
         HeldByMembers',
         \A n \in 1 .. Len(session') :
           n \in 1 .. Len(session) \/ Joined(session'[n].wallet, session'[n].org, member'),
         \A f \in flows' : f \in flows \/ FlowFits(f, member', session'),
         \A f \in flows : f.at = "load" => f \in flows',
         \E k \in Nat : Browser!Orgs' = 1 .. k
  PROVE  BrowserInv'
<1>1. /\ member \in Seq(Membership) /\ session \in Seq(Session) /\ Len(member) \in Nat /\ Len(session) \in Nat
      /\ cookie \in (1 .. Len(session)) \cup {None}
      /\ 1 .. Len(member) \subseteq 1 .. Len(member') /\ 1 .. Len(session) \subseteq 1 .. Len(session')
  BY DEF BrowserInv, BrowserTypes
<1>2. \A w, org : Joined(w, org, member) => Joined(w, org, member')
  BY <1>1 DEF Joined
<1>3. \A f : FlowFits(f, member, session) => FlowFits(f, member', session')
  BY <1>1, <1>2 DEF FlowFits
<1>4. \A n \in 1 .. Len(session') : Joined(session'[n].wallet, session'[n].org, member')
  BY <1>2 DEF BrowserInv, BrowserTypes
<1>5. BrowserTypes'
  BY <1>1, <1>3, <1>4 DEF BrowserInv, BrowserTypes
<1>6. AllCurrent'
  <2>1. ASSUME NEW t \in Tab \ behind, cookie # None
        PROVE  \/ window[t] = Browser!Shows("ready", session'[cookie].org) \/ window[t].state = "unreachable"
               \/ window[t] = Browser!SignedOut /\ (session'[cookie].live => session'[cookie].out)
               \/ \E f \in flows' : f.tab = t /\ f.at = "load"
    <3>1. /\ session'[cookie].org = session[cookie].org /\ session'[cookie].out = session[cookie].out
          /\ session'[cookie].live => session[cookie].live
      BY <1>1, <2>1
    <3> QED
      BY <2>1, <3>1 DEF BrowserInv, AllCurrent, Current
  <2> QED
    BY <2>1 DEF AllCurrent, Current
<1> QED
  BY <1>5, <1>6 DEF BrowserInv

\* A wallet joins an organisation that it is not in yet.
LEMMA BrowserJoins ==
  ASSUME BrowserInv, NEW w \in Wallet, NEW org \in Browser!Orgs \cup {Browser!Cardinality(Browser!Orgs) + 1},
         ~Joined(w, org, member), Browser!AddWallet(w, org), UNCHANGED <<session, cookie, window, behind>>,
         \A f \in flows' : f \in flows \/ (Joined(w, org, member') => FlowFits(f, member', session)),
         \A f \in flows : f.at = "load" => f \in flows'
  PROVE  BrowserInv' /\ Joined(w, org, member')
<1>1. PICK k \in Nat : Browser!Orgs = 1 .. k
  BY DEF BrowserInv, BrowserTypes
<1>2. Browser!Cardinality(1 .. k) = k
  <2>1. Cardinality(1 .. k) = k
    BY FS_Interval
  <2> QED
    BY <2>1 DEF Cardinality, Browser!Cardinality
<1>3. org \in 1 .. k + 1 /\ org \in Nat
  BY <1>1, <1>2
<1> DEFINE new == [org |-> org, wallet |-> w, active |-> TRUE]
<1>4. new \in Membership /\ member' = Append(member, new) /\ member \in Seq(Membership) /\ session \in Seq(Session)
  BY <1>3 DEF Browser!AddWallet, Membership, BrowserInv, BrowserTypes
<1>5. new.org = org /\ new.wallet = w
  OBVIOUS
<1> HIDE DEF new
<1>6. /\ member' \in Seq(Membership) /\ Len(member) \in Nat /\ Len(member') = Len(member) + 1
      /\ \A n \in 1 .. Len(member) : member'[n] = member[n]
      /\ member'[Len(member) + 1] = new
  BY <1>4
<1>7. \A n \in 1 .. Len(member') : n \in 1 .. Len(member) \/ n = Len(member) + 1
  BY <1>6
<1>8. Joined(w, org, member')
  <2>1. Len(member) + 1 \in 1 .. Len(member')
    BY <1>6
  <2> QED
    BY <1>5, <1>6, <2>1 DEF Joined
<1>9. Browser!Orgs' = Browser!Orgs \cup {org}
  <2>1. DOMAIN member = 1 .. Len(member) /\ DOMAIN member' = 1 .. Len(member')
    BY <1>4, <1>6
  <2>2. Len(member) + 1 \in 1 .. Len(member') /\ 1 .. Len(member) \subseteq 1 .. Len(member')
    BY <1>6
  <2>3. \A o : o \in Browser!Orgs' <=> \E n \in 1 .. Len(member') : o = member'[n].org
    BY <2>1 DEF Browser!Orgs
  <2>4. \A o : o \in Browser!Orgs <=> \E n \in 1 .. Len(member) : o = member[n].org
    BY <2>1 DEF Browser!Orgs
  <2>5. \A o : o \in Browser!Orgs' <=> o \in Browser!Orgs \/ o = org
    BY <1>5, <1>6, <1>7, <2>2, <2>3, <2>4
  <2> QED
    BY <2>5
<1>10. Browser!Orgs' = 1 .. k \/ Browser!Orgs' = 1 .. k + 1
  BY <1>1, <1>3, <1>9
<1>11. \E j \in Nat : Browser!Orgs' = 1 .. j
  BY <1>10
<1>12. \A f \in flows' : f \in flows \/ FlowFits(f, member', session')
  BY <1>8
<1>13. HeldByMembers'
  <2>1. DOMAIN member = 1 .. Len(member) /\ DOMAIN member' = 1 .. Len(member')
    BY <1>4, <1>6
  <2>2. 1 .. Len(member) \subseteq 1 .. Len(member')
    BY <1>6
  <2>3. \A v, o : Browser!Belongs(v, o) => Browser!Belongs(v, o)'
    BY <1>6, <2>1, <2>2 DEF Browser!Belongs
  <2> QED
    BY <2>3 DEF BrowserInv, HeldByMembers
<1>14. Len(session) <= Len(session') /\ session' \in Seq(Session)
  BY <1>4
<1>15. BrowserInv'
  BY <1>6, <1>11, <1>12, <1>13, <1>14, BrowserTables
<1> QED
  BY <1>8, <1>15

LEMMA BrowserAdds ==
  ASSUME BrowserInv,
         \/ \E w \in Wallet, org \in Browser!Orgs \cup {Browser!Cardinality(Browser!Orgs) + 1} : Browser!AddMember(w, org)
         \/ \E f \in flows : Browser!BootstrapOwner(f)
  PROVE  BrowserInv'
<1>1. DOMAIN member = 1 .. Len(member)
  BY DEF BrowserInv, BrowserTypes
<1>2. CASE \E w \in Wallet, org \in Browser!Orgs \cup {Browser!Cardinality(Browser!Orgs) + 1} : Browser!AddMember(w, org)
  <2>1. PICK w \in Wallet, org \in Browser!Orgs \cup {Browser!Cardinality(Browser!Orgs) + 1} : Browser!AddMember(w, org)
    BY <1>2
  <2>2. ~Joined(w, org, member)
    BY <1>1, <2>1 DEF Joined, Browser!AddMember, Browser!Memberships
  <2>3. Browser!AddWallet(w, org) /\ UNCHANGED <<session, cookie, window, flows, behind>>
    BY <2>1 DEF Browser!AddMember
  <2> QED
    BY <2>2, <2>3, BrowserJoins
<1>3. CASE \E f \in flows : Browser!BootstrapOwner(f)
  <2>1. PICK f \in flows : Browser!BootstrapOwner(f)
    BY <1>3
  <2> PICK w, org : w = f.wallet /\ org = Browser!Cardinality(Browser!Orgs) + 1
    OBVIOUS
  <2> DEFINE g == [f EXCEPT !.at = "enter", !.org = org]
  <2>2. /\ f.at = "bootstrap" /\ Browser!AddWallet(w, org) /\ flows' = (flows \ {f}) \cup {g}
        /\ UNCHANGED <<session, cookie, window, behind>>
    BY <2>1 DEF Browser!BootstrapOwner, Browser!Becomes
  <2>3. FlowFits(f, member, session) /\ f \in Pending /\ w \in Wallet
    BY <2>2 DEF BrowserInv, BrowserTypes, FlowFits
  <2>4. PICK k \in Nat : Browser!Orgs = 1 .. k
    BY DEF BrowserInv, BrowserTypes
  <2>5. org = k + 1
    <3>1. Cardinality(1 .. k) = k
      BY FS_Interval
    <3> QED
      BY <2>4, <3>1 DEF Cardinality, Browser!Cardinality
  <2>6. ~Joined(w, org, member)
    <3>1. \A n \in 1 .. Len(member) : member[n].org \in 1 .. k
      BY <1>1, <2>4 DEF Browser!Orgs
    <3> QED
      BY <2>5, <3>1 DEF Joined
  <2>0. org \in Nat
    BY <2>5
  <2>7. g \in Pending /\ g.at = "enter" /\ g.session = f.session /\ g.wallet = w /\ g.org = org
    BY <2>0, <2>2, <2>3 DEF Pending, FlowAt
  <2> HIDE DEF g
  <2>8. Joined(w, org, member') => FlowFits(g, member', session)
    BY <2>0, <2>3, <2>7 DEF FlowFits
  <2>9. \A h \in flows' : h \in flows \/ (Joined(w, org, member') => FlowFits(h, member', session))
    BY <2>2, <2>8
  <2>10. \A h \in flows : h.at = "load" => h \in flows'
    BY <2>2
  <2>11. org \in Browser!Orgs \cup {Browser!Cardinality(Browser!Orgs) + 1}
    OBVIOUS
  <2> QED
    BY <2>2, <2>3, <2>6, <2>9, <2>10, <2>11, BrowserJoins
<1> QED
  BY <1>2, <1>3

LEMMA BrowserIssues == ASSUME BrowserInv, NEW f \in flows, Browser!CreateSession(f) PROVE BrowserInv'
<1> DEFINE new == [org |-> f.org, wallet |-> f.wallet, live |-> TRUE, out |-> ~Browser!Belongs(f.wallet, f.org)]
           g == [f EXCEPT !.at = "answer", !.session = Len(session) + 1]
<1>1. /\ f.at = "enter" /\ session' = Append(session, new) /\ flows' = (flows \ {f}) \cup {g}
      /\ UNCHANGED <<member, cookie, window, behind>>
  BY DEF Browser!CreateSession, Browser!Becomes
<1>2. f \in Pending /\ f.wallet \in Wallet /\ f.org \in Nat /\ Joined(f.wallet, f.org, member)
  BY <1>1 DEF BrowserInv, BrowserTypes, FlowFits
<1>3. member \in Seq(Membership) /\ session \in Seq(Session) /\ Len(session) \in Nat /\ Len(member) \in Nat
  BY DEF BrowserInv, BrowserTypes
<1>4. /\ new \in Session /\ new.org = f.org /\ new.wallet = f.wallet
      /\ ~new.out => Browser!Belongs(f.wallet, f.org)
  <2> PICK b \in BOOLEAN : b = ~Browser!Belongs(f.wallet, f.org)
    BY DEF Browser!Belongs
  <2>1. new = [org |-> f.org, wallet |-> f.wallet, live |-> TRUE, out |-> b]
    OBVIOUS
  <2> HIDE DEF new
  <2>2. new \in Session /\ new.org = f.org /\ new.wallet = f.wallet /\ new.out = b
    BY <1>2, <2>1 DEF Session
  <2> QED
    BY <2>2
<1>5. g \in Pending /\ g.at = "answer" /\ g.session = Len(session) + 1
  <2> PICK s : s = Len(session) + 1
    OBVIOUS
  <2>1. s \in Nat
    BY <1>3
  <2>2. g = [f EXCEPT !.at = "answer", !.session = s]
    OBVIOUS
  <2>3. g \in Pending /\ g.at = "answer" /\ g.session = s
    BY <1>2, <2>1, <2>2 DEF Pending, FlowAt
  <2> QED
    BY <2>3
<1> HIDE DEF new, g
<1>6. /\ session' \in Seq(Session) /\ Len(session') = Len(session) + 1
      /\ \A n \in 1 .. Len(session) : session'[n] = session[n]
      /\ session'[Len(session) + 1] = new
  BY <1>1, <1>3, <1>4
<1>7. FlowFits(g, member', session')
  BY <1>3, <1>5, <1>6 DEF FlowFits
<1>8. \A n \in 1 .. Len(session') :
        n \in 1 .. Len(session) \/ Joined(session'[n].wallet, session'[n].org, member')
  <2>1. \A n \in 1 .. Len(session') : n \in 1 .. Len(session) \/ n = Len(session) + 1
    BY <1>3, <1>6
  <2> QED
    BY <1>1, <1>2, <1>4, <1>6, <2>1
<1>9. \A h \in flows' : h \in flows \/ FlowFits(h, member', session')
  BY <1>1, <1>7
<1>10. \A h \in flows : h.at = "load" => h \in flows'
  BY <1>1
<1>11. \E k \in Nat : Browser!Orgs' = 1 .. k
  BY <1>1 DEF BrowserInv, BrowserTypes, Browser!Orgs
<1>12. Len(member) <= Len(member') /\ Len(session) <= Len(session') /\ member' \in Seq(Membership)
  BY <1>1, <1>3, <1>6
<1>13. HeldByMembers'
  <2>1. \A w, org : Browser!Belongs(w, org) => Browser!Belongs(w, org)'
    BY <1>1 DEF Browser!Belongs
  <2>2. \A n \in 1 .. Len(session') : n \in 1 .. Len(session) \/ n = Len(session) + 1
    BY <1>3, <1>6
  <2>3. ASSUME NEW n \in 1 .. Len(session'), session'[n].live, ~session'[n].out
        PROVE  Browser!Belongs(session[n].wallet, session[n].org)'
    <3>1. CASE n \in 1 .. Len(session)
      BY <1>6, <2>1, <2>3, <3>1 DEF BrowserInv, HeldByMembers
    <3>2. CASE n = Len(session) + 1
      BY <1>4, <1>6, <2>1, <2>3, <3>2
    <3> QED
      BY <2>2, <3>1, <3>2
  <2> QED
    BY <2>3 DEF HeldByMembers
<1> QED
  BY <1>1, <1>6, <1>8, <1>9, <1>10, <1>11, <1>12, <1>13, BrowserTables

\* Sessions end, with or without a change to their member.
LEMMA BrowserEnds ==
  ASSUME BrowserInv, UNCHANGED <<cookie, window, behind>>,
         member' \in Seq(Membership), Len(member') = Len(member),
         \A n \in 1 .. Len(member) :
           member'[n].wallet = member[n].wallet /\ member'[n].org = member[n].org,
         session' \in Seq(Session), Len(session') = Len(session),
         \A n \in 1 .. Len(session) :
           /\ session'[n].wallet = session[n].wallet /\ session'[n].org = session[n].org
           /\ session'[n].live => session[n].live
           /\ session'[n].out = session[n].out,
         HeldByMembers',
         \A f \in flows' : f \in flows \/ FlowFits(f, member, session),
         \A f \in flows : f.at = "load" => f \in flows'
  PROVE  BrowserInv'
<1>1. member \in Seq(Membership) /\ session \in Seq(Session) /\ Len(session) \in Nat /\ Len(member) \in Nat
  BY DEF BrowserInv, BrowserTypes
<1>2. Browser!Orgs' = Browser!Orgs
  <2>1. DOMAIN member = 1 .. Len(member) /\ DOMAIN member' = 1 .. Len(member)
    BY <1>1
  <2> QED
    BY <2>1 DEF Browser!Orgs
<1>3. \A f : FlowFits(f, member, session) => FlowFits(f, member', session')
  BY DEF FlowFits, Joined
<1>4. \E k \in Nat : Browser!Orgs' = 1 .. k
  BY <1>2 DEF BrowserInv, BrowserTypes
<1>5. \A f \in flows' : f \in flows \/ FlowFits(f, member', session')
  BY <1>3
<1>6. /\ Len(member) <= Len(member') /\ Len(session) <= Len(session')
      /\ \A n \in 1 .. Len(session') : n \in 1 .. Len(session)
  BY <1>1
<1> QED
  BY <1>4, <1>5, <1>6, BrowserTables

LEMMA BrowserRevokes == ASSUME BrowserInv, NEW f \in flows, Browser!RevokeSession(f) PROVE BrowserInv'
<1>1. f.at \in {"revoke", "logout"} /\ UNCHANGED <<member, cookie, window, behind>>
  BY DEF Browser!RevokeSession
<1>2. PICK at \in {"enter", "left", "refused"} :
        /\ flows' = (flows \ {f}) \cup {[f EXCEPT !.at = at]} /\ (at = "enter" => f.at = "revoke")
        /\ session' = [session EXCEPT ![f.session].live = FALSE] \/ session' = session
  BY DEF Browser!RevokeSession, Browser!Revoke, Browser!Becomes
<1> PICK s : s = f.session
  OBVIOUS
<1>3. FlowFits(f, member, session) /\ f \in Pending
  BY DEF BrowserInv, BrowserTypes, FlowFits
<1> DEFINE g == [f EXCEPT !.at = at]
<1>4. g \in Pending /\ g.at = at /\ g.session = f.session /\ g.wallet = f.wallet /\ g.org = f.org
  BY <1>3 DEF Pending, FlowAt
<1>5. flows' = (flows \ {f}) \cup {g}
  BY <1>2
<1> HIDE DEF g
<1>6. FlowFits(g, member, session)
  BY <1>2, <1>3, <1>4 DEF FlowFits
<1>7. member \in Seq(Membership) /\ session \in Seq(Session) /\ DOMAIN session = 1 .. Len(session)
  BY DEF BrowserInv, BrowserTypes
<1>8. /\ session' \in Seq(Session) /\ Len(session') = Len(session)
      /\ \A n \in 1 .. Len(session) :
           /\ session'[n].wallet = session[n].wallet /\ session'[n].org = session[n].org
           /\ session'[n].live => session[n].live
           /\ session'[n].out = session[n].out
  <2>1. CASE session' = session
    BY <1>7, <2>1
  <2>2. CASE session' = [session EXCEPT ![s].live = FALSE] /\ s \in 1 .. Len(session)
    <3> DEFINE dead == [session[s] EXCEPT !.live = FALSE]
    <3>1. session[s] \in Session
      BY <1>7, <2>2
    <3>2. /\ dead \in Session /\ dead.wallet = session[s].wallet /\ dead.org = session[s].org
          /\ ~dead.live /\ dead.out = session[s].out
      BY <3>1 DEF Session
    <3>3. session' = [session EXCEPT ![s] = dead]
      BY <2>2
    <3> HIDE DEF dead
    <3> QED
      BY <1>7, <2>2, <3>2, <3>3
  <2>3. CASE session' = [session EXCEPT ![s].live = FALSE] /\ s \notin 1 .. Len(session)
    <3>1. session = [n \in 1 .. Len(session) |-> session[n]]
      BY <1>7
    <3>2. session' = session
      BY <1>7, <2>3, <3>1
    <3> QED
      BY <1>7, <3>2
  <2> QED
    BY <1>2, <2>1, <2>2, <2>3
<1>9. \A h \in flows' : h \in flows \/ FlowFits(h, member, session)
  BY <1>5, <1>6
<1>10. \A h \in flows : h.at = "load" => h \in flows'
  BY <1>1, <1>5
<1>11. HeldByMembers'
  <2>1. \A w, org : Browser!Belongs(w, org) => Browser!Belongs(w, org)'
    BY <1>1 DEF Browser!Belongs
  <2> QED
    BY <1>8, <2>1 DEF BrowserInv, HeldByMembers
<1> QED
  BY <1>1, <1>7, <1>8, <1>9, <1>10, <1>11, BrowserEnds

LEMMA BrowserStatus ==
  ASSUME BrowserInv, NEW n \in DOMAIN member, NEW active \in BOOLEAN, Browser!SetPrincipalStatus(n, active)
  PROVE  BrowserInv'
<1>1. /\ member' = [member EXCEPT ![n].active = active]
      /\ session' = [s \in DOMAIN session |-> [session[s] EXCEPT !.live = @ /\
           (active \/ session[s].org # member[n].org \/ session[s].wallet # member[n].wallet)]]
      /\ UNCHANGED <<cookie, window, flows, behind>>
  BY DEF Browser!SetPrincipalStatus
<1>2. member \in Seq(Membership) /\ session \in Seq(Session) /\ DOMAIN session = 1 .. Len(session) /\ Len(session) \in Nat
  BY DEF BrowserInv, BrowserTypes
<1>3. /\ member' \in Seq(Membership) /\ Len(member') = Len(member)
      /\ \A k \in 1 .. Len(member) :
           /\ member'[k].wallet = member[k].wallet /\ member'[k].org = member[k].org
           /\ active \/ k # n => member'[k].active \/ ~member[k].active
  <2> DEFINE new == [member[n] EXCEPT !.active = active]
  <2>1. member[n] \in Membership /\ n \in 1 .. Len(member)
    BY <1>2
  <2>2. new \in Membership /\ new.wallet = member[n].wallet /\ new.org = member[n].org /\ new.active = active
    BY <2>1 DEF Membership
  <2>3. member' = [member EXCEPT ![n] = new]
    BY <1>1
  <2> HIDE DEF new
  <2> QED
    BY <1>2, <2>1, <2>2, <2>3
<1>4. \A s \in 1 .. Len(session) :
        /\ session'[s] \in Session
        /\ session'[s].wallet = session[s].wallet /\ session'[s].org = session[s].org
        /\ session'[s].out = session[s].out
        /\ session'[s].live =>
             session[s].live /\ (active \/ session[s].org # member[n].org \/ session[s].wallet # member[n].wallet)
  <2> SUFFICES ASSUME NEW s \in 1 .. Len(session)
               PROVE  /\ session'[s] \in Session
                      /\ session'[s].wallet = session[s].wallet /\ session'[s].org = session[s].org
                      /\ session'[s].out = session[s].out
                      /\ session'[s].live => session[s].live /\
                           (active \/ session[s].org # member[n].org \/ session[s].wallet # member[n].wallet)
    OBVIOUS
  <2>1. session[s] \in Session
    BY <1>2
  <2> DEFINE kept == active \/ session[s].org # member[n].org \/ session[s].wallet # member[n].wallet
  <2>2. PICK b \in BOOLEAN : session'[s] = [session[s] EXCEPT !.live = b] /\ (b => session[s].live /\ kept)
    <3> DEFINE b == session[s].live /\ kept
    <3>1. b \in BOOLEAN /\ (b => session[s].live /\ kept)
      OBVIOUS
    <3>2. session'[s] = [session[s] EXCEPT !.live = b]
      BY <1>1, <1>2
    <3> HIDE DEF b
    <3> QED
      BY <3>1, <3>2
  <2> HIDE DEF kept
  <2>3. /\ session'[s] \in Session /\ session'[s].wallet = session[s].wallet /\ session'[s].org = session[s].org
        /\ session'[s].out = session[s].out /\ (session'[s].live => session[s].live /\ kept)
    BY <2>1, <2>2 DEF Session
  <2> QED
    BY <2>3 DEF kept
<1>5. session' \in Seq(Session) /\ Len(session') = Len(session)
  <2>1. DOMAIN session' = 1 .. Len(session) /\ session' = [s \in 1 .. Len(session) |-> session'[s]]
    BY <1>1, <1>2
  <2>2. session' \in [1 .. Len(session) -> Session]
    BY <1>4, <2>1
  <2> QED
    BY <1>2, <2>2
<1>6. /\ \A f \in flows' : f \in flows \/ FlowFits(f, member, session)
      /\ \A f \in flows : f.at = "load" => f \in flows'
  BY <1>1
<1>7. ASSUME NEW w, NEW org, Browser!Belongs(w, org), active \/ org # member[n].org \/ w # member[n].wallet
      PROVE  Browser!Belongs(w, org)'
  <2>1. DOMAIN member = 1 .. Len(member) /\ DOMAIN member' = 1 .. Len(member)
    BY <1>2, <1>3
  <2>2. PICK k \in 1 .. Len(member) : member[k] = [org |-> org, wallet |-> w, active |-> TRUE]
    BY <1>7, <2>1 DEF Browser!Belongs
  <2>3. member[k].org = org /\ member[k].wallet = w /\ member[k].active
    BY <2>2
  <2>4. member'[k].org = org /\ member'[k].wallet = w /\ member'[k].active /\ member'[k] \in Membership
    BY <1>3, <1>7, <2>3
  <2>5. member'[k] = [org |-> org, wallet |-> w, active |-> TRUE]
    BY <2>4 DEF Membership
  <2> QED
    BY <2>1, <2>5 DEF Browser!Belongs
<1>8. HeldByMembers'
  BY <1>4, <1>5, <1>7 DEF BrowserInv, HeldByMembers
<1> QED
  BY <1>1, <1>3, <1>4, <1>5, <1>6, <1>8, BrowserEnds

\* The answer changes the cookie for every tab; its own is about to load.
LEMMA BrowserAnswers == ASSUME BrowserInv, NEW f \in flows, Browser!Answer(f) PROVE BrowserInv'
<1> PICK g : g = Browser!Flow(f.tab, "load", f.session)
  OBVIOUS
<1>1. /\ cookie' = f.session /\ flows' = (flows \ {f}) \cup {g} /\ behind' = behind \cup (Tab \ {f.tab})
      /\ UNCHANGED <<member, session, window>>
  BY DEF Browser!Answer, Browser!Becomes, Browser!Others, Browser!Tables
<1>2. f.tab \in Tab /\ f.session \in (1 .. Len(session)) \cup {None}
  BY DEF BrowserInv, BrowserTypes, FlowFits, Pending
<1>3. FlowFits(g, member, session) /\ g.at = "load" /\ g.tab = f.tab
  <2>1. "load" \in FlowAt \ {"verify", "bootstrap", "enter", "revoke"}
    BY DEF FlowAt
  <2>2. g = [tab |-> f.tab, at |-> "load", session |-> f.session, wallet |-> None, org |-> None]
    BY DEF Browser!Flow
  <2>3. f.session \in Nat \cup {None}
    BY <1>2 DEF BrowserInv, BrowserTypes
  <2> QED
    BY <1>2, <2>1, <2>2, <2>3 DEF FlowFits, Pending
<1>4. BrowserTypes'
  BY <1>1, <1>2, <1>3 DEF BrowserInv, BrowserTypes, Browser!Orgs
<1>5. AllCurrent' /\ HeldByMembers'
  <2>1. \A t \in Tab \ behind' : g \in flows' /\ g.tab = t /\ g.at = "load"
    BY <1>1, <1>3
  <2>2. HeldByMembers'
    BY <1>1 DEF BrowserInv, HeldByMembers, Browser!Belongs
  <2> QED
    BY <2>1, <2>2 DEF AllCurrent, Current
<1> QED
  BY <1>4, <1>5 DEF BrowserInv

LEMMA BrowserNext == BrowserInv /\ Browser!Next => BrowserInv'
BY BrowserBegins, BrowserReads, BrowserShows, BrowserAdds, BrowserIssues, BrowserRevokes, BrowserStatus,
   BrowserAnswers DEF Browser!Next

LEMMA BrowserStep == BrowserInv /\ [Next]_<<part, entry, rules, screens>> => BrowserInv'
<1> SUFFICES ASSUME BrowserInv, [Next]_<<part, entry, rules, screens>> PROVE BrowserInv'
  OBVIOUS
<1>1. CASE Browser!Next
  BY <1>1, BrowserNext
<1>2. CASE UNCHANGED browser
  <2>1. UNCHANGED <<member, session, cookie, window, flows, behind>>
    BY <1>2 DEF browser
  <2> QED
    BY <2>1, BrowserAsks DEF BrowserInv, BrowserTypes
<1> QED
  BY <1>1, <1>2 DEF Next, entry

\* SignIn (session.tsx and the routes of app.ts): a tab that has heard the last of what
\* it asked for acts in the organisation that it shows, through sign-ins that overlap,
\* changes of organisation, lost answers and members that are put out and taken back; one
\* that is signed out acts in none, unless its session was issued to a member put out.
THEOREM TabsActAsShown == Spec => []ActsAsShown
<1>1. Init => BrowserInv
  BY BrowserInit DEF Init
<1>2. BrowserInv => ActsAsShown
  BY DEF BrowserInv, AllCurrent, Current, ActsAsShown, Browser!ActsAsShown, Browser!Accepted
<1> QED
  BY <1>1, <1>2, BrowserStep, PTL DEF Spec

(***************************************************************************)
(* PolicyBinding                                                           *)
(***************************************************************************)
PolicyTypes ==
  /\ latest \in [Policy -> Nat] /\ unlocked \in BOOLEAN
  /\ binding \in [Target -> [policy : Policy, version : Nat] \cup {None}]
  /\ bind \in [Target -> [policy : Policy, version : Nat] \cup {None}]
  /\ adding \in [Policy -> [moved : SUBSET Target] \cup {None}]

\* What a binding has read is still the active version, and the bindings that a new
\* version has moved are all that there are of its policy.
Unhurried ==
  /\ \A t \in Target : binding[t] # None => binding[t].version = latest[binding[t].policy]
  /\ \A t \in Target : bind[t] # None =>
       bind[t].version = latest[bind[t].policy] /\ adding[bind[t].policy] = None
  /\ \A p \in Policy : adding[p] # None =>
       \A t \in Target : t \in adding[p].moved <=> binding[t] # None /\ binding[t].policy = p

PolicyInv == PolicyTypes /\ (unlocked \/ Unhurried)

LEMMA PolicyInit == Policies!Init => PolicyInv
<1> SUFFICES ASSUME Policies!Init PROVE PolicyInv
  OBVIOUS
<1>1. PolicyTypes
  BY DEF Policies!Init, PolicyTypes
<1>2. Unhurried
  BY DEF Policies!Init, Unhurried
<1> QED
  BY <1>1, <1>2 DEF PolicyInv

LEMMA PolicyNext == PolicyInv /\ Policies!Next => PolicyInv'
<1> SUFFICES ASSUME PolicyInv, Policies!Next PROVE PolicyInv'
  OBVIOUS
<1>0. PolicyTypes /\ (~unlocked => Unhurried)
  BY DEF PolicyInv
<1>1. ASSUME NEW p \in Policy, Policies!BeginVersion(p) PROVE PolicyInv'
  <2> PICK m : m = Policies!Moves(p)
    OBVIOUS
  <2>1. m \subseteq Target /\ \A t \in Target : t \in m <=> binding[t] # None /\ binding[t].policy = p
    BY DEF Policies!Moves
  <2>2. adding' = [adding EXCEPT ![p] = [moved |-> m]] /\ UNCHANGED <<latest, binding, bind>>
        /\ unlocked' = (unlocked \/ Policies!Binding(p))
    BY <1>1 DEF Policies!BeginVersion
  <2>3. PolicyTypes'
    BY <1>0, <2>1, <2>2 DEF PolicyTypes
  <2>4. ASSUME ~unlocked' PROVE Unhurried'
    <3>1. ~unlocked /\ \A t \in Target : bind[t] # None => bind[t].policy # p
      BY <2>2, <2>4 DEF Policies!Binding
    <3>2. \A q \in Policy : adding'[q] = IF q = p THEN [moved |-> m] ELSE adding[q]
      BY <1>0, <2>2 DEF PolicyTypes
    <3>3. \A t \in Target : bind[t] # None => bind[t].policy \in Policy
      BY <1>0 DEF PolicyTypes
    <3> QED
      BY <1>0, <2>1, <2>2, <3>1, <3>2, <3>3 DEF Unhurried
  <2> QED
    BY <2>3, <2>4 DEF PolicyInv, PolicyTypes
<1>2. ASSUME NEW p \in Policy, Policies!CommitVersion(p) PROVE PolicyInv'
  <2> PICK v : v = [policy |-> p, version |-> latest[p] + 1]
    OBVIOUS
  <2>1. /\ adding[p] # None /\ UNCHANGED <<bind, unlocked>>
        /\ latest' = [latest EXCEPT ![p] = @ + 1] /\ adding' = [adding EXCEPT ![p] = None]
        /\ binding' = [t \in Target |-> IF t \in adding[p].moved THEN v ELSE binding[t]]
    BY <1>2 DEF Policies!CommitVersion
  <2>2. latest[p] + 1 \in Nat /\ v \in [policy : Policy, version : Nat] /\ v.policy = p /\ v.version = latest[p] + 1
    BY <1>0 DEF PolicyTypes
  <2>3. PolicyTypes'
    BY <1>0, <2>1, <2>2 DEF PolicyTypes
  <2>4. ASSUME ~unlocked PROVE Unhurried'
    <3>1. \A t \in Target : t \in adding[p].moved <=> binding[t] # None /\ binding[t].policy = p
      BY <1>0, <2>1, <2>4 DEF Unhurried
    <3>2. \A t \in Target : /\ binding[t] # None => binding[t].policy \in Policy
                            /\ bind[t] # None => bind[t].policy \in Policy /\ bind[t].policy # p
      BY <1>0, <2>1, <2>4 DEF PolicyTypes, Unhurried
    <3>3. \A q \in Policy : /\ latest'[q] = IF q = p THEN latest[p] + 1 ELSE latest[q]
                            /\ adding'[q] = IF q = p THEN None ELSE adding[q]
      BY <1>0, <2>1 DEF PolicyTypes
    <3>4. \A t \in Target : binding'[t] = IF t \in adding[p].moved THEN v ELSE binding[t]
      BY <2>1
    <3>5. \A t \in Target : binding'[t] # None => binding'[t].version = latest'[binding'[t].policy]
      BY <1>0, <2>2, <2>4, <3>1, <3>2, <3>3, <3>4 DEF Unhurried
    <3>6. \A t \in Target : bind'[t] # None => bind'[t].version = latest'[bind'[t].policy] /\ adding'[bind'[t].policy] = None
      BY <1>0, <2>1, <2>4, <3>2, <3>3 DEF Unhurried
    <3>7. ASSUME NEW q \in Policy, adding'[q] # None, NEW t \in Target
          PROVE  t \in adding'[q].moved <=> binding'[t] # None /\ binding'[t].policy = q
      <4>1. q # p /\ adding'[q] = adding[q]
        BY <3>3, <3>7
      <4>2. t \in adding[q].moved <=> binding[t] # None /\ binding[t].policy = q
        BY <1>0, <2>4, <3>7, <4>1 DEF Unhurried
      <4> QED
        BY <2>2, <3>1, <3>4, <4>1, <4>2
    <3> QED
      BY <3>5, <3>6, <3>7 DEF Unhurried
  <2> QED
    BY <2>1, <2>3, <2>4 DEF PolicyInv, PolicyTypes
<1>3. ASSUME NEW p \in Policy, NEW t \in Target, Policies!BeginBind(t, p) PROVE PolicyInv'
  <2> PICK v : v = [policy |-> p, version |-> latest[p]]
    OBVIOUS
  <2>1. bind' = [bind EXCEPT ![t] = v] /\ unlocked' = (unlocked \/ adding[p] # None)
        /\ UNCHANGED <<latest, binding, adding>>
    BY <1>3 DEF Policies!BeginBind, Policies!Version
  <2>2. v \in [policy : Policy, version : Nat] /\ v.policy = p /\ v.version = latest[p]
    BY <1>0 DEF PolicyTypes
  <2>3. PolicyTypes'
    BY <1>0, <2>1, <2>2 DEF PolicyTypes
  <2>4. ~unlocked' => Unhurried'
    BY <1>0, <2>1, <2>2 DEF PolicyTypes, Unhurried
  <2> QED
    BY <2>3, <2>4 DEF PolicyInv, PolicyTypes
<1>4. ASSUME NEW t \in Target, Policies!CommitBind(t) PROVE PolicyInv'
  <2>1. /\ bind[t] # None /\ \A p \in Policy : adding[p] # None => t \notin adding[p].moved
        /\ binding' = [binding EXCEPT ![t] = bind[t]] /\ bind' = [bind EXCEPT ![t] = None]
        /\ UNCHANGED <<latest, adding, unlocked>>
    BY <1>4 DEF Policies!CommitBind
  <2>2. PolicyTypes'
    BY <1>0, <2>1 DEF PolicyTypes
  <2>3. \A u \in Target : /\ binding'[u] = IF u = t THEN bind[t] ELSE binding[u]
                          /\ bind'[u] = IF u = t THEN None ELSE bind[u]
    BY <1>0, <2>1 DEF PolicyTypes
  <2>4. ASSUME ~unlocked PROVE Unhurried'
    <3>1. ASSUME NEW p \in Policy, adding[p] # None, NEW u \in Target
          PROVE  u \in adding[p].moved <=> binding'[u] # None /\ binding'[u].policy = p
      <4>1. u \in adding[p].moved <=> binding[u] # None /\ binding[u].policy = p
        BY <1>0, <2>4, <3>1 DEF Unhurried
      <4>2. t \notin adding[p].moved /\ bind[t].policy # p
        BY <1>0, <2>1, <2>4, <3>1 DEF Unhurried
      <4> QED
        BY <2>3, <4>1, <4>2
    <3> QED
      BY <1>0, <2>1, <2>3, <2>4, <3>1 DEF Unhurried
  <2> QED
    BY <2>1, <2>2, <2>4 DEF PolicyInv, PolicyTypes
<1> QED
  BY <1>1, <1>2, <1>3, <1>4 DEF Policies!Next

LEMMA PolicyStep == PolicyInv /\ [Next]_<<part, entry, rules, screens>> => PolicyInv'
<1> SUFFICES ASSUME PolicyInv, [Next]_<<part, entry, rules, screens>> PROVE PolicyInv'
  OBVIOUS
<1>1. CASE Policies!Next
  BY <1>1, PolicyNext
<1>2. CASE UNCHANGED policies
  BY <1>2 DEF policies, PolicyInv, PolicyTypes, Unhurried
<1> QED
  BY <1>1, <1>2 DEF Next, rules

\* PolicyBinding (addPolicyVersion, bindPolicy, loadPolicy): what is bound has a policy,
\* however versions and bindings interleave, unless a binding was made while a version
\* of its policy was being added.
THEOREM BoundHasPolicy == Spec => []Policies!BindingsFollowPolicy
<1>1. Init => PolicyInv
  BY PolicyInit DEF Init
<1>2. PolicyInv => Policies!BindingsFollowPolicy
  <2> SUFFICES ASSUME PolicyInv, ~unlocked, NEW t \in Target, binding[t] # None PROVE Policies!Loaded(t) # None
    BY DEF PolicyInv, PolicyTypes, Policies!BindingsFollowPolicy
  <2>1. binding[t] = [policy |-> binding[t].policy, version |-> latest[binding[t].policy]]
    BY DEF PolicyInv, PolicyTypes, Unhurried
  <2> QED
    BY <2>1 DEF Policies!Loaded, Policies!Version
<1> QED
  BY <1>1, <1>2, PolicyStep, PTL DEF Spec

(***************************************************************************)
(* PolicyEditor                                                            *)
(***************************************************************************)

\* Amounts in the smallest unit of all, and back.
LEMMA FormattedAmount ==
  ASSUME NEW x \in Nat, NEW u \in Nat \ {0}
  PROVE  x * u \in Nat /\ (x * u) % u = 0 /\ (x * u) \div u = x
<1>0. x * u \in Nat /\ u > 0
  OBVIOUS
<1> PICK m \in Nat : m = x * u
  BY <1>0
<1>1. m \div u \in Int /\ u * (m \div u) <= m /\ m < u * (m \div u + 1)
  BY <1>0
<1> PICK q \in Int : q = m \div u
  BY <1>1
<1>2. u * q <= x * u /\ x * u < u * (q + 1)
  BY <1>1
<1>3. q <= x
  <2> SUFFICES ASSUME q >= x + 1 PROVE FALSE
    OBVIOUS
  <2>1. u * q >= u * (x + 1)
    BY <1>0
  <2>2. u * (x + 1) = x * u + u
    OBVIOUS
  <2> QED
    BY <1>0, <1>2, <2>1, <2>2
<1>4. q >= x
  <2> SUFFICES ASSUME q + 1 <= x PROVE FALSE
    OBVIOUS
  <2>1. u * (q + 1) <= u * x
    BY <1>0
  <2> QED
    BY <1>2, <2>1
<1>5. q = x
  BY <1>3, <1>4
<1>6. m % u = m - u * q
  BY <1>0
<1>7. m % u = 0
  BY <1>5, <1>6
<1> QED
  BY <1>0, <1>5, <1>7

LEMMA ParsedAmount ==
  ASSUME NEW e \in Nat, NEW u \in Nat \ {0}, e % u = 0
  PROVE  e \div u \in Nat /\ e = (e \div u) * u
<1>1. e \div u \in Int /\ u * (e \div u) <= e /\ e < u * (e \div u + 1)
  OBVIOUS
<1> PICK q \in Int : q = e \div u
  BY <1>1
<1>2. e = u * q
  BY <1>1
<1>3. q >= 0
  <2> SUFFICES ASSUME q + 1 <= 0 PROVE FALSE
    OBVIOUS
  <2>1. u * (q + 1) <= u * 0
    OBVIOUS
  <2> QED
    BY <1>1, <2>1
<1> QED
  BY <1>2, <1>3

\* More of the smallest unit of all is more of any.
LEMMA MoreIsMore ==
  ASSUME NEW a \in Nat, NEW q \in Nat, NEW u \in Nat \ {0}, a * u > q * u
  PROVE  a > q
<1> SUFFICES ASSUME a <= q PROVE FALSE
  OBVIOUS
<1>1. a * u <= q * u
  OBVIOUS
<1>2. a * u \in Nat /\ q * u \in Nat
  OBVIOUS
<1> QED
  BY <1>1, <1>2

\* Terms as the schema stores them, and a form of the editor.
TermsFit(t) ==
  /\ {t.frozen, t.always, t.beneficiary} \subseteq BOOLEAN
  /\ {t.perPayment, t.perDay, t.autoUpTo, t.approvals} \subseteq Nat
  /\ t.assets # {} /\ t.assets \subseteq Asset /\ t.kinds \subseteq {"transfer", "x402"}
FormFits(g) ==
  /\ {g.frozen, g.always, g.beneficiary, g.x402} \subseteq BOOLEAN
  /\ {g.perPayment, g.perDay, g.autoUpTo} \subseteq Nat \cup {None} /\ g.approvals \in Nat
  /\ g.assets \subseteq Asset

\* What is sent are the terms of the form, in the units of all its assets.
SentAs(t, g) ==
  /\ FormFits(g) /\ g.assets # {}
  /\ \E places \in DOMAIN Unit : /\ \A a \in g.assets : Places[a] = places
                               /\ t = Editing!TermsAt(g, places)
                               /\ None \notin {t.perPayment, t.perDay, t.autoUpTo}

EditionFits ==
  /\ edition \in Seq({edition[n] : n \in DOMAIN edition})
  /\ \A n \in DOMAIN edition :
       /\ TermsFit(edition[n].terms)
       /\ edition[n].form # None => SentAs(edition[n].terms, edition[n].form)

\* A save under way sends what the form says.
EditorFits ==
  editor # None =>
    /\ editor.opened \in {0} \cup DOMAIN edition /\ editor.loaded \in BOOLEAN
    /\ \A f \in DOMAIN editor.typed : f \in DOMAIN Editing!Fields /\ editor.typed[f] \in Editing!Fields[f]
    /\ \/ editor = [at |-> "form", opened |-> editor.opened, loaded |-> editor.loaded, typed |-> editor.typed]
       \/ /\ editor.at \in {"saving", "saved"} /\ editor.loaded
          /\ editor = [at |-> editor.at, opened |-> editor.opened, loaded |-> editor.loaded,
                       typed |-> editor.typed, terms |-> editor.terms]
          /\ editor.at = "saving" => SentAs(editor.terms, Editing!Form)

EditingInv == EditionFits /\ EditorFits

\* What was sent are terms as the schema stores them.
LEMMA ParseReads ==
  ASSUME NEW e \in Nat \cup {None}, NEW places \in DOMAIN Unit, Editing!Parse(e, places) # None
  PROVE  /\ e \in Nat /\ Editing!Parse(e, places) \in Nat
         /\ e = Editing!Parse(e, places) * Unit[places]
<1>1. Unit[places] \in Nat \ {0}
  BY TermsAssumption
<1>2. e # None /\ e % Unit[places] = 0 /\ Editing!Parse(e, places) = e \div Unit[places]
  BY DEF Editing!Parse
<1> QED
  BY <1>1, <1>2, ParsedAmount

LEMMA FormatReads ==
  ASSUME NEW x \in Nat, NEW places \in DOMAIN Unit
  PROVE  /\ Editing!Format(x, places) \in Nat
         /\ Editing!Parse(Editing!Format(x, places), places) = x
<1> PICK u \in Nat \ {0} : u = Unit[places]
  BY TermsAssumption
<1> PICK e : e = x * u
  OBVIOUS
<1>1. e \in Nat /\ e % u = 0 /\ e \div u = x
  BY FormattedAmount
<1>2. e # None
  BY <1>1, NullAssumption
<1> QED
  BY <1>1, <1>2 DEF Editing!Format, Editing!Parse

LEMMA SentFits ==
  ASSUME NEW t, NEW g, SentAs(t, g)
  PROVE  TermsFit(t)
<1>0. FormFits(g) /\ g.assets # {}
  BY DEF SentAs
<1> PICK places \in DOMAIN Unit : t = Editing!TermsAt(g, places) /\ None \notin {t.perPayment, t.perDay, t.autoUpTo}
  BY DEF SentAs
<1>1. /\ t.perPayment = Editing!Parse(g.perPayment, places) /\ t.perDay = Editing!Parse(g.perDay, places)
      /\ t.autoUpTo = IF g.always THEN 0 ELSE Editing!Parse(g.autoUpTo, places)
  BY DEF Editing!TermsAt
<1>2. {t.perPayment, t.perDay, t.autoUpTo} \subseteq Nat
  <2>1. t.perPayment \in Nat
    BY <1>0, <1>1, ParseReads DEF FormFits
  <2>2. t.perDay \in Nat
    BY <1>0, <1>1, ParseReads DEF FormFits
  <2>3. CASE g.always
    BY <1>1, <2>1, <2>2, <2>3
  <2>4. CASE ~g.always
    <3>1. t.autoUpTo = Editing!Parse(g.autoUpTo, places) /\ t.autoUpTo # None
      BY <1>1, <2>4
    <3>2. t.autoUpTo \in Nat
      BY <1>0, <3>1, ParseReads DEF FormFits
    <3> QED
      BY <2>1, <2>2, <3>2
  <2> QED
    BY <2>3, <2>4
<1>3. /\ t.frozen = g.frozen /\ t.always = g.always /\ t.beneficiary = g.beneficiary /\ t.approvals = g.approvals
      /\ t.assets = g.assets /\ t.kinds = IF g.x402 THEN {"transfer", "x402"} ELSE {"transfer"}
  BY DEF Editing!TermsAt
<1> QED
  BY <1>0, <1>2, <1>3 DEF TermsFit, FormFits

LEMMA BlankFits == FormFits(Editing!Blank)
BY DEF FormFits, Editing!Blank

LEMMA ShownFits ==
  ASSUME NEW t, TermsFit(t), NEW loaded
  PROVE  FormFits(Editing!Shown(t, loaded))
<1> PICK places : places = Places[CHOOSE a \in t.assets : TRUE]
  OBVIOUS
<1>1. places \in DOMAIN Unit
  BY TermsAssumption DEF TermsFit
<1> PICK g : g = Editing!Shown(t, loaded)
  OBVIOUS
<1>2. /\ g.assets = t.assets /\ g.always = t.always /\ g.approvals = t.approvals /\ g.beneficiary = t.beneficiary
      /\ g.x402 = ("x402" \in t.kinds) /\ g.frozen = t.frozen
      /\ g.perPayment = IF loaded THEN Editing!Format(t.perPayment, places) ELSE None
      /\ g.perDay = IF loaded THEN Editing!Format(t.perDay, places) ELSE None
      /\ g.autoUpTo = IF t.always THEN 0 ELSE IF loaded THEN Editing!Format(t.autoUpTo, places) ELSE None
  BY DEF Editing!Shown
<1>3. {g.perPayment, g.perDay, g.autoUpTo} \subseteq Nat \cup {None}
  BY <1>1, <1>2, FormatReads DEF TermsFit
<1> QED
  BY <1>2, <1>3 DEF TermsFit, FormFits

LEMMA FormTyped == ASSUME EditingInv, editor # None PROVE FormFits(Editing!Form)
<1>1. FormFits(Editing!Opened)
  BY BlankFits, ShownFits DEF Editing!Opened, EditingInv, EditionFits, EditorFits
<1> PICK g : g = Editing!Form
  OBVIOUS
<1>2. DOMAIN Editing!Fields = {"assets", "perPayment", "perDay", "autoUpTo", "always", "approvals",
                               "beneficiary", "x402", "addresses", "frozen"}
  BY DEF Editing!Fields
<1>3. \A f \in DOMAIN Editing!Fields : g[f] = Editing!Opened[f] \/ g[f] \in Editing!Fields[f]
  BY DEF Editing!Form, EditingInv, EditorFits
<1>4. /\ g.assets = Editing!Opened.assets \/ g.assets \in SUBSET Asset
      /\ \A f \in {"perPayment", "perDay", "autoUpTo"} : g[f] = Editing!Opened[f] \/ g[f] \in Entered
      /\ \A f \in {"always", "beneficiary", "x402", "frozen"} : g[f] = Editing!Opened[f] \/ g[f] \in BOOLEAN
      /\ g.approvals = Editing!Opened.approvals \/ g.approvals \in 1 .. 2
  BY <1>2, <1>3 DEF Editing!Fields
<1> QED
  BY <1>1, <1>4, TermsAssumption DEF FormFits

LEMMA EditingInit == Editing!Init => EditingInv
<1> SUFFICES ASSUME Editing!Init PROVE EditingInv
  OBVIOUS
<1>1. EditorFits
  BY DEF Editing!Init, EditorFits
<1>2. EditionFits
  <2>1. CASE edition = <<>>
    BY <2>1 DEF EditionFits
  <2>2. CASE edition # <<>>
    <3> PICK t \in Imported : edition = <<Editing!Written(t)>>
      BY <2>2 DEF Editing!Init
    <3>1. edition[1].terms = t /\ edition[1].form = None
      BY DEF Editing!Written
    <3>2. TermsFit(t)
      BY TermsAssumption DEF TermsFit
    <3>3. edition \in Seq({edition[n] : n \in DOMAIN edition}) /\ DOMAIN edition = {1}
      OBVIOUS
    <3> QED
      BY <3>1, <3>2, <3>3 DEF EditionFits
  <2> QED
    BY <2>1, <2>2
<1> QED
  BY <1>1, <1>2 DEF EditingInv

\* An editor that changes beside versions that stay.
LEMMA EditorMoves ==
  ASSUME EditingInv, UNCHANGED edition, EditorFits'
  PROVE  EditingInv'
BY DEF EditingInv, EditionFits

\* Only what is typed, the version it was opened with and the decimals make the form.
LEMMA SameForm ==
  ASSUME editor'.typed = editor.typed, editor'.opened = editor.opened, editor'.loaded = editor.loaded,
         editor.opened # 0 => edition'[editor.opened] = edition[editor.opened]
  PROVE  Editing!Form' = Editing!Form
<1>1. Editing!Opened' = Editing!Opened
  BY DEF Editing!Opened
<1> QED
  BY <1>1 DEF Editing!Form

LEMMA EditorOpens == ASSUME EditingInv, Editing!Open PROVE EditingInv'
<1>1. UNCHANGED edition
  BY DEF Editing!Open
<1> PICK n \in {0} \cup DOMAIN edition, loaded \in BOOLEAN :
      editor' = [at |-> "form", opened |-> n, loaded |-> loaded, typed |-> [f \in {} |-> None]]
  BY DEF Editing!Open
<1>2. EditorFits'
  BY <1>1 DEF EditorFits
<1> QED
  BY <1>1, <1>2, EditorMoves

LEMMA EditorLoads == ASSUME EditingInv, Editing!Load PROVE EditingInv'
<1>1. editor # None /\ editor' = [editor EXCEPT !.loaded = TRUE] /\ UNCHANGED edition
  BY DEF Editing!Load
<1>2. editor = [at |-> "form", opened |-> editor.opened, loaded |-> editor.loaded, typed |-> editor.typed]
  BY <1>1 DEF EditingInv, EditorFits, Editing!Load
<1> PICK o, l, y : editor = [at |-> "form", opened |-> o, loaded |-> l, typed |-> y]
  BY <1>2
<1>3. editor' = [at |-> "form", opened |-> editor.opened, loaded |-> TRUE, typed |-> editor.typed]
  <2>1. editor' = [[at |-> "form", opened |-> o, loaded |-> l, typed |-> y] EXCEPT !.loaded = TRUE]
    BY <1>1
  <2>2. editor' = [at |-> "form", opened |-> o, loaded |-> TRUE, typed |-> y]
    BY <2>1
  <2> QED
    BY <2>2
<1>4. EditorFits'
  BY <1>1, <1>3 DEF EditingInv, EditorFits
<1> QED
  BY <1>1, <1>4, EditorMoves

LEMMA EditorTypes ==
  ASSUME EditingInv, NEW f \in DOMAIN Editing!Fields, NEW v \in Editing!Fields[f], Editing!Type(f, v)
  PROVE  EditingInv'
<1> PICK d : d = [g \in DOMAIN editor.typed \cup {f} |-> IF g = f THEN v ELSE editor.typed[g]]
  OBVIOUS
<1>1. editor # None /\ editor.at = "form" /\ editor' = [editor EXCEPT !.typed = d] /\ UNCHANGED edition
  BY DEF Editing!Type
<1>2. editor = [at |-> "form", opened |-> editor.opened, loaded |-> editor.loaded, typed |-> editor.typed]
  BY <1>1 DEF EditingInv, EditorFits
<1>3. editor' = [at |-> "form", opened |-> editor.opened, loaded |-> editor.loaded, typed |-> d]
  BY <1>1, <1>2
<1>4. \A g \in DOMAIN d : g \in DOMAIN Editing!Fields /\ d[g] \in Editing!Fields[g]
  BY <1>1 DEF EditingInv, EditorFits
<1>5. EditorFits'
  BY <1>1, <1>3, <1>4 DEF EditingInv, EditorFits, Editing!Fields
<1> QED
  BY <1>1, <1>5, EditorMoves

LEMMA EditorSubmits == ASSUME EditingInv, Editing!Submit PROVE EditingInv'
<1> PICK places \in DOMAIN Unit :
      /\ \A a \in Editing!Form.assets : Places[a] = places
      /\ LET t == Editing!Terms(Editing!Form, places)
         IN /\ None \notin {t.perPayment, t.perDay, t.autoUpTo}
            /\ editor' = [at |-> "saving", opened |-> editor.opened, loaded |-> TRUE,
                          typed |-> editor.typed, terms |-> t]
  BY DEF Editing!Submit
<1> PICK t : t = Editing!TermsAt(Editing!Form, places)
  OBVIOUS
<1>1. /\ editor # None /\ editor.loaded /\ Editing!Form.assets # {} /\ UNCHANGED edition
      /\ None \notin {t.perPayment, t.perDay, t.autoUpTo}
      /\ editor' = [at |-> "saving", opened |-> editor.opened, loaded |-> TRUE, typed |-> editor.typed, terms |-> t]
  BY DEF Editing!Submit, Editing!Terms
<1>2. SentAs(t, Editing!Form)
  BY <1>1, FormTyped DEF SentAs
<1>3. editor.loaded = TRUE
  BY <1>1 DEF EditingInv, EditorFits
<1>4. Editing!Form' = Editing!Form
  BY <1>1, <1>3, SameForm
<1>5. SentAs(t, Editing!Form')
  BY <1>2, <1>4
<1>6. editor'.terms = t
  BY <1>1
<1>7. EditorFits'
  BY <1>1, <1>5, <1>6 DEF EditingInv, EditorFits, Editing!Fields
<1> QED
  BY <1>1, <1>7, EditorMoves

LEMMA EditorSaves == ASSUME EditingInv, Editing!Save PROVE EditingInv'
<1> PICK e : e = [terms |-> editor.terms, form |-> Editing!Form, opened |-> editor.opened]
  OBVIOUS
<1>1. /\ editor # None /\ editor.at = "saving" /\ editor' = [editor EXCEPT !.at = "saved"]
      /\ edition' = IF editor.opened = 0 /\ edition # <<>> THEN edition ELSE Append(edition, e)
  BY DEF Editing!Save
<1>2. /\ editor = [at |-> "saving", opened |-> editor.opened, loaded |-> editor.loaded,
                   typed |-> editor.typed, terms |-> editor.terms]
      /\ editor.loaded /\ SentAs(editor.terms, Editing!Form)
  BY <1>1 DEF EditingInv, EditorFits
<1>3. editor' = [at |-> "saved", opened |-> editor.opened, loaded |-> editor.loaded,
                 typed |-> editor.typed, terms |-> editor.terms]
  BY <1>1, <1>2
<1>4. SentAs(e.terms, e.form) /\ TermsFit(e.terms)
  BY <1>2, SentFits
<1>5. EditionFits' /\ DOMAIN edition \subseteq DOMAIN edition'
  <2>1. CASE edition' = edition
    BY <2>1 DEF EditingInv, EditionFits
  <2>2. CASE edition' = Append(edition, e)
    <3> PICK S : S = {edition[n] : n \in DOMAIN edition}
      OBVIOUS
    <3>1. edition \in Seq(S)
      BY DEF EditingInv, EditionFits
    <3>2. /\ Len(edition) \in Nat /\ DOMAIN edition = 1 .. Len(edition)
          /\ edition' \in Seq(S \cup {e}) /\ Len(edition') = Len(edition) + 1
          /\ DOMAIN edition' = 1 .. (Len(edition) + 1)
          /\ edition'[Len(edition) + 1] = e /\ \A n \in 1 .. Len(edition) : edition'[n] = edition[n]
      BY <2>2, <3>1
    <3>3. \A n \in DOMAIN edition' : edition'[n] = e \/ (n \in DOMAIN edition /\ edition'[n] = edition[n])
      BY <3>2
    <3>4. edition' \in Seq({edition'[n] : n \in DOMAIN edition'})
      BY <3>2
    <3> QED
      BY <1>4, <3>2, <3>3, <3>4 DEF EditingInv, EditionFits
  <2> QED
    BY <1>1, <2>1, <2>2
<1>6. EditorFits'
  BY <1>1, <1>2, <1>3, <1>5 DEF EditingInv, EditorFits
<1> QED
  BY <1>5, <1>6 DEF EditingInv

LEMMA EditingNext == EditingInv /\ Editing!Next => EditingInv'
<1> SUFFICES ASSUME EditingInv, Editing!Next PROVE EditingInv'
  OBVIOUS
<1>1. CASE Editing!Open
  BY <1>1, EditorOpens
<1>2. CASE Editing!Load
  BY <1>2, EditorLoads
<1>3. CASE Editing!Submit
  BY <1>3, EditorSubmits
<1>4. CASE Editing!Save
  BY <1>4, EditorSaves
<1>5. CASE Editing!Close
  BY <1>5, EditorMoves DEF Editing!Close, EditorFits
<1>6. CASE Editing!Fail
  <2>1. /\ editor # None /\ UNCHANGED edition /\ editor.at # "form"
        /\ editor' = [at |-> "form", opened |-> editor.opened, loaded |-> TRUE, typed |-> editor.typed]
    BY <1>6 DEF Editing!Fail
  <2>2. EditorFits'
    BY <2>1 DEF EditingInv, EditorFits
  <2> QED
    BY <2>1, <2>2, EditorMoves
<1>7. CASE \E f \in DOMAIN Editing!Fields : \E v \in Editing!Fields[f] : Editing!Type(f, v)
  BY <1>7, EditorTypes
<1> QED
  BY <1>1, <1>2, <1>3, <1>4, <1>5, <1>6, <1>7 DEF Editing!Next

LEMMA EditingStep == EditingInv /\ [Next]_<<part, entry, rules, screens>> => EditingInv'
<1> SUFFICES ASSUME EditingInv, [Next]_<<part, entry, rules, screens>> PROVE EditingInv'
  OBVIOUS
<1>1. CASE Editing!Next
  BY <1>1, EditingNext
<1>2. CASE UNCHANGED <<edition, editor>>
  BY <1>2 DEF EditingInv, EditionFits, EditorFits, Editing!Form, Editing!Opened
<1> QED
  BY <1>1, <1>2 DEF Next, rules, terms

LEMMA PaymentTyped ==
  ASSUME NEW p \in Editing!Payment
  PROVE  p.amount \in Nat /\ p.spent \in {0, 1} /\ p.asset \in Asset /\ p.kind \in {"transfer", "x402"}
<1>1. Editing!Amounts \subseteq Nat
  <2> SUFFICES ASSUME NEW e \in Entered, NEW places \in DOMAIN Unit, Editing!Parse(e, places) # None
               PROVE  Editing!Parse(e, places) \in Nat
    BY DEF Editing!Amounts
  <2>1. e \in Nat
    BY TermsAssumption
  <2> QED
    BY <2>1, ParseReads
<1>2. p \in [kind : {"transfer", "x402"}, asset : Asset, amount : {n + k : n \in Editing!Amounts, k \in {0, 1}},
             spent : {0, 1}, to : Account, approved : BOOLEAN]
  BY DEF Editing!Payment
<1>3. p.amount \in {n + k : n \in Editing!Amounts, k \in {0, 1}}
  BY <1>2
<1>4. p.amount \in Nat
  BY <1>1, <1>3
<1> QED
  BY <1>2, <1>4

\* A policy that was sent as a form says refuses what the form excludes.
LEMMA SentHolds ==
  ASSUME NEW t, NEW g, SentAs(t, g), NEW p \in Editing!Payment,
         LET amount == Editing!Format(p.amount, Places[p.asset])
         IN p.asset \notin g.assets \/ amount > g.perPayment \/ amount > g.perDay \/ g.frozen
  PROVE  \E r \in Editing!Reason : Editing!Refuses(t, p, r)
<1> PICK places \in DOMAIN Unit : /\ \A a \in g.assets : Places[a] = places
                                 /\ t = Editing!TermsAt(g, places)
                                 /\ None \notin {t.perPayment, t.perDay, t.autoUpTo}
  BY DEF SentAs
<1>0. FormFits(g) /\ {"asset", "amount", "daily", "frozen"} \subseteq Editing!Reason
  BY DEF SentAs, Editing!Reason
<1>1. /\ t.perPayment = Editing!Parse(g.perPayment, places) /\ t.perDay = Editing!Parse(g.perDay, places)
      /\ t.assets = g.assets /\ t.frozen = g.frozen
  BY DEF Editing!TermsAt
<1>2. p.amount \in Nat /\ p.spent \in {0, 1}
  BY PaymentTyped
<1>3. CASE p.asset \notin g.assets
  BY <1>0, <1>1, <1>3 DEF Editing!Refuses
<1>4. CASE g.frozen
  BY <1>0, <1>1, <1>4 DEF Editing!Refuses
<1>5. CASE p.asset \in g.assets
  <2> PICK u \in Nat \ {0} : u = Unit[places]
    BY TermsAssumption
  <2>1. Editing!Format(p.amount, Places[p.asset]) = p.amount * u
    BY <1>5 DEF Editing!Format
  <2>2. t.perPayment \in Nat /\ g.perPayment = t.perPayment * u
    <3>1. g.perPayment \in Nat \cup {None} /\ Editing!Parse(g.perPayment, places) # None
      BY <1>0, <1>1 DEF FormFits
    <3>2. t.perPayment \in Nat /\ g.perPayment = t.perPayment * Unit[places]
      BY ONLY <1>1, <3>1, ParseReads
    <3> QED
      BY <3>2
  <2>3. t.perDay \in Nat /\ g.perDay = t.perDay * u
    <3>1. g.perDay \in Nat \cup {None} /\ Editing!Parse(g.perDay, places) # None
      BY <1>0, <1>1 DEF FormFits
    <3>2. t.perDay \in Nat /\ g.perDay = t.perDay * Unit[places]
      BY ONLY <1>1, <3>1, ParseReads
    <3> QED
      BY <3>2
  <2>4. CASE p.amount * u > g.perPayment
    <3>1. p.amount > t.perPayment
      BY <1>2, <2>2, <2>4, MoreIsMore
    <3> QED
      BY <1>0, <3>1 DEF Editing!Refuses
  <2>5. CASE p.amount * u > g.perDay
    <3>1. p.amount > t.perDay
      BY <1>2, <2>3, <2>5, MoreIsMore
    <3>2. p.amount + p.spent > t.perDay
      BY <1>2, <2>3, <3>1
    <3> QED
      BY <1>0, <3>2 DEF Editing!Refuses
  <2> QED
    BY <1>4, <1>5, <2>1, <2>4, <2>5
<1> QED
  BY <1>3, <1>5

LEMMA HoldsSaved == EditingInv => Editing!HoldsWhatWasShown
<1> SUFFICES ASSUME EditingInv, NEW n \in Editing!Saved PROVE SentAs(edition[n].terms, edition[n].form)
  BY SentHolds DEF Editing!HoldsWhatWasShown
<1> QED
  BY DEF Editing!Saved, EditingInv, EditionFits

\* A term that keeps what the editor showed of it is the term as it was.
KeepsTerms(before, t, g, sh) ==
  /\ g.perPayment = sh.perPayment => t.perPayment = before.perPayment
  /\ g.perDay = sh.perDay => t.perDay = before.perDay
  /\ g.always = sh.always => t.always = before.always
  /\ g.always = sh.always /\ ~t.always /\ g.autoUpTo = sh.autoUpTo => t.autoUpTo = before.autoUpTo
  /\ g.approvals = sh.approvals => t.approvals = before.approvals
  /\ g.frozen = sh.frozen => t.frozen = before.frozen
  /\ g.beneficiary = sh.beneficiary => t.beneficiary = before.beneficiary
  /\ g.addresses = sh.addresses => t.addresses = before.addresses
  /\ g.x402 = sh.x402 => before.kinds \subseteq t.kinds /\ t.kinds \subseteq before.kinds

LEMMA KeptTerms ==
  ASSUME NEW before, TermsFit(before), Editing!FromConsole(before), NEW t, NEW g, SentAs(t, g),
         NEW a \in before.assets, a \in t.assets, NEW sh, sh = Editing!Shown(before, TRUE)
  PROVE  KeepsTerms(before, t, g, sh)
<1> PICK places \in DOMAIN Unit : /\ \A b \in g.assets : Places[b] = places
                                 /\ t = Editing!TermsAt(g, places)
  BY DEF SentAs
<1>1. /\ t.perPayment = Editing!Parse(g.perPayment, places) /\ t.perDay = Editing!Parse(g.perDay, places)
      /\ t.autoUpTo = IF g.always THEN 0 ELSE Editing!Parse(g.autoUpTo, places)
      /\ t.assets = g.assets /\ t.frozen = g.frozen /\ t.always = g.always /\ t.approvals = g.approvals
      /\ t.beneficiary = g.beneficiary /\ t.addresses = g.addresses
      /\ t.kinds = IF g.x402 THEN {"transfer", "x402"} ELSE {"transfer"}
  BY DEF Editing!TermsAt
<1>2. Places[CHOOSE b \in before.assets : TRUE] = places
  <2>1. (CHOOSE b \in before.assets : TRUE) \in before.assets
    OBVIOUS
  <2>2. Places[a] = places /\ a \in before.assets
    BY <1>1
  <2> QED
    BY <2>1, <2>2 DEF Editing!FromConsole
<1>3. /\ sh.perPayment = Editing!Format(before.perPayment, places)
      /\ sh.perDay = Editing!Format(before.perDay, places)
      /\ sh.autoUpTo = IF before.always THEN 0 ELSE Editing!Format(before.autoUpTo, places)
      /\ sh.always = before.always /\ sh.approvals = before.approvals /\ sh.beneficiary = before.beneficiary
      /\ sh.x402 = ("x402" \in before.kinds) /\ sh.addresses = before.addresses /\ sh.frozen = before.frozen
  BY <1>2 DEF Editing!Shown
<1>4. {before.perPayment, before.perDay, before.autoUpTo} \subseteq Nat
      /\ before.kinds \subseteq {"transfer", "x402"} /\ "transfer" \in before.kinds
  BY DEF TermsFit, Editing!FromConsole
<1>5. \A x \in Nat : Editing!Parse(Editing!Format(x, places), places) = x
  BY FormatReads
<1>6. g.always = sh.always /\ ~t.always /\ g.autoUpTo = sh.autoUpTo => t.autoUpTo = before.autoUpTo
  BY <1>1, <1>3, <1>4, <1>5
<1>7. g.x402 = sh.x402 => before.kinds \subseteq t.kinds /\ t.kinds \subseteq before.kinds
  BY <1>1, <1>3, <1>4
<1>8. g.perPayment = sh.perPayment => t.perPayment = before.perPayment
  BY <1>1, <1>3, <1>4, <1>5
<1>9. g.perDay = sh.perDay => t.perDay = before.perDay
  BY <1>1, <1>3, <1>4, <1>5
<1> QED
  BY <1>1, <1>3, <1>6, <1>7, <1>8, <1>9 DEF KeepsTerms

LEMMA LoosensSaved == EditingInv => Editing!LoosensOnlyWhatChanged
<1> SUFFICES ASSUME EditingInv, NEW n \in Editing!Saved \ {1}, Editing!FromConsole(edition[n - 1].terms),
                    NEW p \in Editing!Payment, p.asset \in edition[n - 1].terms.assets \cap edition[n].terms.assets
             PROVE  LET before == edition[n - 1].terms
                        after == edition[n].terms
                        kept(f) == edition[n].form[f] = Editing!Shown(before, TRUE)[f]
                    IN /\ \A r \in Editing!Reason :
                            Editing!Refuses(before, p, r) /\ kept(Editing!From[r]) => Editing!Refuses(after, p, r)
                       /\ Editing!Approvals(after, p) < Editing!Approvals(before, p)
                            => \E f \in {"always", "autoUpTo", "approvals"} : ~kept(f)
  BY DEF Editing!LoosensOnlyWhatChanged
<1> PICK before : before = edition[n - 1].terms
  OBVIOUS
<1> PICK after : after = edition[n].terms
  OBVIOUS
<1> PICK g : g = edition[n].form
  OBVIOUS
<1> PICK sh : sh = Editing!Shown(before, TRUE)
  OBVIOUS
<1>1. n \in DOMAIN edition /\ n - 1 \in DOMAIN edition
  BY DEF Editing!Saved, EditingInv, EditionFits
<1>2. /\ TermsFit(before) /\ SentAs(after, g) /\ Editing!FromConsole(before)
      /\ p.asset \in before.assets /\ p.asset \in after.assets
  BY <1>1 DEF Editing!Saved, EditingInv, EditionFits
<1>3. KeepsTerms(before, after, g, sh)
  BY <1>2, KeptTerms
<1>4. ASSUME NEW r \in Editing!Reason, Editing!Refuses(before, p, r), g[Editing!From[r]] = sh[Editing!From[r]]
      PROVE  Editing!Refuses(after, p, r)
  <2>1. r \notin {"network", "asset"}
    BY <1>2, <1>4 DEF Editing!Refuses, Editing!FromConsole
  <2>2. CASE r = "frozen"
    BY <1>3, <1>4, <2>2 DEF KeepsTerms, Editing!Refuses, Editing!From
  <2>3. CASE r = "kind"
    BY <1>3, <1>4, <2>3 DEF KeepsTerms, Editing!Refuses, Editing!From
  <2>4. CASE r = "amount"
    BY <1>3, <1>4, <2>4 DEF KeepsTerms, Editing!Refuses, Editing!From
  <2>5. CASE r = "daily"
    BY <1>3, <1>4, <2>5 DEF KeepsTerms, Editing!Refuses, Editing!From
  <2>6. CASE r = "address"
    BY <1>3, <1>4, <2>6 DEF KeepsTerms, Editing!Refuses, Editing!From
  <2>7. CASE r = "beneficiary"
    BY <1>3, <1>4, <2>7 DEF KeepsTerms, Editing!Refuses, Editing!From
  <2> QED
    BY <2>1, <2>2, <2>3, <2>4, <2>5, <2>6, <2>7 DEF Editing!Reason
<1>5. ASSUME \A f \in {"always", "autoUpTo", "approvals"} : g[f] = sh[f]
      PROVE  ~(Editing!Approvals(after, p) < Editing!Approvals(before, p))
  <2>1. g.always = sh.always /\ g.autoUpTo = sh.autoUpTo /\ g.approvals = sh.approvals
    BY <1>5
  <2>2. Editing!Approvals(after, p) = Editing!Approvals(before, p)
    BY <1>3, <2>1 DEF KeepsTerms, Editing!Approvals
  <2>3. Editing!Approvals(before, p) \in Nat
    BY <1>2 DEF Editing!Approvals, TermsFit
  <2> QED
    BY <2>2, <2>3
<1> QED
  BY <1>4, <1>5

\* PolicyBinding and PolicyEditor (addPolicyVersion, bindPolicy, policy-editor.tsx, evaluatePolicy):
\* what is bound has a policy; a policy that was saved in the editor refuses every payment
\* that the page excluded, and an owner loosens only the terms that it changed.
THEOREM PoliciesSayWhatWasSaved == Spec => []PoliciesKept
<1>1. Init => EditingInv
  BY EditingInit DEF Init
<1>2. EditingInv => Editing!TermsAsEdited
  BY HoldsSaved, LoosensSaved DEF Editing!TermsAsEdited
<1>3. Spec => []Editing!TermsAsEdited
  BY <1>1, <1>2, EditingStep, PTL DEF Spec
<1> QED
  BY <1>3, BoundHasPolicy, PTL DEF PoliciesKept
=============================================================================
