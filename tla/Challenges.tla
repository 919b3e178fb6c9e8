------------------------------ MODULE Challenges ------------------------------
(***************************************************************************)
(* How a wallet proves itself: the API writes a message for it, the wallet   *)
(* signs, and POST verify trades the signature for a session.  Requests are  *)
(* sent again and overlap; every process of the API has a clock of its own,  *)
(* and the database another, none more than a minute ahead of another.       *)
(***************************************************************************)
EXTENDS Integers, Sequences

CONSTANTS
  Wallet, Solana,  \* addresses, and those that are Solana's
  Client,          \* requests that may be under way together
  Lifetime, Drift, \* five minutes of a challenge, and one minute
  MaxChallenges, MaxTime

VARIABLES
  now,        \* the time that the slowest clock shows
  challenges, \* auth_challenges, and when they were really written
  request,    \* per client: POST verify between its awaits
  proven,     \* sessions that verify created, with their challenge
  turnedAway  \* ghost: a wallet was refused that had done all it was asked, in time

vars == <<now, challenges, request, proven, turnedAway>>

Nothing == [at |-> "idle"]
Init ==
  /\ now = 0 /\ challenges = <<>> /\ proven = <<>>
  /\ request = [c \in Client |-> Nothing] /\ turnedAway = FALSE

Clock == now .. now + Drift
Goto(c, r) == request' = [request EXCEPT ![c] = r]

-----------------------------------------------------------------------------
\* POST challenges: buildSignInMessage for any address, signed in or not.
Message(w, clock) == [address |-> w, issuedAt |-> clock, expirationTime |-> clock + Lifetime]
CreateChallenge(w) ==
  /\ Len(challenges) < MaxChallenges
  /\ \E clock \in Clock :
       challenges' = Append(challenges, [message |-> Message(w, clock), consumed |-> FALSE, at |-> now])
  /\ UNCHANGED <<now, request, proven, turnedAway>>

\* A wallet signs any message, with the account that is selected.
Signature == [by : Wallet, over : DOMAIN challenges]

\* POST verify, of any nonce with any address and signature, as often as one likes.
Send(c, n, w) ==
  /\ request[c] = Nothing
  /\ \E s \in Signature : Goto(c, [at |-> "sent", nonce |-> n, address |-> w,
                                      signature |-> s, deserves |-> FALSE])
  /\ UNCHANGED <<now, challenges, proven, turnedAway>>

\* The first to send what the wallet signed for itself, in time by any clock.
Deserves(r) ==
  /\ ~challenges[r.nonce].consumed /\ now < challenges[r.nonce].at + Lifetime - Drift
  /\ challenges[r.nonce].message.address = r.address
  /\ r.signature = [by |-> r.address, over |-> r.nonce]

\* consumeChallenge: one update, by the clock of the database.
\* Mutant: a challenge is good until it expires.
OpenByTime(n, clock) == challenges[n].message.expirationTime > clock
Open(n, clock) == ~challenges[n].consumed /\ challenges[n].message.expirationTime > clock
Consume(c) ==
  /\ request[c].at = "sent"
  /\ \E clock \in Clock :
       LET r == request[c] IN
       IF Open(r.nonce, clock)
       THEN /\ challenges' = [challenges EXCEPT ![r.nonce].consumed = TRUE]
            /\ Goto(c, [r EXCEPT !.at = "consumed", !.deserves = Deserves(r)])
            /\ UNCHANGED turnedAway
       ELSE Goto(c, Nothing) /\ turnedAway' = (turnedAway \/ Deserves(r)) /\ UNCHANGED challenges
  /\ UNCHANGED <<now, proven>>

\* verifySignIn: the fields of the signed message, its window by the clock of
\* the API, and the signer.  Only the Solana branch asks when it was issued.
Window(m, clock) ==
  /\ m.expirationTime > clock
  /\ m.address \in Solana => m.issuedAt <= clock + Drift
Verified(r, clock) ==
  /\ challenges[r.nonce].message.address = r.address /\ Window(challenges[r.nonce].message, clock)
  /\ r.signature = [by |-> r.address, over |-> r.nonce]
Verify(c) ==
  /\ request[c].at = "consumed"
  /\ \E clock \in Clock :
       IF Verified(request[c], clock)
       THEN Goto(c, [request[c] EXCEPT !.at = "verified"]) /\ UNCHANGED turnedAway
       ELSE Goto(c, Nothing) /\ turnedAway' = (turnedAway \/ request[c].deserves)
  /\ UNCHANGED <<now, challenges, proven>>

\* Memberships and the session are Access and SignIn.
CreateSession(c) ==
  /\ request[c].at = "verified" /\ Goto(c, Nothing)
  /\ proven' = Append(proven, [wallet |-> request[c].address, nonce |-> request[c].nonce,
                              signature |-> request[c].signature])
  /\ UNCHANGED <<now, challenges, turnedAway>>

\* The API stops: the challenge stays as it is.
Abandon(c) ==
  /\ request[c] # Nothing /\ Goto(c, Nothing)
  /\ UNCHANGED <<now, challenges, proven, turnedAway>>

\* A request is over before the clocks have moved further than they differ.
Tick ==
  /\ now < MaxTime /\ now' = now + 1
  /\ \A c \in Client : request[c].at # "consumed"
  /\ UNCHANGED <<challenges, request, proven, turnedAway>>

Next ==
  \/ \E w \in Wallet :
       CreateChallenge(w) \/ \E n \in DOMAIN challenges, c \in Client : Send(c, n, w)
  \/ \E c \in Client : Consume(c) \/ Verify(c) \/ CreateSession(c) \/ Abandon(c)
  \/ Tick

Spec == Init /\ [][Next]_vars

-----------------------------------------------------------------------------
\* A session stands for one signature of its own wallet: over a challenge made
\* out to it, traded once, by whichever of the requests that race for it.
ProvenOnce ==
  \A k \in DOMAIN proven :
    LET n == proven[k].nonce
    IN /\ challenges[n].message.address = proven[k].wallet
       /\ proven[k].signature = [by |-> proven[k].wallet, over |-> n]
       /\ \A j \in DOMAIN proven : proven[j].nonce = n => j = k

\* A wallet that does what it is asked is not refused by a clock that is behind
\* the one that wrote its challenge, or ahead, unless its nonce was tried before.
NobodyTurnedAway == ~turnedAway

Proven == ProvenOnce /\ NobodyTurnedAway
=============================================================================
