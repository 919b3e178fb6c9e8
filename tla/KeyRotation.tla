---------------------------- MODULE KeyRotation ----------------------------
(***************************************************************************)
(* The key that wraps the signers' data keys is replaced, by a new version in *)
(* the keyring or by a KMS key.  The API goes on creating signers, one or    *)
(* more runs of rotate-keys walk the signers in id order and wrap each data  *)
(* key again, the worker opens signers all the time, and the operator takes  *)
(* the old key out of use after a run has reported that nothing is left.     *)
(***************************************************************************)
EXTENDS Naturals, FiniteSets

CONSTANTS
  MaxSigner, \* signers by their ids, 1 .. MaxSigner
  Run,       \* processes that run rotate-keys
  None       \* null

VARIABLES
  envelope,  \* signers: None, or the envelope's format and the key that it needs
  writes,    \* per signer: how often its envelope was written
  keys,      \* per process of the API and the worker: the keys it was started with
  sealing,   \* per signer: the envelope that a request has sealed, not inserted yet
  run,       \* per run: where it is in the walk and what it has read
  clear,     \* a run has reported that nothing is left under the old key
  misordered \* ghost: the old key was in use after that, or the new one before the worker had it

vars == <<envelope, writes, keys, sealing, run, clear, misordered>>
Signer == 1 .. MaxSigner
Process == {"api", "worker"}
Exists(s) == envelope[s] # None

\* A secret under a data key, which is under a key of the ring; a legacy one,
\* directly under the ring's key; and a signer whose secret never left KMS.
Sealed(key) == [format |-> 2, key |-> key]
Legacy == [format |-> 1, key |-> "old"]
Held == [format |-> 0, key |-> None]

\* With a new key that wraps, the older ones stay in the ring to unwrap.
Active(ring) == IF "new" \in ring THEN "new" ELSE "old"

\* openSecret
Opens(ring, e) == e.format = 0 \/ e.key \in ring

Idle == [at |-> "idle"]
Init ==
  /\ envelope \in [Signer -> {None, Legacy, Sealed("old")}]
  /\ writes = [s \in Signer |-> 0]
  /\ keys = [p \in Process |-> {"old"}] /\ sealing = [s \in Signer |-> None]
  /\ run = [r \in Run |-> Idle] /\ clear = FALSE /\ misordered = FALSE

Goto(r, h) == run' = [run EXCEPT ![r] = h]

\* An envelope that the worker could not open, or under a key that is out of use.
OutOfOrder(e) == ~Opens(keys["worker"], e) \/ (clear /\ e.key = "old")

Store(s, e) ==
  /\ envelope' = [envelope EXCEPT ![s] = e] /\ writes' = [writes EXCEPT ![s] = @ + 1]
  /\ misordered' = (misordered \/ OutOfOrder(e))

-----------------------------------------------------------------------------
(* POST /v1/signers. Ids are random: a signer may be created behind a run.  *)

Seal(s) ==
  /\ ~Exists(s) /\ sealing[s] = None
  /\ sealing' = [sealing EXCEPT ![s] = Sealed(Active(keys["api"]))]
  /\ UNCHANGED <<envelope, writes, keys, run, clear, misordered>>

CreateSigner(s) ==
  /\ sealing[s] # None /\ Store(s, sealing[s])
  /\ sealing' = [sealing EXCEPT ![s] = None]
  /\ UNCHANGED <<keys, run, clear>>

\* POST /v1/signers/kms
CreateKmsSigner(s) ==
  /\ ~Exists(s) /\ sealing[s] = None /\ Store(s, Held)
  /\ UNCHANGED <<keys, sealing, run, clear>>

-----------------------------------------------------------------------------
(* The operator.                                                            *)

\* A process is restarted with the new key beside the old one.
Introduce(p) ==
  /\ "new" \notin keys[p] /\ keys' = [keys EXCEPT ![p] = @ \cup {"new"}]
  /\ UNCHANGED <<envelope, writes, sealing, run, clear, misordered>>

\* ... and without the old one, once that is no longer needed.
Retire(p) ==
  /\ clear /\ keys[p] = {"old", "new"} /\ keys' = [keys EXCEPT ![p] = {"new"}]
  /\ UNCHANGED <<envelope, writes, sealing, run, clear, misordered>>

-----------------------------------------------------------------------------
(* rotate-keys, with both keys.                                             *)

\* listSignersToRewrap: software signers that are not under the active key.
\* Mutant: a version that is null is not different from it.
ToRewrapVersioned == {s \in Signer : Exists(s) /\ envelope[s].format = 2 /\ envelope[s].key # "new"}
ToRewrap == {s \in Signer : Exists(s) /\ envelope[s].format # 0 /\ envelope[s].key # "new"}

Start(r) ==
  /\ run[r] = Idle /\ ~clear /\ Goto(r, [at |-> "walk", after |-> 0])
  /\ UNCHANGED <<envelope, writes, keys, sealing, clear, misordered>>

\* The next signer in the order of ids; its envelope may fail to open.
ReadNext(r) ==
  /\ run[r].at = "walk"
  /\ LET ahead == {s \in ToRewrap : s > run[r].after}
         next == CHOOSE s \in ahead : \A other \in ahead : s <= other
     IN IF ahead = {} THEN Goto(r, [at |-> "walked"])
        ELSE \/ Goto(r, [at |-> "walk", after |-> next])
             \/ Goto(r, [at |-> "wrap", after |-> next, read |-> writes[next]])
  /\ UNCHANGED <<envelope, writes, keys, sealing, clear, misordered>>

\* rewrapSecret: the data key is wrapped again; a legacy secret gets one.
Rewrapped == Sealed("new")

\* replaceSignerEnvelope: only the envelope that was read is replaced.
Replace(r) ==
  /\ run[r].at = "wrap"
  /\ LET s == run[r].after
     IN IF writes[s] = run[r].read THEN Store(s, Rewrapped)
        ELSE UNCHANGED <<envelope, writes, misordered>>
  /\ Goto(r, [at |-> "walk", after |-> run[r].after])
  /\ UNCHANGED <<keys, sealing, clear>>

\* The report looks once more at what is left; sealing under the old key goes
\* on as long as the API does not have the new one.
Report(r) ==
  /\ run[r].at = "walked"
  /\ clear' = (clear \/ ToRewrap = {})
  /\ misordered' = (misordered \/ (clear' /\ keys["api"] = {"old"}))
  /\ Goto(r, Idle)
  /\ UNCHANGED <<envelope, writes, keys, sealing>>

Crash(r) ==
  /\ run[r] # Idle /\ Goto(r, Idle)
  /\ UNCHANGED <<envelope, writes, keys, sealing, clear, misordered>>

Next ==
  \/ \E s \in Signer : Seal(s) \/ CreateSigner(s) \/ CreateKmsSigner(s)
  \/ \E p \in Process : Introduce(p) \/ Retire(p)
  \/ \E r \in Run : Start(r) \/ ReadNext(r) \/ Replace(r) \/ Report(r) \/ Crash(r)

Spec == Init /\ [][Next]_vars

-----------------------------------------------------------------------------
\* The worker can open every signer at every time, although signers of two
\* formats are created behind the runs, runs overlap, fail and stop halfway, and
\* keys come and go: as long as the worker has the new key before it is used, and
\* nobody seals under the old one after the report.
NoKeyLost ==
  ~misordered => \A s \in Signer : Exists(s) => Opens(keys["worker"], envelope[s])
=============================================================================
