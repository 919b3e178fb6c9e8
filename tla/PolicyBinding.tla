--------------------------- MODULE PolicyBinding ---------------------------
(***************************************************************************)
(* Versions of policies and what they are bound to.  A new version locks the *)
(* policy, retires the old version and moves the bindings; a binding reads   *)
(* the active version without that lock.  A transaction is seen by others    *)
(* when it commits, so each is a step that reads and a step that commits.    *)
(***************************************************************************)
EXTENDS Naturals

CONSTANTS
  Policy, Target, \* policies; agents and treasuries
  None,           \* no binding
  MaxVersion

VARIABLES
  latest,    \* per policy: the version that is active; all earlier ones are retired
  binding,   \* per target: the policy version bound to it
  adding,    \* per policy: the bindings that a new version under way has moved
  bind,      \* per target: what a binding under way has read
  overlapped \* ghost: a version of the same policy was added while it was bound

vars == <<latest, binding, adding, bind, overlapped>>

Init ==
  /\ latest = [p \in Policy |-> 1] /\ binding = [t \in Target |-> None]
  /\ adding = [p \in Policy |-> None] /\ bind = [t \in Target |-> None]
  /\ overlapped = FALSE

Version(p) == [policy |-> p, version |-> latest[p]]
Binding(p) == \E t \in Target : bind[t] # None /\ bind[t].policy = p

\* Bindings of any version of the policy move, as they stand when it looks.
Moves(p) == {t \in Target : binding[t] # None /\ binding[t].policy = p}

BeginVersion(p) ==
  /\ adding[p] = None /\ latest[p] < MaxVersion
  /\ adding' = [adding EXCEPT ![p] = [moved |-> Moves(p)]]
  /\ overlapped' = (overlapped \/ Binding(p))
  /\ UNCHANGED <<latest, binding, bind>>

CommitVersion(p) ==
  /\ adding[p] # None
  /\ latest' = [latest EXCEPT ![p] = @ + 1]
  /\ binding' = [t \in Target |-> IF t \in adding[p].moved
                                  THEN [policy |-> p, version |-> latest[p] + 1] ELSE binding[t]]
  /\ adding' = [adding EXCEPT ![p] = None]
  /\ UNCHANGED <<bind, overlapped>>

BeginBind(t, p) ==
  /\ bind[t] = None /\ bind' = [bind EXCEPT ![t] = Version(p)]
  /\ overlapped' = (overlapped \/ adding[p] # None)
  /\ UNCHANGED <<latest, binding, adding>>

\* Delete and insert: the row that a new version has moved must be free.
CommitBind(t) ==
  /\ bind[t] # None /\ \A p \in Policy : adding[p] # None => t \notin adding[p].moved
  /\ binding' = [binding EXCEPT ![t] = bind[t]] /\ bind' = [bind EXCEPT ![t] = None]
  /\ UNCHANGED <<latest, adding, overlapped>>

Next ==
  \/ \E p \in Policy : BeginVersion(p) \/ CommitVersion(p) \/ \E t \in Target : BeginBind(t, p)
  \/ \E t \in Target : CommitBind(t)

Spec == Init /\ [][Next]_vars

-----------------------------------------------------------------------------
\* Only an active version counts when an intent is evaluated.
Loaded(t) == IF binding[t] # None /\ binding[t] = Version(binding[t].policy) THEN binding[t] ELSE None

\* What is bound has a policy: bindings follow a policy to its new version, in
\* any order of the two, unless one was made while a version was being added.
BindingsFollowPolicy ==
  overlapped \/ \A t \in Target : binding[t] # None => Loaded(t) # None
=============================================================================
