----------------------------- MODULE Resource -----------------------------
(***************************************************************************)
(* useApi, by which every page of the console shows a resource: one request  *)
(* at a time per component, a refetch when a mutation invalidates the path,  *)
(* and polling.  A load that is asked for while a request is in flight is    *)
(* not made up for.                                                          *)
(***************************************************************************)
EXTENDS Naturals

CONSTANTS
  Path,
  None,       \* undefined
  MaxVersion  \* bound on the changes of a resource

VARIABLES
  version,   \* per path: the resource at the server
  path, data, error, loading, inFlight, \* the hook's state
  mutating,  \* a path whose mutation is answered and not yet invalidated
  dropped    \* ghost: a load was asked for and not made since the last one began

vars == <<version, path, data, error, loading, inFlight, mutating, dropped>>

\* load: nothing at all while a request is in flight.
Load(target) ==
  IF inFlight # None THEN dropped' = TRUE /\ UNCHANGED inFlight
  ELSE dropped' = FALSE /\ inFlight' = [target |-> target, answer |-> None]

Init ==
  /\ version = [p \in Path |-> 0]
  /\ path \in Path /\ data = None /\ error = FALSE /\ loading = TRUE
  /\ inFlight = [target |-> path, answer |-> None]
  /\ mutating = None /\ dropped = FALSE

Navigate(p) ==
  /\ p # path /\ path' = p /\ loading' = TRUE /\ Load(p)
  /\ UNCHANGED <<version, data, error, mutating>>

Poll ==
  /\ inFlight = None /\ Load(path)
  /\ UNCHANGED <<version, path, data, error, loading, mutating>>

\* The server answers with what it has at that moment.
Serve ==
  /\ inFlight # None /\ inFlight.answer = None
  /\ inFlight' = [inFlight EXCEPT !.answer = version[inFlight.target]]
  /\ UNCHANGED <<version, path, data, error, loading, mutating, dropped>>

\* Mutant: whatever arrives is shown.
AnyAnswer(target) == TRUE
Current(target) == path = target

Settle(shown, failed) ==
  /\ IF Current(inFlight.target)
     THEN data' = shown /\ error' = failed /\ loading' = FALSE
     ELSE UNCHANGED <<data, error, loading>>
  /\ inFlight' = None
  /\ UNCHANGED <<version, path, mutating, dropped>>

Deliver ==
  /\ inFlight # None /\ inFlight.answer # None
  /\ Settle([path |-> inFlight.target, version |-> inFlight.answer], FALSE)

Lose == inFlight # None /\ Settle(data, TRUE)

\* A mutation of this page: the server changes first, the page hears of it later.
Mutate(p) ==
  /\ mutating = None /\ version[p] < MaxVersion
  /\ version' = [version EXCEPT ![p] = @ + 1] /\ mutating' = p
  /\ UNCHANGED <<path, data, error, loading, inFlight, dropped>>

Invalidate ==
  /\ mutating # None /\ mutating' = None
  /\ IF mutating = path THEN Load(path) ELSE UNCHANGED <<inFlight, dropped>>
  /\ UNCHANGED <<version, path, data, error, loading>>

Next ==
  \/ \E p \in Path : Navigate(p) \/ Mutate(p)
  \/ Poll \/ Serve \/ Deliver \/ Lose \/ Invalidate

Spec == Init /\ [][Next]_vars

-----------------------------------------------------------------------------
\* What a page shows as loaded is the resource it is about, and once everything
\* has settled it is that resource as the page's own mutations left it, unless
\* a load was asked for while another was in flight.
ShownIsCurrent ==
  /\ ~loading /\ ~error => data.path = path
  /\ inFlight = None /\ ~dropped /\ mutating = None =>
       ~loading /\ (error \/ data = [path |-> path, version |-> version[path]])
=============================================================================
