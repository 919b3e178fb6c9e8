-------------------------- MODULE MCAuthorization --------------------------
(* Values for the constants of Authorization. *)
EXTENDS Authorization, TLC

CONSTANTS i1, i2, i3

\* Any one fits the limit of 3, i1 and i2 together do not, i1 and i3 do.
AmountOf == [i \in Intent |-> IF i = i1 THEN 1 ELSE IF i = i2 THEN 3 ELSE 2]
\* i1 may wait for longer than a day.
LifetimeOf == [i \in Intent |-> IF i = i1 THEN 3 ELSE 1]
OneLifetime == [i \in Intent |-> 1]

Workers == Permutations(Worker) \cup Permutations(Approver)
=============================================================================
