------------------------------- MODULE Budget -------------------------------
(***************************************************************************)
(* A spending limit as one would state it: a payment takes its share of    *)
(* the limit in one indivisible step, and only while there is room for it  *)
(* ("reservation before authorization", docs/THREAT-MODEL.md).  A share    *)
(* given back may be taken by another payment, never by the same one       *)
(* again.                                                                  *)
(*                                                                         *)
(* Authorization implements this module without any reservation: each      *)
(* intent first shows that it wants its share and then looks at the others.*)
(***************************************************************************)
EXTENDS Integers, FiniteSetsExt

CONSTANTS
  Intent,
  Amount,    \* Amount[i], what intent i pays
  Limit

VARIABLES
  holding,   \* intents that hold their share
  done       \* intents that gave it back, or never asked for it

vars == <<holding, done>>

Total(S) == MapThenSumSet(LAMBDA i : Amount[i], S)

Init == holding = {} /\ done = {}

Reserve(i) ==
  /\ i \notin holding \cup done
  /\ Total(holding \cup {i}) <= Limit
  /\ holding' = holding \cup {i}
  /\ UNCHANGED done

Release(i) ==
  /\ i \notin done
  /\ holding' = holding \ {i}
  /\ done' = done \cup {i}

Next == \E i \in Intent : Reserve(i) \/ Release(i)

Spec == Init /\ [][Next]_vars
=============================================================================
