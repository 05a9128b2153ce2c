--------------------------- MODULE MCCardDecision ---------------------------
(* CardDecision on small instances.  Reviews, events, operators and calls  *)
(* are interchangeable.                                                    *)
EXTENDS CardDecision, TLC

Symmetric == Permutations(Reviews) \cup Permutations(Events)
               \cup Permutations(Operators) \cup Permutations(Calls)
=============================================================================
