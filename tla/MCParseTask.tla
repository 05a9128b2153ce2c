---------------------------- MODULE MCParseTask -----------------------------
(* ParseTask on a small instance.                                          *)
EXTENDS ParseTask, FiniteSetsExt, TLC

Symmetric == Permutations(Tasks) \cup Permutations(Clients)

(* Bound: where jobs may outlive the stale timeout, the tasks are tried    *)
(* four times between them.                                                *)
FewAttempts == patient \/ MapThenSumSet(LAMBDA t : task[t].attempts, Tasks) <= 4
=============================================================================
