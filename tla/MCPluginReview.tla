--------------------------- MODULE MCPluginReview ---------------------------
(* Instances of PluginReview for TLC.                                      *)
EXTENDS PluginReview, TLC

Symmetric == Permutations(Reqs) \cup Permutations(Contents)
               \cup Permutations(Calls)

(* No guard reads carded: for properties that do not mention it, states    *)
(* that differ in it only are the same.                                    *)
WithoutCards == <<plugin, request, policy, call, platform>>
=============================================================================
