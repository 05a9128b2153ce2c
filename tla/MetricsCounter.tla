--------------------------- MODULE MetricsCounter ---------------------------
(***************************************************************************)
(* What the metrics pipeline promises: an event is tracked once, and the   *)
(* published counters of its resource then take it in exactly once, in     *)
(* whatever batches suit the pipeline                                      *)
(* (.octospec/tasks/metrics-durable-flush/brief.md: no lost delta, no      *)
(* delta counted twice).                                                   *)
(***************************************************************************)
EXTENDS Naturals

CONSTANT Events      \* views, downloads and installs, each a single event

VARIABLES
    tracked,         \* the events that were recorded
    counted          \* how often each is part of the published counters

Init == tracked = {} /\ counted = [e \in Events |-> 0]

Track(e) ==
    /\ e \notin tracked
    /\ tracked' = tracked \cup {e}
    /\ UNCHANGED counted

(* Publishes a batch of events that were tracked and not yet counted.      *)
Count(batch) ==
    /\ batch # {}
    /\ batch \subseteq {e \in tracked : counted[e] = 0}
    /\ counted' = [e \in Events |-> IF e \in batch THEN 1 ELSE counted[e]]
    /\ UNCHANGED tracked

Next == \/ \E e \in Events : Track(e)
        \/ \E batch \in SUBSET Events : Count(batch)

Spec == Init /\ [][Next]_<<tracked, counted>>
=============================================================================
