---------------------------- MODULE ManagedCatalog ----------------------------
(***************************************************************************)
(* Managed releases, pinned references, dependency suspension and planned  *)
(* visibility changes: the catalogue with version management and           *)
(* references enabled.  One Space and one owner.  A plugin has an editable *)
(* draft and immutable releases; a relation pins a release of its target.  *)
(* Each action is one repository transaction, which locks the rows it      *)
(* decides from and checks again what the service read before.  Names,     *)
(* content and files are left out: a release is its label and relations;   *)
(* a draft's own label is provisional and decides nothing.                 *)
(***************************************************************************)
EXTENDS Naturals, FiniteSets

CONSTANTS Skills, Experts, Teams,  \* the plugins, by type
          MaxLabel,                \* bound: labels of a plugin
          MaxMoves,                \* bound: committed transactions
          None

VARIABLES draft,     \* the relations of the head, and the label it is released as or 0
          rel,       \* plugin_version_releases: label -> relations, per plugin
          pub,       \* label of published_version_id, or 0
          list,      \* listing_state
          vis,       \* visibility
          alive,     \* not soft-deleted
          susp,      \* has a plugin_dependency_suspensions row
          req,       \* the pending review request, or None
          group,     \* the visibility plan a root's pending group was built from
          approved,  \* the releases approved for the Space so far
          moves

vars == <<draft, rel, pub, list, vis, alive, susp, req, group, approved, moves>>

Plugins == Skills \cup Experts \cup Teams
Labels == 1..MaxLabel
Audiences == {"private", "space"}

(* The relation matrix: expert to skill, team to expert; one pin a target. *)
Below(p) == IF p \in Experts THEN Skills ELSE IF p \in Teams THEN Experts ELSE {}
Relations(p) == {R \in SUBSET (Below(p) \X Labels) : \A x, y \in R : x[1] = y[1] => x = y}
Targets(R) == {x[1] : x \in R}

Request(kind, label, R, root) == [kind |-> kind, label |-> label, rels |-> R, root |-> root]

TypeOK ==
  /\ \A p \in Plugins :
       /\ draft[p].rels \in Relations(p) /\ draft[p].of \in {0} \cup DOMAIN rel[p]
       /\ DOMAIN rel[p] \subseteq Labels /\ \A l \in DOMAIN rel[p] : rel[p][l] \in Relations(p)
       /\ pub[p] \in {0} \cup DOMAIN rel[p]
       /\ req[p] = None \/ req[p].kind \in {"release", "visibility", "group"}
  /\ list \in [Plugins -> {"draft", "published", "delisted"}]
  /\ vis \in [Plugins -> Audiences]
  /\ alive \in [Plugins -> BOOLEAN] /\ susp \in [Plugins -> BOOLEAN]
  /\ approved \subseteq Plugins \X Labels /\ moves \in 0..MaxMoves

(* The skills are released already, for either audience; a skill listed    *)
(* for the Space was approved.                                             *)
Init ==
  /\ draft = [p \in Plugins |-> [rels |-> {}, of |-> IF p \in Skills THEN 1 ELSE 0]]
  /\ rel = [p \in Plugins |-> [l \in (IF p \in Skills THEN {1} ELSE {}) |-> {}]]
  /\ pub = [p \in Plugins |-> IF p \in Skills THEN 1 ELSE 0]
  /\ list = [p \in Plugins |-> IF p \in Skills THEN "published" ELSE "draft"]
  /\ vis \in [Plugins -> Audiences]
  /\ approved = {<<p, 1>> : p \in {q \in Skills : vis[q] = "space"}}
  /\ alive = [p \in Plugins |-> TRUE] /\ susp = [p \in Plugins |-> FALSE]
  /\ req = [p \in Plugins |-> None] /\ group = [p \in Plugins |-> None]
  /\ moves = 0

Commit == moves < MaxMoves /\ moves' = moves + 1

-----------------------------------------------------------------------------
(* Validation of references.                                               *)

(* referenceAudience, for one owner: whom a source with audience v may use.*)
Audience(v, w) == w = "space" \/ v = "private"

PinReleased(x) == x[2] \in DOMAIN rel[x[1]]

(* The relations frozen in the pinned release, below the root: the root's  *)
(* audience holds at every depth, the listing state is not looked at.      *)
NestedOK(vz, root, x) ==
  \A y \in rel[x[1]][x[2]] :
     alive[y[1]] /\ Audience(vz[x[1]], vz[y[1]]) /\ Audience(vz[root], vz[y[1]]) /\ PinReleased(y)

EdgesOK(vz, p, R, kept) ==
  \A x \in R : /\ alive[x[1]] /\ Audience(vz[p], vz[x[1]])
               /\ list[x[1]] = "published" \/ x \in kept
               /\ PinReleased(x) /\ NestedOK(vz, p, x)

LeaderOK(p, R) == p \in Teams => R # {}

(* vz is the visibility the transaction has written so far.                *)
validateReferenceTree(vz, p, R, kept) == LeaderOK(p, R) /\ EdgesOK(vz, p, R, kept)

(* The catalogue's availability check: both levels alive, listed, readable *)
(* for the root's audience and released.                                   *)
Available(p, R) ==
  \A x \in R \cup UNION {rel[y[1]][y[2]] : y \in R} :
     alive[x[1]] /\ list[x[1]] = "published" /\ PinReleased(x) /\ Audience(vis[p], vis[x[1]])

(* A save revalidates every reference; those it keeps may be delisted.     *)
lockReferences(vz, p, R) ==
  (list[p] = "draft" /\ R = {}) \/ validateReferenceTree(vz, p, R, draft[p].rels)

(* Mutant: a label may be released again with other content.               *)
RelabelAllowed(p, label, R, same) ==
  /\ validateReferenceTree(vis, p, R, {})
  /\ pub[p] # 0 => label >= pub[p]
  /\ susp[p] => Available(p, R)

(* recordRelease: the references are validated again; an existing label    *)
(* must name the same version row, a new one must advance over the label   *)
(* that is published now; a suspended plugin recovers only with everything *)
(* available.                                                              *)
Releasable(p, label, R, same) ==
  /\ validateReferenceTree(vis, p, R, {})
  /\ IF label \in DOMAIN rel[p] THEN same ELSE pub[p] # 0 => label > pub[p]
  /\ susp[p] => Available(p, R)

recordRelease(p, label, R) ==
  /\ rel' = [rel EXCEPT ![p] = [l \in DOMAIN rel[p] \cup {label} |->
                                  IF l = label THEN R ELSE rel[p][l]]]
  /\ pub' = [pub EXCEPT ![p] = label]
  /\ list' = [list EXCEPT ![p] = "published"]
  /\ susp' = [susp EXCEPT ![p] = FALSE]

Grouped(p) == req[p] # None /\ req[p].kind = "group"
Closed(p) == [req EXCEPT ![p] = None]

-----------------------------------------------------------------------------
(* The owner's draft and its publication.                                  *)

(* Repo.Update: an unchanged relation may stay although its target has     *)
(* been delisted; a changed one is validated.  The audience can change     *)
(* here only before anything was published.                                *)
Save(p, R, v) ==
  /\ Commit /\ alive[p] /\ ~Grouped(p)
  /\ \/ v = vis[p]
        /\ \/ list[p] = "draft" /\ R = {}
           \/ LeaderOK(p, R) /\ EdgesOK(vis, p, R \ draft[p].rels, {})
     \/ v # vis[p] /\ req[p] = None
        /\ list[p] = "draft" /\ DOMAIN rel[p] = {}
        /\ lockReferences([vis EXCEPT ![p] = v], p, R)
  /\ draft' = [draft EXCEPT ![p] = [rels |-> R, of |-> 0]]
  /\ vis' = [vis EXCEPT ![p] = v]
  /\ UNCHANGED <<rel, pub, list, alive, susp, req, group, approved>>

(* PublishManaged of a private draft under a chosen label: another label   *)
(* than the draft's appends a copy, which becomes the head.                *)
PublishManaged(p, label) ==
  /\ Commit /\ alive[p] /\ vis[p] = "private" /\ req[p] = None
  /\ Releasable(p, label, draft[p].rels, draft[p].of = label)
  /\ recordRelease(p, label, draft[p].rels)
  /\ draft' = [draft EXCEPT ![p].of = label]
  /\ UNCHANGED <<vis, alive, req, group, approved>>

managedLabels(p) == DOMAIN rel[p]

Submittable(p, label, R) ==
  /\ vis[p] = "space" \/ list[p] = "published"
  /\ \A l \in managedLabels(p) : label > l
  /\ req[p] = None
  /\ validateReferenceTree(vis, p, R, {})

(* What the request freezes is validated again under the lock, so it may   *)
(* as well be read there.                                                  *)
InsertReviewRequest(p, label) ==
  /\ Commit /\ alive[p] /\ Submittable(p, label, draft[p].rels)
  /\ req' = [req EXCEPT ![p] = Request("release", label, draft[p].rels, None)]
  /\ UNCHANGED <<draft, rel, pub, list, vis, alive, susp, group, approved>>

(* The frozen relations are released; the draft the author may have saved  *)
(* meanwhile stays the head.                                               *)
approveManagedReview(p) ==
  /\ Commit /\ req[p] # None /\ req[p].kind = "release" /\ vis[p] = "space"
  /\ Releasable(p, req[p].label, req[p].rels, FALSE)
  /\ recordRelease(p, req[p].label, req[p].rels)
  /\ approved' = approved \cup {<<p, req[p].label>>}
  /\ req' = Closed(p)
  /\ UNCHANGED <<draft, vis, alive, group>>

(* Reject or cancel: finishVisibilityGroup settles every member at once.   *)
RejectOrCancel(p) ==
  /\ Commit /\ req[p] # None
  /\ IF Grouped(p)
       THEN /\ req' = [q \in Plugins |-> IF Grouped(q) /\ req[q].root = req[p].root
                                           THEN None ELSE req[q]]
            /\ group' = [group EXCEPT ![req[p].root] = None]
       ELSE req' = Closed(p) /\ UNCHANGED group
  /\ UNCHANGED <<draft, rel, pub, list, vis, alive, susp, approved>>

(* SubmitDependencyUpdates: some pins of the draft move to the release     *)
(* their target has published, and the result is released (private) or     *)
(* submitted, and approved at once where the Space's policy says so.       *)
Updated(R, T) == {IF x[1] \in T THEN <<x[1], pub[x[1]]>> ELSE x : x \in R}

SubmitDependencyUpdates(p, T, label, auto) ==
  LET R == Updated(draft[p].rels, T)
  IN /\ Commit /\ alive[p] /\ list[p] = "published" /\ req[p] = None
     /\ T # {} /\ T \subseteq Targets(draft[p].rels)
     /\ \A x \in draft[p].rels : x[1] \in T => alive[x[1]] /\ pub[x[1]] > x[2]
     /\ EdgesOK(vis, p, R \ draft[p].rels, {})
     /\ \/ /\ vis[p] = "private" /\ Releasable(p, label, R, FALSE)
           /\ recordRelease(p, label, R)
           /\ draft' = [draft EXCEPT ![p] = [rels |-> R, of |-> label]]
           /\ UNCHANGED <<req, approved>>
        \/ /\ vis[p] = "space" /\ Submittable(p, label, R)
           /\ draft' = [draft EXCEPT ![p] = [rels |-> R, of |-> 0]]
           /\ IF auto
                THEN /\ Releasable(p, label, R, FALSE) /\ recordRelease(p, label, R)
                     /\ approved' = approved \cup {<<p, label>>}
                     /\ UNCHANGED req
                ELSE /\ req' = [req EXCEPT ![p] = Request("release", label, R, None)]
                     /\ UNCHANGED <<rel, pub, list, susp, approved>>
     /\ UNCHANGED <<vis, alive, group>>

-----------------------------------------------------------------------------
(* Taking down and deleting.                                               *)

(* n's published graph uses q: directly, or by the member version a team   *)
(* pins.                                                                   *)
Uses(n, q) ==
  pub[n] # 0 /\ \E x \in rel[n][pub[n]] : x[1] = q \/ q \in Targets(rel[x[1]][x[2]])

Listed(n) == alive[n] /\ list[n] = "published"

(* Mutant: only the direct users of the plugin are suspended.              *)
DirectDependents(p) == {n \in Experts \cup Teams : Listed(n) /\ pub[n] # 0
                                                   /\ p \in Targets(rel[n][pub[n]])}

(* The breadth-first search for listed users, over users already found.    *)
suspendDelistedDependents(p) ==
  LET users(S) == {n \in Experts \cup Teams : Listed(n) /\ \E q \in S : Uses(n, q)}
      direct == users({p})
  IN direct \cup users(direct)

Suspended(S) ==
  /\ susp' = [n \in Plugins |-> susp[n] \/ n \in S]

DelistPlugin(p) ==
  /\ Commit /\ Listed(p) /\ vis[p] = "space" /\ ~Grouped(p)
  /\ LET S == suspendDelistedDependents(p) \ {p}
     IN /\ list' = [n \in Plugins |-> IF n \in S \cup {p} THEN "delisted" ELSE list[n]]
        /\ Suspended(S)
  /\ req' = Closed(p)
  /\ UNCHANGED <<draft, rel, pub, vis, alive, group, approved>>

rejectPublishedIncoming(p) == \E n \in Plugins \ {p} : alive[n] /\ Uses(n, p)

Delete(p) ==
  /\ Commit /\ alive[p] /\ ~Grouped(p)
  /\ ~rejectPublishedIncoming(p)
  /\ \A n \in Plugins : alive[n] => p \notin Targets(draft[n].rels)
  /\ alive' = [alive EXCEPT ![p] = FALSE]
  /\ list' = [list EXCEPT ![p] = "draft"]
  /\ draft' = [draft EXCEPT ![p].rels = {}]
  /\ req' = Closed(p)
  /\ UNCHANGED <<rel, pub, vis, susp, group, approved>>

-----------------------------------------------------------------------------
(* Changing the audience of a published plugin.                            *)

(* ChangeVisibility without a plan.                                        *)
Narrow(p) ==
  /\ Commit /\ Listed(p) /\ pub[p] # 0 /\ vis[p] = "space" /\ req[p] = None
  /\ ~rejectPublishedIncoming(p)
  /\ vis' = [vis EXCEPT ![p] = "private"]
  /\ UNCHANGED <<draft, rel, pub, list, alive, susp, req, group, approved>>

WidenOK(p) == validateReferenceTree([vis EXCEPT ![p] = "space"], p, rel[p][pub[p]], {})

Widen(p, auto) ==
  /\ Commit /\ Listed(p) /\ pub[p] # 0 /\ vis[p] = "private" /\ req[p] = None /\ WidenOK(p)
  /\ IF auto THEN /\ vis' = [vis EXCEPT ![p] = "space"]
                  /\ approved' = approved \cup {<<p, pub[p]>>}
                  /\ UNCHANGED req
             ELSE /\ req' = [req EXCEPT ![p] = Request("visibility", pub[p], {}, None)]
                  /\ UNCHANGED <<vis, approved>>
  /\ UNCHANGED <<draft, rel, pub, list, alive, susp, group>>

approveVisibilityReview(p) ==
  /\ Commit /\ req[p] # None /\ req[p].kind = "visibility"
  /\ Listed(p) /\ vis[p] = "private" /\ pub[p] = req[p].label /\ WidenOK(p)
  /\ vis' = [vis EXCEPT ![p] = "space"]
  /\ approved' = approved \cup {<<p, pub[p]>>}
  /\ req' = Closed(p)
  /\ UNCHANGED <<draft, rel, pub, list, alive, susp, group>>

-----------------------------------------------------------------------------
(* Changing the audience along a confirmed plan.                           *)

(* Every release counts, not only the published one.                       *)
AllEdges(n) == UNION {rel[n][l] : l \in DOMAIN rel[n]}
Reach(p) == LET kids(S) == UNION {Targets(AllEdges(n)) : n \in S}
            IN {p} \cup kids({p}) \cup kids(kids({p}))

(* A plan has no blockers: pending says whose open request counts.         *)
Unblocked(p, pending) ==
  \A n \in Reach(p) :
     /\ alive[n] /\ \A x \in AllEdges(n) : PinReleased(x)
     /\ list[n] = "published" \/ (n = p /\ list[n] = "delisted")
     /\ vis[n] = "private" => n \notin pending /\ pub[n] # 0

(* What the plan changes and the baseline it rests on.  The content hash   *)
(* of the draft, part of the baseline, is left out.                        *)
buildVisibilityPlan(p, pending) ==
  [changes |-> {n \in Reach(p) : vis[n] = "private" \/ n = p},
   baseline |-> [n \in Reach(p) |-> <<vis[n], list[n], pub[n], rel[n], n \in pending>>]]

Pending == {n \in Plugins : req[n] # None}

GroupOK(plan) ==
  LET vz == [n \in Plugins |-> IF n \in plan.changes THEN "space" ELSE vis[n]]
  IN \A n \in plan.changes : validateReferenceTree(vz, n, rel[n][pub[n]], {})

Widened(plan) ==
  /\ vis' = [n \in Plugins |-> IF n \in plan.changes THEN "space" ELSE vis[n]]
  /\ approved' = approved \cup {<<n, pub[n]>> : n \in plan.changes}

PlanWiden(p, auto) ==
  LET plan == buildVisibilityPlan(p, Pending)
  IN /\ Commit /\ alive[p] /\ vis[p] = "private" /\ req[p] = None /\ Unblocked(p, Pending)
     /\ IF auto THEN GroupOK(plan) /\ Widened(plan) /\ UNCHANGED <<req, group>>
                ELSE /\ req' = [n \in Plugins |-> IF n \in plan.changes
                                  THEN Request("group", pub[n], {}, p) ELSE req[n]]
                     /\ group' = [group EXCEPT ![p] = plan]
                     /\ UNCHANGED <<vis, approved>>
     /\ UNCHANGED <<draft, rel, pub, list, alive, susp>>

PlanCurrent(p) ==
  LET others == Pending \ group[p].changes
  IN Unblocked(p, others) /\ buildVisibilityPlan(p, others) = group[p]

(* Any member's approval decides the group: the plan is rebuilt and must   *)
(* be the confirmed one, all audiences are swapped, all graphs validated.  *)
applyVisibilityGroup(p) ==
  /\ Commit /\ group[p] # None /\ PlanCurrent(p)
  /\ GroupOK(group[p]) /\ Widened(group[p])
  /\ req' = [n \in Plugins |-> IF n \in group[p].changes THEN None ELSE req[n]]
  /\ group' = [group EXCEPT ![p] = None]
  /\ UNCHANGED <<draft, rel, pub, list, alive, susp>>

(* The listed plugins of a wider audience that use p in some release, and  *)
(* the listed users of those.                                              *)
Affected(p) ==
  LET listed == {n \in Experts \cup Teams : n # p /\ Listed(n)}
      first == {n \in listed : vis[n] = "space" /\
                  \E x \in AllEdges(n) : x[1] = p \/ p \in Targets(rel[x[1]][x[2]])}
  IN first \cup {n \in listed : Targets(AllEdges(n)) \cap first # {}}

PlanNarrow(p) ==
  /\ Commit /\ alive[p] /\ list[p] \in {"published", "delisted"}
  /\ vis[p] = "space" /\ req[p] = None
  /\ vis' = [vis EXCEPT ![p] = "private"]
  /\ list' = [n \in Plugins |-> IF n \in Affected(p) THEN "delisted" ELSE list[n]]
  /\ Suspended(Affected(p))
  /\ UNCHANGED <<draft, rel, pub, alive, req, group, approved>>

-----------------------------------------------------------------------------
Next ==
  \E p \in Plugins :
    \/ \E R \in Relations(p), v \in Audiences : Save(p, R, v)
    \/ \E l \in Labels : PublishManaged(p, l)
    \/ \E l \in Labels : InsertReviewRequest(p, l)
    \/ approveManagedReview(p)
    \/ RejectOrCancel(p)
    \/ \E T \in SUBSET Below(p), l \in Labels, auto \in BOOLEAN :
            SubmitDependencyUpdates(p, T, l, auto)
    \/ DelistPlugin(p)
    \/ Delete(p)
    \/ Narrow(p)
    \/ \E auto \in BOOLEAN : Widen(p, auto)
    \/ approveVisibilityReview(p)
    \/ \E auto \in BOOLEAN : PlanWiden(p, auto)
    \/ applyVisibilityGroup(p)
    \/ PlanNarrow(p)

Spec == Init /\ [][Next]_vars

-----------------------------------------------------------------------------
(* Whatever is listed can be used by those who see it: its published       *)
(* release pins listed plugins, every node below it is alive, released and *)
(* readable for the root's audience.                                       *)
ListedIsUsable ==
  \A p \in Plugins : Listed(p) =>
     /\ pub[p] # 0
     /\ \A x \in rel[p][pub[p]] :
          /\ Listed(x[1])
          /\ \A y \in {x} \cup rel[x[1]][x[2]] :
               alive[y[1]] /\ PinReleased(y) /\ Audience(vis[p], vis[y[1]])

(* A plugin that a published graph needs cannot be deleted, even while the *)
(* graph's owner is itself taken down: its return would find a hole.       *)
ProtectedTargets ==
  \A n, q \in Plugins : alive[n] /\ Uses(n, q) => alive[q]

(* What the Space can see was approved for the Space: no detour over a     *)
(* private release, a relabelled draft or a group shows it another one.    *)
SpaceSeesApproved ==
  \A p \in Plugins : Listed(p) /\ vis[p] = "space" => <<p, pub[p]>> \in approved

(* While a group waits, each of its members is as it was confirmed: one    *)
(* open request, the same release, still to be changed.  No member is left *)
(* pending once its group is settled.                                      *)
GroupHolds ==
  \A r \in Plugins :
     IF group[r] = None THEN \A n \in Plugins : Grouped(n) => req[n].root # r
     ELSE \A n \in group[r].changes :
        /\ alive[n] /\ vis[n] = group[r].baseline[n][1]
        /\ pub[n] = group[r].baseline[n][3]
        /\ req[n] # None /\ req[n].root = r

(* A suspension is in force until the plugin is released again.            *)
SuspendedIsDown == \A p \in Plugins : susp[p] => list[p] # "published"

KeepsReleases ==
  \A p \in Plugins : \A l \in DOMAIN rel[p] :
     l \in DOMAIN rel'[p] /\ rel'[p][l] = rel[p][l]

BackToHead ==
  \A p \in Plugins : alive[p] /\ pub'[p] < pub[p] =>
     pub'[p] \in DOMAIN rel[p] /\ draft[p].of = pub'[p]

(* The catalogue under version management: what is listed can be used, was *)
(* approved for those who see it and keeps what it needs.                  *)
CatalogueSound ==
  /\ ListedIsUsable
  /\ ProtectedTargets
  /\ SpaceSeesApproved
  /\ GroupHolds
  /\ SuspendedIsDown

(* A release, once recorded, keeps its content for good, and what is       *)
(* published goes back to an earlier label only where the head is that     *)
(* release and is published again (recordRelease compares new labels       *)
(* only).                                                                  *)
HistoryKept == [][KeepsReleases /\ BackToHead]_vars
=============================================================================
