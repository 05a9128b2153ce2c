------------------------- MODULE ManagedCatalogProofs -------------------------
(***************************************************************************)
(* The managed catalogue keeps its promises for any number of plugins,     *)
(* labels and transactions.  What makes them inductive: the pins of a      *)
(* release are themselves released and stay so, the head that says it is   *)
(* a release has that release's relations, and the open requests of a      *)
(* group and its plan name each other.                                     *)
(***************************************************************************)
EXTENDS ManagedCatalog, TLAPS

(* A leaf that names no prover is left to Zenon: most need no more than    *)
(* first-order reasoning about the facts they cite.                        *)
USE Zenon

Pins == Plugins \X Labels
Shelves == UNION {[D -> SUBSET Pins] : D \in SUBSET Labels}
Drafts == [rels : SUBSET Pins, of : {0} \cup Labels]
Requests == [kind : {"release", "visibility", "group"}, label : {0} \cup Labels,
             rels : SUBSET Pins, root : Plugins \cup {None}]

(* What the proofs assume of the constants: a plugin has one type, and     *)
(* None is neither a request nor a plan.                                   *)
Setting ==
  /\ MaxLabel \in Nat \ {0} /\ MaxMoves \in Nat
  /\ Skills \cap Experts = {} /\ Skills \cap Teams = {} /\ Experts \cap Teams = {}
  /\ None \notin Requests /\ \A C, B : [changes |-> C, baseline |-> B] # None

CatTyped ==
  /\ draft \in [Plugins -> Drafts] /\ rel \in [Plugins -> Shelves]
  /\ pub \in [Plugins -> {0} \cup Labels]
  /\ list \in [Plugins -> {"draft", "published", "delisted"}]
  /\ vis \in [Plugins -> Audiences]
  /\ alive \in [Plugins -> BOOLEAN] /\ susp \in [Plugins -> BOOLEAN]
  /\ req \in [Plugins -> Requests \cup {None}] /\ DOMAIN group = Plugins
  /\ approved \subseteq Plugins \X Labels /\ moves \in 0..MaxMoves

(* The graph of releases: typed by the relation matrix, and every pin of a *)
(* release is a release.                                                   *)
GraphSound ==
  /\ \A p \in Plugins : \A l \in DOMAIN rel[p] :
       rel[p][l] \in Relations(p) /\ \A x \in rel[p][l] : PinReleased(x)
  /\ \A p \in Plugins : pub[p] \in {0} \cup DOMAIN rel[p]

(* The head: a draft that says which release it is has its relations.      *)
HeadSound ==
  \A p \in Plugins :
    /\ draft[p].rels \in Relations(p) /\ draft[p].of \in {0} \cup DOMAIN rel[p]
    /\ alive[p] /\ draft[p].of # 0 => rel[p][draft[p].of] = draft[p].rels
    /\ req[p] # None =>
         req[p].rels \in Relations(p) /\ (req[p].kind = "release" => req[p].label \in Labels)

(* A plan and the open requests of its group name each other.              *)
GroupSound ==
  /\ \A r \in Plugins : group[r] # None =>
       /\ r \in group[r].changes /\ group[r].changes \subseteq Plugins
       /\ \A n \in group[r].changes :
            /\ Grouped(n) /\ req[n].root = r /\ alive[n] /\ vis[n] = "private"
            /\ vis[n] = group[r].baseline[n][1] /\ pub[n] = group[r].baseline[n][3]
  /\ \A n \in Plugins : Grouped(n) =>
       /\ req[n].root \in Plugins /\ group[req[n].root] # None
       /\ n \in group[req[n].root].changes

(* The promises about what is listed.                                      *)
ListingSound == ListedIsUsable /\ ProtectedTargets /\ SpaceSeesApproved /\ SuspendedIsDown

CatInv == CatTyped /\ GraphSound /\ HeadSound /\ GroupSound /\ ListingSound


-----------------------------------------------------------------------------
(* A release pins a plugin of the type below.                              *)
LEMMA Ranks ==
  ASSUME Setting, NEW n \in Plugins, NEW R \in Relations(n), NEW x \in R
  PROVE  /\ x[1] \in Plugins /\ x[2] \in Labels /\ n # x[1]
         /\ (n \in Experts /\ x[1] \in Skills) \/ (n \in Teams /\ x[1] \in Experts)
  <1>1. x \in Below(n) \X Labels
    BY DEF Relations
  <1> QED BY <1>1 DEF Below, Plugins, Setting

(* recordRelease adds a release and leaves every other one.                *)
LEMMA ReleaseEffect ==
  ASSUME CatTyped, NEW p \in Plugins, NEW label \in Labels, NEW R \in SUBSET Pins,
         recordRelease(p, label, R), label \in DOMAIN rel[p] => rel[p][label] = R
  PROVE  /\ rel' \in [Plugins -> Shelves] /\ pub' \in [Plugins -> {0} \cup Labels]
         /\ list' \in [Plugins -> {"draft", "published", "delisted"}]
         /\ susp' \in [Plugins -> BOOLEAN]
         /\ \A q \in Plugins : q # p => /\ rel'[q] = rel[q] /\ pub'[q] = pub[q]
                                        /\ list'[q] = list[q] /\ susp'[q] = susp[q]
         /\ DOMAIN rel'[p] = DOMAIN rel[p] \cup {label} /\ rel'[p][label] = R
         /\ \A l \in DOMAIN rel[p] : rel'[p][l] = rel[p][l]
         /\ pub'[p] = label /\ list'[p] = "published" /\ ~susp'[p]
  <1> DEFINE new == [l \in DOMAIN rel[p] \cup {label} |-> IF l = label THEN R ELSE rel[p][l]]
  <1>1. rel[p] \in Shelves
    BY DEF CatTyped
  <1>2. PICK D \in SUBSET Labels : rel[p] \in [D -> SUBSET Pins]
    BY <1>1 DEF Shelves
  <1>3. new = [l \in D \cup {label} |-> IF l = label THEN R ELSE rel[p][l]]
    BY <1>2
  <1>4. new \in [D \cup {label} -> SUBSET Pins] /\ D \cup {label} \in SUBSET Labels
    BY <1>2, <1>3
  <1>5. new \in Shelves
    BY <1>4 DEF Shelves
  <1>6. /\ DOMAIN new = DOMAIN rel[p] \cup {label} /\ new[label] = R
        /\ \A l \in DOMAIN rel[p] : new[l] = rel[p][l]
    BY <1>2, <1>3
  <1>7. rel' = [rel EXCEPT ![p] = new]
    BY DEF recordRelease
  <1> HIDE DEF new
  <1> QED BY SMT, <1>5, <1>6, <1>7 DEF CatTyped, recordRelease


-----------------------------------------------------------------------------
(* A release: what PublishManaged, approveManagedReview and                *)
(* SubmitDependencyUpdates have in common.                                 *)
ReleaseStep(p, label, R) ==
  /\ recordRelease(p, label, R) /\ UNCHANGED <<vis, alive, group>>
  /\ EdgesOK(vis, p, R, {}) /\ (label \in DOMAIN rel[p] => rel[p][label] = R)
  /\ approved \subseteq approved' /\ approved' \subseteq Plugins \X Labels
  /\ vis[p] = "space" => <<p, label>> \in approved'
  /\ ~Grouped(p) /\ req' \in [Plugins -> Requests \cup {None}] /\ req'[p] \in {None, req[p]}
  /\ draft' \in [Plugins -> Drafts] /\ draft'[p].rels \in Relations(p)
  /\ draft'[p] = draft[p] \/ draft'[p].of = 0 \/ (draft'[p].of = label /\ draft'[p].rels = R)
  /\ \A q \in Plugins : q # p => req'[q] = req[q] /\ draft'[q] = draft[q]
  /\ moves' \in 0..MaxMoves

LEMMA ReleaseShape ==
  ASSUME Setting, CatInv, NEW p \in Plugins, NEW label \in Labels, NEW R \in Relations(p),
         ReleaseStep(p, label, R)
  PROVE  /\ CatTyped'
         /\ \A q \in Plugins : q # p => /\ rel'[q] = rel[q] /\ pub'[q] = pub[q]
                                        /\ list'[q] = list[q] /\ susp'[q] = susp[q]
         /\ DOMAIN rel'[p] = DOMAIN rel[p] \cup {label} /\ rel'[p][label] = R
         /\ \A l \in DOMAIN rel[p] : rel'[p][l] = rel[p][l]
         /\ pub'[p] = label /\ list'[p] = "published" /\ ~susp'[p]
  <1>1. CatTyped /\ recordRelease(p, label, R) /\ (label \in DOMAIN rel[p] => rel[p][label] = R)
    BY DEF CatInv, ReleaseStep
  <1>2. R \in SUBSET Pins
    BY Ranks DEF Relations, Pins, Below, Plugins
  <1>3. /\ rel' \in [Plugins -> Shelves] /\ pub' \in [Plugins -> {0} \cup Labels]
        /\ list' \in [Plugins -> {"draft", "published", "delisted"}]
        /\ susp' \in [Plugins -> BOOLEAN]
        /\ \A q \in Plugins : q # p => /\ rel'[q] = rel[q] /\ pub'[q] = pub[q]
                                       /\ list'[q] = list[q] /\ susp'[q] = susp[q]
        /\ DOMAIN rel'[p] = DOMAIN rel[p] \cup {label} /\ rel'[p][label] = R
        /\ \A l \in DOMAIN rel[p] : rel'[p][l] = rel[p][l]
        /\ pub'[p] = label /\ list'[p] = "published" /\ ~susp'[p]
    BY <1>1, <1>2, ReleaseEffect
  <1>4. CatTyped'
    BY <1>1, <1>3 DEF CatTyped, ReleaseStep
  <1> QED BY <1>3, <1>4

(* Released content stays, everywhere.                                     *)
LEMMA ReleaseKeeps ==
  ASSUME Setting, CatInv, NEW p \in Plugins, NEW label \in Labels, NEW R \in Relations(p),
         ReleaseStep(p, label, R)
  PROVE  \A q \in Plugins : \A l \in DOMAIN rel[q] :
           l \in DOMAIN rel'[q] /\ rel'[q][l] = rel[q][l]
  BY SMT, ReleaseShape

LEMMA ReleaseGraph ==
  ASSUME Setting, CatInv, NEW p \in Plugins, NEW label \in Labels, NEW R \in Relations(p),
         ReleaseStep(p, label, R)
  PROVE  GraphSound'
  <1>1. ASSUME NEW q \in Plugins, NEW l \in DOMAIN rel'[q]
        PROVE  rel'[q][l] \in Relations(q) /\ \A x \in rel'[q][l] : PinReleased(x)'
    <2>1. CASE q = p /\ l = label
      <3>1. rel'[q][l] = R
        BY <2>1, ReleaseShape
      <3>2. ASSUME NEW x \in R PROVE PinReleased(x)'
        <4>1. x[1] \in Plugins /\ PinReleased(x)
          BY <3>2, Ranks DEF ReleaseStep, EdgesOK
        <4> QED BY <4>1, ReleaseKeeps DEF PinReleased
      <3> QED BY <2>1, <3>1, <3>2
    <2>2. CASE ~(q = p /\ l = label)
      <3>1. l \in DOMAIN rel[q] /\ rel'[q][l] = rel[q][l]
        BY SMT, <1>1, <2>2, ReleaseShape
      <3>2. rel[q][l] \in Relations(q) /\ \A x \in rel[q][l] : PinReleased(x)
        BY <3>1 DEF CatInv, GraphSound
      <3>3. ASSUME NEW x \in rel[q][l] PROVE PinReleased(x)'
        <4>1. x[1] \in Plugins /\ PinReleased(x)
          BY <3>2, <3>3, Ranks
        <4> QED BY <4>1, ReleaseKeeps DEF PinReleased
      <3> QED BY <3>1, <3>2, <3>3
    <2> QED BY <2>1, <2>2
  <1>2. \A q \in Plugins : pub'[q] \in {0} \cup DOMAIN rel'[q]
    BY SMT, ReleaseShape DEF CatInv, GraphSound
  <1> QED BY <1>1, <1>2 DEF GraphSound

LEMMA ReleaseHead ==
  ASSUME Setting, CatInv, NEW p \in Plugins, NEW label \in Labels, NEW R \in Relations(p),
         ReleaseStep(p, label, R)
  PROVE  HeadSound'
  <1> SUFFICES ASSUME NEW q \in Plugins
               PROVE  /\ draft'[q].rels \in Relations(q)
                      /\ draft'[q].of \in {0} \cup DOMAIN rel'[q]
                      /\ alive'[q] /\ draft'[q].of # 0 => rel'[q][draft'[q].of] = draft'[q].rels
                      /\ req'[q] # None =>
                           /\ req'[q].rels \in Relations(q)
                           /\ req'[q].kind = "release" => req'[q].label \in Labels
    BY DEF HeadSound
  <1>1. /\ draft[q].rels \in Relations(q) /\ draft[q].of \in {0} \cup DOMAIN rel[q]
        /\ alive[q] /\ draft[q].of # 0 => rel[q][draft[q].of] = draft[q].rels
        /\ req[q] # None => /\ req[q].rels \in Relations(q)
                            /\ req[q].kind = "release" => req[q].label \in Labels
    BY DEF CatInv, HeadSound
  <1>2. CASE q # p
    BY SMT, <1>1, <1>2, ReleaseShape DEF ReleaseStep
  <1>3. CASE q = p
    BY SMT, <1>1, <1>3, ReleaseShape DEF ReleaseStep
  <1> QED BY <1>2, <1>3

LEMMA ReleaseGroup ==
  ASSUME Setting, CatInv, NEW p \in Plugins, NEW label \in Labels, NEW R \in Relations(p),
         ReleaseStep(p, label, R)
  PROVE  GroupSound'
  <1>1. /\ UNCHANGED <<vis, alive, group>> /\ ~Grouped(p) /\ ~Grouped(p)'
        /\ \A q \in Plugins : q # p => req'[q] = req[q] /\ pub'[q] = pub[q]
    BY SMT, ReleaseShape DEF ReleaseStep, Grouped
  <1>2. \A r \in Plugins : group[r] # None => p \notin group[r].changes
    BY <1>1 DEF CatInv, GroupSound
  <1> QED BY SMT, <1>1, <1>2 DEF CatInv, GroupSound, Grouped

(* What the transaction validated is usable below the new release.         *)
LEMMA ReleaseListing ==
  ASSUME Setting, CatInv, NEW p \in Plugins, NEW label \in Labels, NEW R \in Relations(p),
         ReleaseStep(p, label, R)
  PROVE  ListingSound'
  <1>0. /\ EdgesOK(vis, p, R, {}) /\ UNCHANGED <<vis, alive>>
        /\ \A q \in Plugins : Listed(q) => Listed(q)'
        /\ \A q \in Plugins : q # p => (Listed(q)' <=> Listed(q))
    BY ReleaseShape DEF ReleaseStep, Listed
  <1>1. ASSUME NEW q \in Plugins, NEW l \in DOMAIN rel[q], NEW x \in rel[q][l]
        PROVE  /\ x[1] \in Plugins /\ PinReleased(x) /\ PinReleased(x)'
               /\ rel'[x[1]][x[2]] = rel[x[1]][x[2]]
    <2>1. x[1] \in Plugins /\ PinReleased(x)
      BY <1>1, Ranks DEF CatInv, GraphSound
    <2> QED BY <2>1, ReleaseKeeps DEF PinReleased
  <1>2. ASSUME NEW x \in R
        PROVE  /\ x[1] \in Plugins /\ x[1] # p /\ Listed(x[1]) /\ PinReleased(x)
               /\ PinReleased(x)' /\ rel'[x[1]][x[2]] = rel[x[1]][x[2]]
               /\ \A y \in {x} \cup rel[x[1]][x[2]] :
                    alive[y[1]] /\ PinReleased(y)' /\ Audience(vis[p], vis[y[1]])
    <2>1. x[1] \in Plugins /\ x[1] # p
      BY Ranks
    <2>2. Listed(x[1]) /\ PinReleased(x) /\ Audience(vis[p], vis[x[1]]) /\ NestedOK(vis, p, x)
      BY <1>0 DEF EdgesOK, Listed
    <2>3. PinReleased(x)' /\ rel'[x[1]][x[2]] = rel[x[1]][x[2]]
      BY <2>1, <2>2, ReleaseKeeps DEF PinReleased
    <2>4. \A y \in rel[x[1]][x[2]] : alive[y[1]] /\ PinReleased(y)' /\ Audience(vis[p], vis[y[1]])
      BY <1>1, <2>1, <2>2 DEF NestedOK, PinReleased
    <2> QED BY <2>1, <2>2, <2>3, <2>4 DEF Listed
  <1>3. ListedIsUsable'
    <2> SUFFICES ASSUME NEW q \in Plugins, Listed(q)'
                 PROVE  /\ pub'[q] # 0
                        /\ \A x \in rel'[q][pub'[q]] :
                             /\ Listed(x[1])'
                             /\ \A y \in {x} \cup rel'[x[1]][x[2]] :
                                  alive'[y[1]] /\ PinReleased(y)' /\ Audience(vis'[q], vis'[y[1]])
      BY DEF ListedIsUsable
    <2>1. CASE q = p
      BY SMT, <1>0, <1>2, <2>1, ReleaseShape DEF Labels
    <2>2. CASE q # p
      <3>1. /\ Listed(q) /\ pub'[q] = pub[q] /\ rel'[q] = rel[q]
            /\ pub[q] # 0 /\ pub[q] \in DOMAIN rel[q]
        BY <1>0, <2>2, ReleaseShape DEF CatInv, GraphSound, ListingSound, ListedIsUsable
      <3>2. ASSUME NEW x \in rel[q][pub[q]]
            PROVE  /\ Listed(x[1])'
                   /\ \A y \in {x} \cup rel'[x[1]][x[2]] :
                        alive[y[1]] /\ PinReleased(y)' /\ Audience(vis[q], vis[y[1]])
        <4>1. /\ x[1] \in Plugins /\ PinReleased(x) /\ PinReleased(x)'
              /\ rel'[x[1]][x[2]] = rel[x[1]][x[2]]
          BY <1>1, <3>1, <3>2
        <4>2. /\ Listed(x[1])
              /\ \A y \in {x} \cup rel[x[1]][x[2]] :
                   alive[y[1]] /\ PinReleased(y) /\ Audience(vis[q], vis[y[1]])
          BY <3>1, <3>2 DEF CatInv, ListingSound, ListedIsUsable
        <4>3. \A y \in rel[x[1]][x[2]] : PinReleased(y)'
          BY <1>1, <4>1 DEF PinReleased
        <4> QED BY <1>0, <4>1, <4>2, <4>3
      <3> QED BY <1>0, <3>1, <3>2
    <2> QED BY <2>1, <2>2
  <1>4. ProtectedTargets'
    <2> SUFFICES ASSUME NEW n \in Plugins, NEW q \in Plugins, alive'[n], Uses(n, q)'
                 PROVE  alive'[q]
      BY DEF ProtectedTargets
    <2>1. PICK x \in rel'[n][pub'[n]] :
            pub'[n] # 0 /\ (x[1] = q \/ \E y \in rel'[x[1]][x[2]] : y[1] = q)
      BY DEF Uses, Targets
    <2>2. CASE n = p
      <3>1. x \in R
        BY SMT, <2>1, <2>2, ReleaseShape
      <3> QED BY <1>0, <1>2, <2>1, <3>1
    <2>3. CASE n # p
      <3>1. pub'[n] = pub[n] /\ rel'[n] = rel[n] /\ pub[n] \in DOMAIN rel[n] /\ pub[n] # 0
        BY SMT, <2>1, <2>3, ReleaseShape DEF CatInv, GraphSound
      <3>2. rel'[x[1]][x[2]] = rel[x[1]][x[2]]
        BY <1>1, <2>1, <3>1
      <3>3. Uses(n, q)
        BY <2>1, <3>1, <3>2 DEF Uses, Targets
      <3> QED BY <1>0, <3>3 DEF CatInv, ListingSound, ProtectedTargets
    <2> QED BY <2>2, <2>3
  <1>5. SpaceSeesApproved'
    BY SMT, <1>0, ReleaseShape
       DEF CatInv, ListingSound, SpaceSeesApproved, ReleaseStep
  <1>6. SuspendedIsDown'
    BY SMT, ReleaseShape DEF CatInv, ListingSound, SuspendedIsDown
  <1> QED BY <1>3, <1>4, <1>5, <1>6 DEF ListingSound

LEMMA ReleaseSound ==
  ASSUME Setting, CatInv, NEW p \in Plugins, NEW label \in Labels, NEW R \in Relations(p),
         ReleaseStep(p, label, R)
  PROVE  CatInv'
  BY ReleaseShape, ReleaseGraph, ReleaseHead, ReleaseGroup, ReleaseListing DEF CatInv


-----------------------------------------------------------------------------
(* Steps that leave the releases, the listing and the audiences.           *)
LEMMA QuietSound ==
  ASSUME CatInv, CatTyped', HeadSound', GroupSound',
         UNCHANGED <<rel, pub, list, vis, alive, susp, approved>>
  PROVE  CatInv'
  <1>1. GraphSound'
    BY DEF CatInv, GraphSound, PinReleased
  <1>2. ListingSound'
    BY DEF CatInv, ListingSound, ListedIsUsable, ProtectedTargets, SpaceSeesApproved,
           SuspendedIsDown, Listed, Uses, PinReleased
  <1> QED BY <1>1, <1>2 DEF CatInv

(* Nothing a group has recorded of its plugins changes.                    *)
LEMMA GroupsKept ==
  ASSUME GroupSound, UNCHANGED <<pub, alive, req, group>>,
         \A r \in Plugins : group[r] # None => \A n \in group[r].changes : vis'[n] = vis[n]
  PROVE  GroupSound'
  <1>1. \A n : Grouped(n)' <=> Grouped(n)
    BY DEF Grouped
  <1>2. ASSUME NEW r \in Plugins, group[r] # None
        PROVE  /\ r \in group[r].changes /\ group[r].changes \subseteq Plugins
               /\ \A n \in group[r].changes :
                    /\ Grouped(n) /\ req[n].root = r /\ alive[n] /\ vis'[n] = "private"
                    /\ vis'[n] = group[r].baseline[n][1] /\ pub[n] = group[r].baseline[n][3]
    BY SMT, <1>2 DEF GroupSound
  <1>3. \A n \in Plugins : Grouped(n) => /\ req[n].root \in Plugins /\ group[req[n].root] # None
                                          /\ n \in group[req[n].root].changes
    BY DEF GroupSound
  <1> HIDE DEF Grouped
  <1> QED BY SMT, <1>1, <1>2, <1>3 DEF GroupSound

(* A request of p, not of a group, is opened or closed, or none.           *)
LEMMA OwnRequest ==
  ASSUME CatInv, NEW p \in Plugins, ~Grouped(p), ~Grouped(p)',
         \A q \in Plugins : q # p => /\ req'[q] = req[q] /\ vis'[q] = vis[q]
                                     /\ pub'[q] = pub[q] /\ alive'[q] = alive[q],
         UNCHANGED group
  PROVE  GroupSound'
  <1>1. \A r \in Plugins : group[r] # None => p \notin group[r].changes
    BY DEF CatInv, GroupSound
  <1> QED BY SMT, <1>1 DEF CatInv, GroupSound, Grouped

LEMMA CommitTyped ==
  ASSUME Setting, CatTyped, Commit
  PROVE  moves' \in 0..MaxMoves
  BY SMT DEF Setting, CatTyped, Commit

LEMMA RelationsArePins ==
  ASSUME NEW p \in Plugins, NEW R \in Relations(p)
  PROVE  R \in SUBSET Pins
  BY DEF Relations, Pins, Below, Plugins

(* What the release transactions check makes the release a sound one.      *)
LEMMA ReleasableLabel ==
  ASSUME CatInv, NEW p \in Plugins, NEW label \in Labels, NEW R, NEW same \in BOOLEAN,
         Releasable(p, label, R, same)
  PROVE  /\ EdgesOK(vis, p, R, {})
         /\ ~same => label \notin DOMAIN rel[p] /\ (pub[p] = 0 \/ label > pub[p])
         /\ label \notin DOMAIN rel[p] => pub[p] = 0 \/ label > pub[p]
  BY DEF Releasable, validateReferenceTree

LEMMA PublishStep ==
  ASSUME Setting, CatInv, NEW p \in Plugins, NEW label \in Labels, PublishManaged(p, label)
  PROVE  draft[p].rels \in Relations(p) /\ ReleaseStep(p, label, draft[p].rels)
  <1> DEFINE d == [draft[p] EXCEPT !.of = label]
  <1>0. /\ CatTyped /\ draft[p].rels \in Relations(p) /\ draft[p] \in Drafts
        /\ alive[p] /\ draft[p].of # 0 => rel[p][draft[p].of] = draft[p].rels
    BY DEF CatInv, CatTyped, HeadSound
  <1>1. /\ alive[p] /\ vis[p] = "private" /\ req[p] = None
        /\ recordRelease(p, label, draft[p].rels) /\ draft' = [draft EXCEPT ![p] = d]
        /\ UNCHANGED <<vis, alive, req, group, approved>>
    BY DEF PublishManaged
  <1>2. d \in Drafts /\ d.of = label /\ d.rels = draft[p].rels
    BY <1>0 DEF Drafts
  <1>3. EdgesOK(vis, p, draft[p].rels, {}) /\ (label \in DOMAIN rel[p] => draft[p].of = label)
    BY DEF PublishManaged, Releasable, validateReferenceTree
  <1>4. label # 0 /\ moves' \in 0..MaxMoves
    BY SMT, <1>0, CommitTyped DEF Labels, PublishManaged
  <1> HIDE DEF d
  <1>5. /\ draft' \in [Plugins -> Drafts] /\ draft'[p] = d
        /\ \A q \in Plugins : q # p => draft'[q] = draft[q]
    BY <1>0, <1>1, <1>2 DEF CatTyped
  <1> QED BY <1>0, <1>1, <1>2, <1>3, <1>4, <1>5 DEF ReleaseStep, CatTyped, Grouped

LEMMA ApproveStep ==
  ASSUME Setting, CatInv, NEW p \in Plugins, approveManagedReview(p)
  PROVE  /\ req[p].label \in Labels /\ req[p].label \notin DOMAIN rel[p]
         /\ pub[p] = 0 \/ req[p].label > pub[p]
         /\ req[p].rels \in Relations(p) /\ ReleaseStep(p, req[p].label, req[p].rels)
  <1>0. /\ CatTyped /\ draft[p].rels \in Relations(p) /\ req[p].rels \in Relations(p)
        /\ req[p].label \in Labels
    BY DEF CatInv, HeadSound, approveManagedReview
  <1>1. /\ req[p].kind = "release"
        /\ recordRelease(p, req[p].label, req[p].rels)
        /\ approved' = approved \cup {<<p, req[p].label>>} /\ req' = [req EXCEPT ![p] = None]
        /\ UNCHANGED <<draft, vis, alive, group>>
        /\ EdgesOK(vis, p, req[p].rels, {}) /\ req[p].label \notin DOMAIN rel[p]
        /\ pub[p] = 0 \/ req[p].label > pub[p]
    BY DEF approveManagedReview, Closed, Releasable, validateReferenceTree
  <1>2. moves' \in 0..MaxMoves
    BY <1>0, CommitTyped DEF approveManagedReview
  <1>3. /\ req' \in [Plugins -> Requests \cup {None}] /\ req'[p] = None
        /\ \A q \in Plugins : q # p => req'[q] = req[q]
    BY <1>0, <1>1 DEF CatTyped
  <1> QED BY SMT, <1>0, <1>1, <1>2, <1>3 DEF ReleaseStep, CatTyped, Grouped


LEMMA InsertSound ==
  ASSUME Setting, CatInv, NEW p \in Plugins, NEW label \in Labels, InsertReviewRequest(p, label)
  PROVE  CatInv'
  <1> DEFINE k == Request("release", label, draft[p].rels, None)
  <1>0. CatTyped /\ draft[p].rels \in Relations(p) /\ moves' \in 0..MaxMoves
    BY CommitTyped DEF CatInv, HeadSound, InsertReviewRequest
  <1>1. /\ req[p] = None /\ req' = [req EXCEPT ![p] = k]
        /\ UNCHANGED <<draft, rel, pub, list, vis, alive, susp, group, approved>>
    BY DEF InsertReviewRequest, Submittable
  <1>2. k \in Requests /\ k.kind = "release" /\ k.rels = draft[p].rels /\ k.label = label
    BY <1>0, RelationsArePins DEF Request, Requests
  <1> HIDE DEF k
  <1>3. /\ req' \in [Plugins -> Requests \cup {None}] /\ req'[p] = k
        /\ \A q \in Plugins : q # p => req'[q] = req[q]
    BY <1>0, <1>1, <1>2 DEF CatTyped
  <1>4. CatTyped'
    BY <1>0, <1>1, <1>3 DEF CatTyped
  <1>5. HeadSound'
    BY <1>0, <1>1, <1>2, <1>3 DEF CatInv, HeadSound
  <1>6. GroupSound'
    BY <1>1, <1>2, <1>3, OwnRequest DEF Grouped
  <1> QED BY <1>1, <1>4, <1>5, <1>6, QuietSound

(* A group is settled as a whole.                                          *)
LEMMA RejectSound ==
  ASSUME Setting, CatInv, NEW p \in Plugins, RejectOrCancel(p)
  PROVE  CatInv'
  <1>0. /\ CatTyped /\ moves' \in 0..MaxMoves
        /\ UNCHANGED <<draft, rel, pub, list, vis, alive, susp, approved>>
    BY CommitTyped DEF CatInv, RejectOrCancel
  <1>1. CASE ~Grouped(p)
    <2>1. req' = [req EXCEPT ![p] = None] /\ UNCHANGED group
      BY <1>1 DEF RejectOrCancel, Closed
    <2>2. /\ req' \in [Plugins -> Requests \cup {None}] /\ req'[p] = None
          /\ \A q \in Plugins : q # p => req'[q] = req[q]
      BY <1>0, <2>1 DEF CatTyped
    <2>3. CatTyped' /\ HeadSound'
      BY <1>0, <2>1, <2>2 DEF CatInv, CatTyped, HeadSound
    <2>4. GroupSound'
      BY <1>0, <1>1, <2>1, <2>2, OwnRequest DEF Grouped
    <2> QED BY <1>0, <2>3, <2>4, QuietSound
  <1>2. CASE Grouped(p)
    <2>1. PICK r \in Plugins : r = req[p].root
      BY <1>2 DEF CatInv, GroupSound
    <2>2. /\ req' = [q \in Plugins |-> IF Grouped(q) /\ req[q].root = r THEN None ELSE req[q]]
          /\ group' = [group EXCEPT ![r] = None]
      BY <1>2, <2>1 DEF RejectOrCancel
    <2>3. /\ req' \in [Plugins -> Requests \cup {None}]
          /\ \A q \in Plugins : req'[q] = req[q] \/ (req'[q] = None /\ Grouped(q) /\ req[q].root = r)
          /\ \A q \in Plugins : Grouped(q) /\ req[q].root = r => req'[q] = None
      BY <1>0, <2>2 DEF CatTyped
    <2>4. /\ DOMAIN group' = Plugins /\ group'[r] = None
          /\ \A q \in Plugins : q # r => group'[q] = group[q]
      BY <1>0, <2>2 DEF CatTyped
    <2>5. CatTyped' /\ HeadSound'
      BY <1>0, <2>3, <2>4 DEF CatInv, CatTyped, HeadSound
    <2>6. GroupSound'
      <3>1. ASSUME NEW s \in Plugins, group'[s] # None
            PROVE  /\ s \in group'[s].changes /\ group'[s].changes \subseteq Plugins
                   /\ \A n \in group'[s].changes :
                        /\ Grouped(n)' /\ req'[n].root = s /\ alive'[n] /\ vis'[n] = "private"
                        /\ vis'[n] = group'[s].baseline[n][1] /\ pub'[n] = group'[s].baseline[n][3]
        <4>1. s # r /\ group'[s] = group[s] /\ group[s] # None
          BY <2>4, <3>1
        <4>2. \A n \in group[s].changes : n \in Plugins /\ req'[n] = req[n]
          BY SMT, <2>3, <4>1 DEF CatInv, GroupSound
        <4> QED BY SMT, <1>0, <4>1, <4>2 DEF CatInv, GroupSound, Grouped
      <3>2. ASSUME NEW n \in Plugins, Grouped(n)'
            PROVE  /\ req'[n].root \in Plugins /\ group'[req'[n].root] # None
                   /\ n \in group'[req'[n].root].changes
        <4>1. req'[n] = req[n] /\ Grouped(n) /\ req[n].root # r
          BY <2>3, <3>2 DEF Grouped
        <4> QED BY SMT, <2>4, <4>1 DEF CatInv, GroupSound
      <3> QED BY <3>1, <3>2 DEF GroupSound
    <2> QED BY <1>0, <2>5, <2>6, QuietSound
  <1> QED BY <1>1, <1>2

(* Moving pins to what their targets have published keeps the matrix.      *)
LEMMA UpdatedRelations ==
  ASSUME Setting, CatInv, NEW p \in Plugins, NEW T,
         \A x \in draft[p].rels : x[1] \in T => alive[x[1]] /\ pub[x[1]] > x[2]
  PROVE  Updated(draft[p].rels, T) \in Relations(p)
  <1> DEFINE D == draft[p].rels
             new(x) == IF x[1] \in T THEN <<x[1], pub[x[1]]>> ELSE x
  <1>1. D \in Relations(p) /\ pub \in [Plugins -> {0} \cup Labels]
    BY DEF CatInv, HeadSound, CatTyped
  <1>2. ASSUME NEW x \in D PROVE new(x) \in Below(p) \X Labels /\ new(x)[1] = x[1]
    <2>1. x \in Below(p) \X Labels /\ x[1] \in Plugins /\ x[2] \in Labels
      BY SMT, <1>1, Ranks DEF Relations
    <2>2. x[1] \in T => pub[x[1]] \in Labels
      BY SMT, <1>1, <2>1 DEF Labels
    <2> QED BY <2>1, <2>2
  <1>3. \A x, y \in D : x[1] = y[1] => x = y
    BY <1>1 DEF Relations
  <1>4. Updated(D, T) = {new(x) : x \in D}
    BY DEF Updated
  <1> HIDE DEF new
  <1>5. Updated(D, T) \in SUBSET (Below(p) \X Labels)
    BY <1>2, <1>4
  <1>6. \A x, y \in Updated(D, T) : x[1] = y[1] => x = y
    <2>1. ASSUME NEW x \in Updated(D, T), NEW y \in Updated(D, T), x[1] = y[1] PROVE x = y
      <3>1. PICK a \in D : x = new(a)
        BY <1>4
      <3>2. PICK b \in D : y = new(b)
        BY <1>4
      <3>3. a = b
        BY <1>2, <1>3, <2>1, <3>1, <3>2
      <3> QED BY <3>1, <3>2, <3>3
    <2> QED BY <2>1
  <1> QED BY <1>5, <1>6 DEF Relations


(* A dependency update is a release of its own, or opens a request.        *)
LEMMA SubmitStep ==
  ASSUME Setting, CatInv, NEW p \in Plugins, NEW T, NEW label \in Labels, NEW auto \in BOOLEAN,
         SubmitDependencyUpdates(p, T, label, auto)
  PROVE  \/ CatInv' /\ UNCHANGED <<rel, pub>>
         \/ \E R \in Relations(p) : /\ ReleaseStep(p, label, R) /\ label \notin DOMAIN rel[p]
                                    /\ pub[p] = 0 \/ label > pub[p]
  <1>1. PICK R \in Relations(p) : R = Updated(draft[p].rels, T)
    BY UpdatedRelations DEF SubmitDependencyUpdates
  <1>2. /\ CatTyped /\ moves' \in 0..MaxMoves /\ req[p] = None /\ R \in SUBSET Pins
        /\ UNCHANGED <<vis, alive, group>>
    BY <1>1, CommitTyped, RelationsArePins DEF CatInv, SubmitDependencyUpdates
  <1>3. CASE /\ vis[p] = "private" /\ Releasable(p, label, R, FALSE)
             /\ recordRelease(p, label, R)
             /\ draft' = [draft EXCEPT ![p] = [rels |-> R, of |-> label]]
             /\ UNCHANGED <<req, approved>>
    <2>1. /\ EdgesOK(vis, p, R, {}) /\ label \notin DOMAIN rel[p]
          /\ pub[p] = 0 \/ label > pub[p]
      BY <1>3, ReleasableLabel
    <2>2. /\ draft' \in [Plugins -> Drafts] /\ draft'[p].of = label /\ draft'[p].rels = R
          /\ \A q \in Plugins : q # p => draft'[q] = draft[q]
      BY <1>2, <1>3 DEF CatTyped, Drafts
    <2>3. ReleaseStep(p, label, R)
      BY <1>2, <1>3, <2>1, <2>2 DEF ReleaseStep, CatTyped, Grouped
    <2> QED BY <2>1, <2>3
  <1>4. CASE /\ draft' = [draft EXCEPT ![p] = [rels |-> R, of |-> 0]]
             /\ Releasable(p, label, R, FALSE) /\ recordRelease(p, label, R)
             /\ approved' = approved \cup {<<p, label>>} /\ UNCHANGED req
    <2>1. /\ EdgesOK(vis, p, R, {}) /\ label \notin DOMAIN rel[p]
          /\ pub[p] = 0 \/ label > pub[p]
      BY <1>4, ReleasableLabel
    <2>2. /\ draft' \in [Plugins -> Drafts] /\ draft'[p].of = 0 /\ draft'[p].rels = R
          /\ \A q \in Plugins : q # p => draft'[q] = draft[q]
      BY <1>2, <1>4 DEF CatTyped, Drafts
    <2>3. ReleaseStep(p, label, R)
      BY SMT, <1>2, <1>4, <2>1, <2>2 DEF ReleaseStep, CatTyped, Grouped
    <2> QED BY <2>1, <2>3
  <1>5. CASE /\ draft' = [draft EXCEPT ![p] = [rels |-> R, of |-> 0]]
             /\ req' = [req EXCEPT ![p] = Request("release", label, R, None)]
             /\ UNCHANGED <<rel, pub, list, susp, approved>>
    <2>1. /\ draft' \in [Plugins -> Drafts] /\ draft'[p].of = 0 /\ draft'[p].rels = R
          /\ \A q \in Plugins : q # p => draft'[q] = draft[q]
      BY <1>2, <1>5 DEF CatTyped, Drafts
    <2> DEFINE k == Request("release", label, R, None)
    <2>2. k \in Requests /\ k.kind = "release" /\ k.rels = R /\ k.label = label
      BY <1>2 DEF Request, Requests
    <2>3. req' = [req EXCEPT ![p] = k]
      BY <1>5
    <2> HIDE DEF k
    <2>4. /\ req' \in [Plugins -> Requests \cup {None}] /\ req'[p] = k
          /\ \A q \in Plugins : q # p => req'[q] = req[q]
      BY <1>2, <2>2, <2>3 DEF CatTyped
    <2>5. CatTyped'
      BY <1>2, <1>5, <2>1, <2>4 DEF CatTyped
    <2>6. HeadSound'
      BY <1>2, <1>5, <2>1, <2>2, <2>4 DEF CatInv, HeadSound
    <2>7. GroupSound'
      BY <1>2, <1>5, <2>2, <2>4, OwnRequest DEF Grouped
    <2> QED BY <1>2, <1>5, <2>5, <2>6, <2>7, QuietSound
  <1> QED BY <1>1, <1>3, <1>4, <1>5 DEF SubmitDependencyUpdates

-----------------------------------------------------------------------------
(* Steps that change audiences: no release, no listing state.              *)

(* A step keeps what is listed usable if whoever uses a plugin whose       *)
(* audience shrinks is narrow itself, and whoever widens was validated.    *)
LEMMA AudienceListing ==
  ASSUME Setting, CatInv, UNCHANGED <<rel, pub, list, alive, susp>>,
         approved \subseteq approved',
         \A n \in Plugins : Listed(n) /\ vis'[n] = "space" =>
           vis[n] = "space" \/ <<n, pub[n]>> \in approved',
         \A n \in Plugins : Listed(n) =>
           \A x \in rel[n][pub[n]] : \A y \in {x} \cup rel[x[1]][x[2]] :
             Audience(vis'[n], vis'[y[1]])
  PROVE  ListingSound'
  <1>1. ListedIsUsable'
    BY SMT DEF CatInv, ListingSound, ListedIsUsable, Listed, PinReleased
  <1>2. ProtectedTargets' /\ SuspendedIsDown'
    BY DEF CatInv, ListingSound, ProtectedTargets, SuspendedIsDown, Uses
  <1>3. SpaceSeesApproved'
    BY DEF CatInv, ListingSound, SpaceSeesApproved, Listed
  <1> QED BY <1>1, <1>2, <1>3 DEF ListingSound

LEMMA SameGraph ==
  ASSUME CatInv, UNCHANGED <<rel, pub>>
  PROVE  GraphSound'
  BY DEF CatInv, GraphSound, PinReleased

(* The nodes below a listed plugin.                                        *)
LEMMA BelowListed ==
  ASSUME Setting, CatInv, NEW n \in Plugins, Listed(n), NEW x \in rel[n][pub[n]],
         NEW y \in {x} \cup rel[x[1]][x[2]]
  PROVE  /\ pub[n] # 0 /\ pub[n] \in DOMAIN rel[n] /\ rel[n][pub[n]] \in Relations(n)
         /\ x[1] \in Plugins /\ y[1] \in Plugins /\ y[1] # n
         /\ PinReleased(y) /\ Audience(vis[n], vis[y[1]]) /\ Uses(n, y[1])
  <1>1. pub[n] # 0 /\ pub[n] \in DOMAIN rel[n] /\ rel[n][pub[n]] \in Relations(n)
    BY DEF CatInv, GraphSound, ListingSound, ListedIsUsable
  <1>2. /\ x[1] \in Plugins
        /\ (n \in Experts /\ x[1] \in Skills) \/ (n \in Teams /\ x[1] \in Experts)
        /\ PinReleased(x)
    BY <1>1, Ranks DEF CatInv, GraphSound
  <1>3. PinReleased(y) /\ Audience(vis[n], vis[y[1]])
    BY DEF CatInv, ListingSound, ListedIsUsable
  <1>4. Uses(n, y[1])
    BY <1>1 DEF Uses, Targets
  <1>5. y[1] \in Plugins /\ y[1] # n
    <2>1. CASE y = x
      BY <1>1, <1>2, <2>1, Ranks
    <2>2. CASE y \in rel[x[1]][x[2]]
      <3>1. rel[x[1]][x[2]] \in Relations(x[1])
        BY <1>2 DEF CatInv, GraphSound, PinReleased
      <3>2. y[1] \in Plugins /\ ((x[1] \in Experts /\ y[1] \in Skills) \/ (x[1] \in Teams /\ y[1] \in Experts))
        BY <1>2, <2>2, <3>1, Ranks
      <3> QED BY <1>2, <3>2 DEF Setting
    <2> QED BY <2>1, <2>2
  <1> QED BY <1>1, <1>2, <1>3, <1>4, <1>5

LEMMA SaveSound ==
  ASSUME Setting, CatInv, NEW p \in Plugins, NEW R \in Relations(p), NEW v \in Audiences,
         Save(p, R, v)
  PROVE  CatInv'
  <1>0. /\ CatTyped /\ moves' \in 0..MaxMoves /\ R \in SUBSET Pins /\ ~Grouped(p)
        /\ draft' = [draft EXCEPT ![p] = [rels |-> R, of |-> 0]]
        /\ vis' = [vis EXCEPT ![p] = v]
        /\ UNCHANGED <<rel, pub, list, alive, susp, req, group, approved>>
        /\ v = vis[p] \/ (list[p] = "draft" /\ DOMAIN rel[p] = {})
    BY CommitTyped, RelationsArePins DEF CatInv, Save
  <1>1. /\ draft' \in [Plugins -> Drafts] /\ draft'[p].of = 0 /\ draft'[p].rels = R
        /\ \A q \in Plugins : q # p => draft'[q] = draft[q]
    BY <1>0 DEF CatTyped, Drafts
  <1>2. /\ vis' \in [Plugins -> Audiences] /\ vis'[p] = v
        /\ \A q \in Plugins : q # p => vis'[q] = vis[q]
    BY <1>0 DEF CatTyped
  <1>3. CatTyped'
    BY <1>0, <1>1, <1>2 DEF CatTyped
  <1>4. HeadSound'
    BY <1>0, <1>1 DEF CatInv, HeadSound
  <1>5. GroupSound'
    BY <1>0, <1>2, OwnRequest DEF Grouped
  <1>6. ListingSound'
    <2>1. ASSUME NEW n \in Plugins, Listed(n), NEW x \in rel[n][pub[n]],
                 NEW y \in {x} \cup rel[x[1]][x[2]]
          PROVE  Audience(vis'[n], vis'[y[1]])
      <3>1. y[1] \in Plugins /\ PinReleased(y) /\ Audience(vis[n], vis[y[1]])
        BY <2>1, BelowListed
      <3>2. vis'[n] = vis[n]
        BY <1>0, <1>2, <2>1 DEF Listed
      <3>3. vis'[y[1]] = vis[y[1]]
        BY <1>0, <1>2, <3>1 DEF PinReleased
      <3> QED BY <3>1, <3>2, <3>3
    <2>2. \A n \in Plugins : Listed(n) => vis'[n] = vis[n]
      BY <1>0, <1>2 DEF Listed
    <2> QED BY <1>0, <2>1, <2>2, AudienceListing
  <1> QED BY <1>0, <1>3, <1>4, <1>5, <1>6, SameGraph DEF CatInv


(* A set of plugins opens up to the Space, every published graph among     *)
(* them validated for the audiences that result.                           *)
OpensUp(C) ==
  /\ vis' = [n \in Plugins |-> IF n \in C THEN "space" ELSE vis[n]]
  /\ approved' = approved \cup {<<n, pub[n]>> : n \in C}
  /\ UNCHANGED <<draft, rel, pub, list, alive, susp>>
  /\ \A n \in C : pub[n] # 0 /\ EdgesOK(vis', n, rel[n][pub[n]], {})

LEMMA OpensUpSound ==
  ASSUME Setting, CatInv, NEW C \in SUBSET Plugins, OpensUp(C)
  PROVE  /\ vis' \in [Plugins -> Audiences] /\ approved' \subseteq Plugins \X Labels
         /\ ListingSound'
  <1>1. /\ vis' \in [Plugins -> Audiences] /\ CatTyped
        /\ \A n \in Plugins : vis'[n] = IF n \in C THEN "space" ELSE vis[n]
    BY DEF OpensUp, CatInv, CatTyped, Audiences
  <1>2. approved' \subseteq Plugins \X Labels
    BY SMT DEF OpensUp, CatInv, CatTyped
  <1>3. ASSUME NEW n \in Plugins, Listed(n), NEW x \in rel[n][pub[n]],
               NEW y \in {x} \cup rel[x[1]][x[2]]
        PROVE  Audience(vis'[n], vis'[y[1]])
    <2>1. y[1] \in Plugins /\ Audience(vis[n], vis[y[1]])
      BY <1>3, BelowListed
    <2>2. CASE n \notin C
      BY <1>1, <2>1, <2>2 DEF Audience
    <2>3. CASE n \in C
      BY <1>3, <2>3 DEF OpensUp, EdgesOK, NestedOK
    <2> QED BY <2>2, <2>3
  <1>4. \A n \in Plugins : Listed(n) /\ vis'[n] = "space" =>
          vis[n] = "space" \/ <<n, pub[n]>> \in approved'
    BY <1>1 DEF OpensUp
  <1>5. ListingSound'
    BY <1>3, <1>4, AudienceListing DEF OpensUp
  <1> QED BY <1>1, <1>2, <1>5

LEMMA NarrowSound ==
  ASSUME Setting, CatInv, NEW p \in Plugins, Narrow(p)
  PROVE  CatInv'
  <1>0. /\ CatTyped /\ moves' \in 0..MaxMoves /\ req[p] = None /\ ~rejectPublishedIncoming(p)
        /\ vis' = [vis EXCEPT ![p] = "private"]
        /\ UNCHANGED <<draft, rel, pub, list, alive, susp, req, group, approved>>
    BY CommitTyped DEF CatInv, Narrow
  <1>1. /\ vis' \in [Plugins -> Audiences] /\ vis'[p] = "private"
        /\ \A q \in Plugins : q # p => vis'[q] = vis[q]
    BY <1>0 DEF CatTyped, Audiences
  <1>2. CatTyped' /\ HeadSound'
    BY <1>0, <1>1 DEF CatInv, CatTyped, HeadSound
  <1>3. GroupSound'
    BY <1>0, <1>1, OwnRequest DEF Grouped
  <1>4. ASSUME NEW n \in Plugins, Listed(n), NEW x \in rel[n][pub[n]],
               NEW y \in {x} \cup rel[x[1]][x[2]]
        PROVE  Audience(vis'[n], vis'[y[1]])
    <2>1. y[1] \in Plugins /\ y[1] # n /\ Audience(vis[n], vis[y[1]]) /\ Uses(n, y[1])
      BY <1>4, BelowListed
    <2>2. n # p => y[1] # p
      BY <1>0, <1>4, <2>1 DEF rejectPublishedIncoming, Listed
    <2> QED BY <1>1, <2>1, <2>2 DEF Audience
  <1>5. \A n \in Plugins : vis'[n] = "space" => vis[n] = "space"
    BY <1>1
  <1>6. ListingSound'
    BY <1>0, <1>4, <1>5, AudienceListing
  <1> QED BY <1>0, <1>2, <1>3, <1>6, SameGraph DEF CatInv

LEMMA WidenSound ==
  ASSUME Setting, CatInv, NEW p \in Plugins, NEW auto \in BOOLEAN, Widen(p, auto)
  PROVE  CatInv'
  <1>0. /\ CatTyped /\ moves' \in 0..MaxMoves /\ req[p] = None /\ pub[p] # 0 /\ WidenOK(p)
        /\ UNCHANGED <<draft, rel, pub, list, alive, susp, group>>
    BY CommitTyped DEF CatInv, Widen
  <1>1. CASE auto
    <2>1. /\ vis' = [vis EXCEPT ![p] = "space"] /\ approved' = approved \cup {<<p, pub[p]>>}
          /\ UNCHANGED req
      BY <1>1 DEF Widen
    <2>2. vis' = [n \in Plugins |-> IF n \in {p} THEN "space" ELSE vis[n]]
      BY <1>0, <2>1 DEF CatTyped
    <2>3. EdgesOK(vis', p, rel[p][pub[p]], {})
      BY <1>0, <2>1 DEF WidenOK, validateReferenceTree
    <2>4. OpensUp({p})
      BY <1>0, <2>1, <2>2, <2>3 DEF OpensUp
    <2>5. vis' \in [Plugins -> Audiences] /\ approved' \subseteq Plugins \X Labels /\ ListingSound'
      BY <2>4, OpensUpSound
    <2>6. CatTyped' /\ HeadSound'
      BY <1>0, <2>1, <2>5 DEF CatInv, CatTyped, HeadSound
    <2>7. GroupSound'
      BY <1>0, <2>1, <2>2, OwnRequest DEF Grouped
    <2> QED BY <1>0, <2>5, <2>6, <2>7, SameGraph DEF CatInv
  <1>2. CASE ~auto
    <2> DEFINE k == Request("visibility", pub[p], {}, None)
    <2>1. /\ k \in Requests /\ k.kind = "visibility" /\ k.rels = {}
          /\ {} \in Relations(p)
      BY <1>0 DEF Request, Requests, CatTyped, Relations
    <2>2. req' = [req EXCEPT ![p] = k] /\ UNCHANGED <<vis, approved>>
      BY <1>2 DEF Widen
    <2> HIDE DEF k
    <2>3. /\ req' \in [Plugins -> Requests \cup {None}] /\ req'[p] = k
          /\ \A q \in Plugins : q # p => req'[q] = req[q]
      BY <1>0, <2>1, <2>2 DEF CatTyped
    <2>4. CatTyped' /\ HeadSound'
      BY <1>0, <2>1, <2>2, <2>3 DEF CatInv, CatTyped, HeadSound
    <2>5. GroupSound'
      BY <1>0, <2>1, <2>2, <2>3, OwnRequest DEF Grouped
    <2> QED BY <1>0, <2>2, <2>4, <2>5, QuietSound
  <1> QED BY <1>1, <1>2

LEMMA ApproveVisibilitySound ==
  ASSUME Setting, CatInv, NEW p \in Plugins, approveVisibilityReview(p)
  PROVE  CatInv'
  <1>0. /\ CatTyped /\ moves' \in 0..MaxMoves /\ ~Grouped(p) /\ pub[p] # 0 /\ WidenOK(p)
        /\ vis' = [vis EXCEPT ![p] = "space"] /\ approved' = approved \cup {<<p, pub[p]>>}
        /\ req' = [req EXCEPT ![p] = None]
        /\ UNCHANGED <<draft, rel, pub, list, alive, susp, group>>
    BY CommitTyped DEF CatInv, approveVisibilityReview, Grouped, Closed, Listed, ListingSound,
                       ListedIsUsable
  <1>1. vis' = [n \in Plugins |-> IF n \in {p} THEN "space" ELSE vis[n]]
    BY <1>0 DEF CatTyped
  <1>2. EdgesOK(vis', p, rel[p][pub[p]], {})
    BY <1>0 DEF WidenOK, validateReferenceTree
  <1>3. OpensUp({p})
    BY <1>0, <1>1, <1>2 DEF OpensUp
  <1>4. vis' \in [Plugins -> Audiences] /\ approved' \subseteq Plugins \X Labels /\ ListingSound'
    BY <1>3, OpensUpSound
  <1>5. /\ req' \in [Plugins -> Requests \cup {None}] /\ req'[p] = None
        /\ \A q \in Plugins : q # p => req'[q] = req[q]
    BY <1>0 DEF CatTyped
  <1>6. CatTyped' /\ HeadSound'
    BY <1>0, <1>4, <1>5 DEF CatInv, CatTyped, HeadSound
  <1>7. GroupSound'
    BY <1>0, <1>1, <1>5, OwnRequest DEF Grouped
  <1> QED BY <1>0, <1>4, <1>6, <1>7, SameGraph DEF CatInv


(* The plan stays among the plugins and starts at its root.                *)
LEMMA EdgesArePins ==
  ASSUME CatTyped, NEW n \in Plugins
  PROVE  AllEdges(n) \subseteq Pins /\ Targets(AllEdges(n)) \subseteq Plugins
  <1>1. rel[n] \in Shelves
    BY DEF CatTyped
  <1>2. \A l \in DOMAIN rel[n] : rel[n][l] \subseteq Pins
    BY <1>1 DEF Shelves
  <1>3. AllEdges(n) \subseteq Pins
    BY <1>2 DEF AllEdges
  <1> QED BY <1>3 DEF Targets, Pins

LEMMA ReachTyped ==
  ASSUME CatTyped, NEW p \in Plugins
  PROVE  Reach(p) \subseteq Plugins /\ p \in Reach(p)
  <1> DEFINE kids(S) == UNION {Targets(AllEdges(n)) : n \in S}
  <1>1. ASSUME NEW S \in SUBSET Plugins PROVE kids(S) \in SUBSET Plugins
    BY EdgesArePins
  <1>2. Reach(p) = {p} \cup kids({p}) \cup kids(kids({p}))
    BY DEF Reach
  <1> HIDE DEF kids
  <1>3. kids({p}) \in SUBSET Plugins
    BY <1>1
  <1>4. kids(kids({p})) \in SUBSET Plugins
    BY <1>1, <1>3
  <1> QED BY <1>2, <1>3, <1>4

LEMMA PlanShape ==
  ASSUME CatTyped, NEW p \in Plugins, NEW pending, Unblocked(p, pending), vis[p] = "private",
         NEW plan, plan = buildVisibilityPlan(p, pending)
  PROVE  /\ p \in plan.changes /\ plan.changes \subseteq Plugins
         /\ \A n \in plan.changes :
              /\ n \notin pending /\ alive[n] /\ pub[n] # 0 /\ vis[n] = "private"
              /\ plan.baseline[n][1] = vis[n] /\ plan.baseline[n][3] = pub[n]
         /\ \E C, B : plan = [changes |-> C, baseline |-> B]
  <1>1. /\ plan.changes = {n \in Reach(p) : vis[n] = "private" \/ n = p}
        /\ plan.baseline = [n \in Reach(p) |-> <<vis[n], list[n], pub[n], rel[n], n \in pending>>]
        /\ \E C, B : plan = [changes |-> C, baseline |-> B]
    BY DEF buildVisibilityPlan
  <1>2. p \in plan.changes /\ plan.changes \subseteq Plugins
    BY <1>1, ReachTyped
  <1>3. ASSUME NEW n \in plan.changes
        PROVE  /\ n \notin pending /\ alive[n] /\ pub[n] # 0 /\ vis[n] = "private"
               /\ plan.baseline[n][1] = vis[n] /\ plan.baseline[n][3] = pub[n]
    <2>1. n \in Reach(p) /\ vis[n] = "private"
      BY <1>1
    <2>2. n \notin pending /\ alive[n] /\ pub[n] # 0
      BY <2>1 DEF Unblocked
    <2>3. plan.baseline[n] = <<vis[n], list[n], pub[n], rel[n], n \in pending>>
      BY <1>1, <2>1
    <2> QED BY SMT, <2>1, <2>2, <2>3
  <1> QED BY <1>1, <1>2, <1>3

LEMMA PlanWidenSound ==
  ASSUME Setting, CatInv, NEW p \in Plugins, NEW auto \in BOOLEAN, PlanWiden(p, auto)
  PROVE  CatInv'
  <1>0. PICK plan : plan = buildVisibilityPlan(p, Pending)
    OBVIOUS
  <1>1. /\ CatTyped /\ moves' \in 0..MaxMoves /\ req[p] = None /\ vis[p] = "private"
        /\ Unblocked(p, Pending) /\ UNCHANGED <<draft, rel, pub, list, alive, susp>>
        /\ IF auto THEN GroupOK(plan) /\ Widened(plan) /\ UNCHANGED <<req, group>>
                   ELSE /\ req' = [n \in Plugins |-> IF n \in plan.changes
                                     THEN Request("group", pub[n], {}, p) ELSE req[n]]
                        /\ group' = [group EXCEPT ![p] = plan]
                        /\ UNCHANGED <<vis, approved>>
    BY <1>0, CommitTyped DEF CatInv, PlanWiden
  <1>2. /\ p \in plan.changes /\ plan.changes \subseteq Plugins
        /\ \A n \in plan.changes :
             /\ n \notin Pending /\ alive[n] /\ pub[n] # 0 /\ vis[n] = "private"
             /\ plan.baseline[n][1] = vis[n] /\ plan.baseline[n][3] = pub[n]
        /\ \E C, B : plan = [changes |-> C, baseline |-> B]
    BY SMT, <1>0, <1>1, PlanShape
  <1>3. plan # None /\ \A n \in plan.changes : req[n] = None
    BY SMT, <1>2 DEF Setting, Pending
  <1>4. \A r \in Plugins : group[r] # None => group[r].changes \cap plan.changes = {}
    BY SMT, <1>3 DEF CatInv, GroupSound, Grouped
  <1>5. CASE auto
    <2>1. PICK C \in SUBSET Plugins : C = plan.changes
      BY <1>2
    <2>2. /\ vis' = [n \in Plugins |-> IF n \in C THEN "space" ELSE vis[n]]
          /\ approved' = approved \cup {<<n, pub[n]>> : n \in C}
          /\ UNCHANGED <<req, group>>
      BY <1>1, <1>5, <2>1 DEF Widened
    <2>3. \A n \in C : EdgesOK(vis', n, rel[n][pub[n]], {})
      BY <1>1, <1>5, <2>1, <2>2 DEF GroupOK, validateReferenceTree
    <2>4. OpensUp(C)
      BY <1>1, <1>2, <2>1, <2>2, <2>3 DEF OpensUp
    <2>5. vis' \in [Plugins -> Audiences] /\ approved' \subseteq Plugins \X Labels /\ ListingSound'
      BY <2>4, OpensUpSound
    <2>6. CatTyped' /\ HeadSound'
      BY <1>1, <2>2, <2>5 DEF CatInv, CatTyped, HeadSound
    <2>7. \A r \in Plugins : group[r] # None => \A n \in group[r].changes : n \in Plugins /\ vis'[n] = vis[n]
      BY <1>4, <2>1, <2>2 DEF CatInv, GroupSound
    <2>8. GroupSound'
      BY <1>1, <2>2, <2>7, GroupsKept DEF CatInv
    <2> QED BY <1>1, <2>5, <2>6, <2>8, SameGraph DEF CatInv
  <1>6. CASE ~auto
    <2>1. \A n \in Plugins : pub[n] \in {0} \cup Labels /\ {} \in Relations(n)
      BY <1>1 DEF CatTyped, Relations
    <2>2. \A n \in Plugins : /\ Request("group", pub[n], {}, p) \in Requests
                             /\ Request("group", pub[n], {}, p).kind = "group"
                             /\ Request("group", pub[n], {}, p).rels = {}
                             /\ Request("group", pub[n], {}, p).root = p
      BY <2>1 DEF Request, Requests
    <2>3. /\ req' \in [Plugins -> Requests \cup {None}]
          /\ \A n \in Plugins : n \notin plan.changes => req'[n] = req[n]
          /\ \A n \in plan.changes : /\ req'[n] # None /\ req'[n].kind = "group"
                                     /\ req'[n].rels = {} /\ req'[n].root = p
      <3>1. req' = [n \in Plugins |-> IF n \in plan.changes
                                        THEN Request("group", pub[n], {}, p) ELSE req[n]]
        BY <1>1, <1>6
      <3>2. None \notin Requests /\ plan.changes \subseteq Plugins
            /\ \A n \in Plugins : req[n] \in Requests \cup {None}
        BY <1>1, <1>2 DEF CatTyped, Setting
      <3>3. \A n \in Plugins : req'[n] = IF n \in plan.changes
                                           THEN Request("group", pub[n], {}, p) ELSE req[n]
        BY <3>1
      <3>4. req' \in [Plugins -> Requests \cup {None}]
        BY <2>2, <3>1, <3>2
      <3>5. \A n \in plan.changes : req'[n] = Request("group", pub[n], {}, p)
        BY <3>2, <3>3
      <3> QED BY SMT, <2>2, <3>2, <3>3, <3>4, <3>5
    <2>4. /\ DOMAIN group' = Plugins /\ group'[p] = plan
          /\ \A q \in Plugins : q # p => group'[q] = group[q]
          /\ UNCHANGED <<vis, approved>>
      BY <1>1, <1>6 DEF CatTyped
    <2>5. CatTyped'
      BY <1>1, <2>3, <2>4 DEF CatTyped
    <2>6. HeadSound'
      BY ZenonT(30), <1>1, <2>1, <2>3 DEF CatInv, HeadSound
    <2>7. group[p] = None
      BY <1>1, <1>2, <1>4 DEF CatInv, GroupSound
    <2>8. GroupSound'
      <3>1. ASSUME NEW s \in Plugins, group'[s] # None
            PROVE  /\ s \in group'[s].changes /\ group'[s].changes \subseteq Plugins
                   /\ \A n \in group'[s].changes :
                        /\ Grouped(n)' /\ req'[n].root = s /\ alive'[n] /\ vis'[n] = "private"
                        /\ vis'[n] = group'[s].baseline[n][1] /\ pub'[n] = group'[s].baseline[n][3]
        <4>1. CASE s = p
          BY <1>1, <1>2, <2>3, <2>4, <4>1 DEF Grouped
        <4>2. CASE s # p
          <5>1. group'[s] = group[s] /\ group[s] # None
            BY <2>4, <3>1, <4>2
          <5>2. \A n \in group[s].changes : n \in Plugins /\ req'[n] = req[n]
            BY <1>4, <2>3, <5>1 DEF CatInv, GroupSound
          <5> QED BY SMT, <1>1, <2>4, <5>1, <5>2 DEF CatInv, GroupSound, Grouped
        <4> QED BY <4>1, <4>2
      <3>2. ASSUME NEW n \in Plugins, Grouped(n)'
            PROVE  /\ req'[n].root \in Plugins /\ group'[req'[n].root] # None
                   /\ n \in group'[req'[n].root].changes
        <4>1. CASE n \in plan.changes
          BY <1>3, <2>3, <2>4, <4>1
        <4>2. CASE n \notin plan.changes
          <5>1. req'[n] = req[n] /\ Grouped(n)
            BY <2>3, <3>2, <4>2 DEF Grouped
          <5>2. req[n].root \in Plugins /\ group[req[n].root] # None /\ n \in group[req[n].root].changes
            BY <5>1 DEF CatInv, GroupSound
          <5> QED BY <2>4, <2>7, <5>1, <5>2
        <4> QED BY <4>1, <4>2
      <3> QED BY <3>1, <3>2 DEF GroupSound
    <2> QED BY <1>1, <2>4, <2>5, <2>6, <2>8, QuietSound
  <1> QED BY <1>5, <1>6

LEMMA ApplyGroupSound ==
  ASSUME Setting, CatInv, NEW p \in Plugins, applyVisibilityGroup(p)
  PROVE  CatInv'
  <1>1. PICK C \in SUBSET Plugins : C = group[p].changes
    BY DEF applyVisibilityGroup, CatInv, GroupSound
  <1>2. /\ CatTyped /\ moves' \in 0..MaxMoves /\ group[p] # None /\ PlanCurrent(p) /\ p \in C
        /\ GroupOK(group[p]) /\ UNCHANGED <<draft, rel, pub, list, alive, susp>>
        /\ vis' = [n \in Plugins |-> IF n \in C THEN "space" ELSE vis[n]]
        /\ approved' = approved \cup {<<n, pub[n]>> : n \in C}
        /\ req' = [n \in Plugins |-> IF n \in C THEN None ELSE req[n]]
        /\ group' = [group EXCEPT ![p] = None]
    BY <1>1, CommitTyped DEF CatInv, GroupSound, applyVisibilityGroup, Widened
  <1>3. \A n \in C : Grouped(n) /\ req[n].root = p /\ vis[n] = "private"
    BY <1>1, <1>2 DEF CatInv, GroupSound
  <1>4. PICK others : Unblocked(p, others) /\ buildVisibilityPlan(p, others) = group[p]
    BY <1>2 DEF PlanCurrent
  <1>5. \A n \in C : pub[n] # 0
    BY SMT, <1>1, <1>2, <1>3, <1>4, PlanShape
  <1>6. \A n \in C : EdgesOK(vis', n, rel[n][pub[n]], {})
    BY <1>1, <1>2 DEF GroupOK, validateReferenceTree
  <1>7. OpensUp(C)
    BY <1>2, <1>5, <1>6 DEF OpensUp
  <1>8. vis' \in [Plugins -> Audiences] /\ approved' \subseteq Plugins \X Labels /\ ListingSound'
    BY <1>7, OpensUpSound
  <1>9. /\ req' \in [Plugins -> Requests \cup {None}]
        /\ \A n \in Plugins : n \notin C => req'[n] = req[n] /\ vis'[n] = vis[n]
        /\ \A n \in C : req'[n] = None
    BY <1>2 DEF CatTyped
  <1>10. /\ DOMAIN group' = Plugins /\ group'[p] = None
         /\ \A q \in Plugins : q # p => group'[q] = group[q]
    BY <1>2 DEF CatTyped
  <1>11. CatTyped'
    BY <1>2, <1>8, <1>9, <1>10 DEF CatTyped
  <1>12. HeadSound'
    BY <1>2, <1>9 DEF CatInv, HeadSound
  <1>13. GroupSound'
    <2>1. ASSUME NEW s \in Plugins, group'[s] # None
          PROVE  /\ s \in group'[s].changes /\ group'[s].changes \subseteq Plugins
                 /\ \A n \in group'[s].changes :
                      /\ Grouped(n)' /\ req'[n].root = s /\ alive'[n] /\ vis'[n] = "private"
                      /\ vis'[n] = group'[s].baseline[n][1] /\ pub'[n] = group'[s].baseline[n][3]
      <3>1. s # p /\ group'[s] = group[s] /\ group[s] # None
        BY <1>10, <2>1
      <3>2. \A n \in group[s].changes : n \in Plugins /\ n \notin C
        BY SMT, <1>3, <3>1 DEF CatInv, GroupSound
      <3>3. \A n \in group[s].changes : n \in Plugins /\ req'[n] = req[n] /\ vis'[n] = vis[n]
        BY <1>9, <3>2
      <3>4. /\ s \in group[s].changes /\ group[s].changes \subseteq Plugins
            /\ \A n \in group[s].changes :
                 /\ Grouped(n) /\ req[n].root = s /\ alive[n] /\ vis[n] = "private"
                 /\ vis[n] = group[s].baseline[n][1] /\ pub[n] = group[s].baseline[n][3]
        BY <3>1 DEF CatInv, GroupSound
      <3>5. UNCHANGED <<pub, alive>>
        BY <1>2
      <3> QED BY SMT, <3>1, <3>3, <3>4, <3>5 DEF Grouped
    <2>2. ASSUME NEW n \in Plugins, Grouped(n)'
          PROVE  /\ req'[n].root \in Plugins /\ group'[req'[n].root] # None
                 /\ n \in group'[req'[n].root].changes
      <3>1. req'[n] = req[n] /\ Grouped(n) /\ n \notin C
        BY <1>9, <2>2 DEF Grouped
      <3>2. req[n].root \in Plugins /\ group[req[n].root] # None /\ n \in group[req[n].root].changes
        BY <3>1 DEF CatInv, GroupSound
      <3>3. req[n].root # p
        BY <1>1, <3>1, <3>2
      <3>4. group'[req[n].root] = group[req[n].root]
        BY <1>10, <3>2, <3>3
      <3> QED BY <3>1, <3>2, <3>4
    <2> QED BY <2>1, <2>2 DEF GroupSound
  <1> QED BY <1>2, <1>8, <1>11, <1>12, <1>13, SameGraph DEF CatInv


-----------------------------------------------------------------------------
(* Steps that take plugins down.                                           *)

(* The plugins in S are taken down.  What stays listed pins none of them,  *)
(* and may still be read by those who see it.                              *)
LEMMA DownListing ==
  ASSUME Setting, CatInv, NEW S \in SUBSET Plugins, UNCHANGED <<rel, pub, alive, approved>>,
         \A n \in Plugins : list'[n] = IF n \in S THEN "delisted" ELSE list[n],
         \A n \in Plugins : susp'[n] => susp[n] \/ n \in S,
         \A n \in Plugins : vis'[n] = "space" => vis[n] = "space",
         \A n \in Plugins : Listed(n) /\ n \notin S =>
           \A x \in rel[n][pub[n]] :
             /\ x[1] \notin S
             /\ \A y \in {x} \cup rel[x[1]][x[2]] : Audience(vis'[n], vis'[y[1]])
  PROVE  ListingSound'
  <1>1. \A n \in Plugins : Listed(n)' => Listed(n) /\ n \notin S
    BY DEF Listed
  <1>2. ListedIsUsable'
    <2>1. ASSUME NEW n \in Plugins, Listed(n)'
          PROVE  /\ pub'[n] # 0
                 /\ \A x \in rel'[n][pub'[n]] :
                      /\ Listed(x[1])'
                      /\ \A y \in {x} \cup rel'[x[1]][x[2]] :
                           alive'[y[1]] /\ PinReleased(y)' /\ Audience(vis'[n], vis'[y[1]])
      <3>1. Listed(n) /\ n \notin S /\ pub[n] # 0
        BY <1>1, <2>1 DEF CatInv, ListingSound, ListedIsUsable
      <3>2. ASSUME NEW x \in rel[n][pub[n]]
            PROVE  /\ Listed(x[1])'
                   /\ \A y \in {x} \cup rel[x[1]][x[2]] :
                        alive'[y[1]] /\ PinReleased(y)' /\ Audience(vis'[n], vis'[y[1]])
        <4>1. x[1] \in Plugins /\ x[1] \notin S
          BY <3>1, <3>2, BelowListed
        <4>2. Listed(x[1])
          BY <3>1, <3>2 DEF CatInv, ListingSound, ListedIsUsable
        <4>3. \A y \in {x} \cup rel[x[1]][x[2]] : alive[y[1]] /\ PinReleased(y)
          BY <3>1, <3>2 DEF CatInv, ListingSound, ListedIsUsable
        <4> QED BY <3>1, <4>1, <4>2, <4>3 DEF Listed, PinReleased
      <3> QED BY <3>1, <3>2
    <2> QED BY <2>1 DEF ListedIsUsable
  <1>3. ProtectedTargets'
    BY DEF CatInv, ListingSound, ProtectedTargets, Uses
  <1>4. SpaceSeesApproved'
    BY <1>1 DEF CatInv, ListingSound, SpaceSeesApproved
  <1>5. SuspendedIsDown'
    BY DEF CatInv, ListingSound, SuspendedIsDown
  <1> QED BY <1>2, <1>3, <1>4, <1>5 DEF ListingSound

(* Two levels of releases lie below a team, one below an expert.           *)
LEMMA EdgesBelow ==
  ASSUME Setting, CatInv, NEW n \in Plugins, NEW x \in AllEdges(n)
  PROVE  /\ x[1] \in Plugins
         /\ (n \in Experts /\ x[1] \in Skills) \/ (n \in Teams /\ x[1] \in Experts)
         /\ \A q \in Targets(rel[x[1]][x[2]]) : x[1] \in Experts /\ q \in Skills
  <1>1. PICK l \in DOMAIN rel[n] : x \in rel[n][l]
    BY DEF AllEdges
  <1>2. rel[n][l] \in Relations(n) /\ PinReleased(x)
    BY <1>1 DEF CatInv, GraphSound
  <1>3. /\ x[1] \in Plugins
        /\ (n \in Experts /\ x[1] \in Skills) \/ (n \in Teams /\ x[1] \in Experts)
    BY <1>1, <1>2, Ranks
  <1>4. ASSUME NEW y \in rel[x[1]][x[2]] PROVE x[1] \in Experts /\ y[1] \in Skills
    <2>1. rel[x[1]][x[2]] \in Relations(x[1])
      BY <1>2, <1>3 DEF CatInv, GraphSound, PinReleased
    <2>2. (x[1] \in Experts /\ y[1] \in Skills) \/ (x[1] \in Teams /\ y[1] \in Experts)
      BY <1>3, <1>4, <2>1, Ranks
    <2> QED BY <1>3, <2>2 DEF Setting
  <1>5. \A q \in Targets(rel[x[1]][x[2]]) : x[1] \in Experts /\ q \in Skills
    BY <1>4 DEF Targets
  <1> QED BY <1>3, <1>5

LEMMA PublishedEdges ==
  ASSUME CatInv, NEW n \in Plugins, pub[n] # 0, NEW x \in rel[n][pub[n]]
  PROVE  x \in AllEdges(n)
  <1>1. pub[n] \in DOMAIN rel[n]
    BY DEF CatInv, GraphSound
  <1> QED BY <1>1 DEF AllEdges

LEMMA UsesBelow ==
  ASSUME Setting, CatInv, NEW n \in Plugins, NEW q, Uses(n, q)
  PROVE  (n \in Experts /\ q \in Skills) \/ (n \in Teams /\ q \in Skills \cup Experts)
  <1>1. PICK x \in rel[n][pub[n]] : pub[n] # 0 /\ (x[1] = q \/ q \in Targets(rel[x[1]][x[2]]))
    BY DEF Uses
  <1>2. x \in AllEdges(n)
    BY <1>1, PublishedEdges
  <1>3. /\ (n \in Experts /\ x[1] \in Skills) \/ (n \in Teams /\ x[1] \in Experts)
        /\ \A z \in Targets(rel[x[1]][x[2]]) : x[1] \in Experts /\ z \in Skills
    BY <1>2, EdgesBelow
  <1> QED BY <1>1, <1>3 DEF Setting

LEMMA DelistSound ==
  ASSUME Setting, CatInv, NEW p \in Plugins, DelistPlugin(p)
  PROVE  CatInv'
  <1> DEFINE users(T) == {n \in Experts \cup Teams : Listed(n) /\ \E q \in T : Uses(n, q)}
             direct == users({p})
             S == (direct \cup users(direct)) \cup {p}
  <1>1. /\ suspendDelistedDependents(p) = direct \cup users(direct)
        /\ S \in SUBSET Plugins
    BY DEF suspendDelistedDependents, Plugins
  <1>2. /\ CatTyped /\ moves' \in 0..MaxMoves /\ ~Grouped(p) /\ Listed(p)
        /\ list' = [n \in Plugins |-> IF n \in S THEN "delisted" ELSE list[n]]
        /\ susp' = [n \in Plugins |-> susp[n] \/ n \in S \ {p}]
        /\ req' = [req EXCEPT ![p] = None]
        /\ UNCHANGED <<draft, rel, pub, vis, alive, group, approved>>
    BY <1>1, CommitTyped DEF CatInv, DelistPlugin, Suspended, Closed
  <1>3. ASSUME NEW n \in Plugins, Listed(n), n \notin S, NEW x \in rel[n][pub[n]]
        PROVE  x[1] \notin S
    <2>1. /\ pub[n] # 0 /\ x[1] \in Plugins /\ Uses(n, x[1])
      BY <1>3, BelowListed
    <2>2. /\ (n \in Experts /\ x[1] \in Skills) \/ (n \in Teams /\ x[1] \in Experts)
      BY <1>3, <2>1, PublishedEdges, EdgesBelow
    <2>3. x[1] # p
      BY <1>3, <2>1, <2>2
    <2>4. x[1] \notin direct
      BY <1>3, <2>1, <2>2
    <2>5. ASSUME x[1] \in users(direct) PROVE FALSE
      <3>1. PICK q \in direct : Uses(x[1], q)
        BY <2>5
      <3>2. x[1] \in Experts
        BY <2>2, <2>5 DEF Setting
      <3>3. q \in Skills
        BY <2>1, <3>1, <3>2, UsesBelow DEF Setting
      <3> QED BY <3>1, <3>3 DEF Setting
    <2> QED BY <2>3, <2>4, <2>5
  <1> HIDE DEF S, direct, users
  <1>4. /\ list' \in [Plugins -> {"draft", "published", "delisted"}]
        /\ susp' \in [Plugins -> BOOLEAN]
        /\ \A n \in Plugins : list'[n] = IF n \in S THEN "delisted" ELSE list[n]
        /\ \A n \in Plugins : susp'[n] => susp[n] \/ n \in S
    BY <1>2 DEF CatTyped
  <1>5. /\ req' \in [Plugins -> Requests \cup {None}] /\ req'[p] = None
        /\ \A q \in Plugins : q # p => req'[q] = req[q]
    BY <1>2 DEF CatTyped
  <1>6. CatTyped' /\ HeadSound'
    BY <1>2, <1>4, <1>5 DEF CatInv, CatTyped, HeadSound
  <1>7. GroupSound'
    BY <1>2, <1>5, OwnRequest DEF Grouped
  <1>8. \A n \in Plugins : Listed(n) /\ n \notin S =>
          \A x \in rel[n][pub[n]] :
            /\ x[1] \notin S
            /\ \A y \in {x} \cup rel[x[1]][x[2]] : Audience(vis'[n], vis'[y[1]])
    BY <1>2, <1>3, BelowListed
  <1>9. ListingSound'
    BY <1>1, <1>2, <1>4, <1>8, DownListing
  <1> QED BY <1>2, <1>6, <1>7, <1>9, SameGraph DEF CatInv

LEMMA DeleteSound ==
  ASSUME Setting, CatInv, NEW p \in Plugins, Delete(p)
  PROVE  CatInv'
  <1>0. /\ CatTyped /\ moves' \in 0..MaxMoves /\ ~Grouped(p) /\ ~rejectPublishedIncoming(p)
        /\ alive' = [alive EXCEPT ![p] = FALSE] /\ list' = [list EXCEPT ![p] = "draft"]
        /\ draft' = [draft EXCEPT ![p].rels = {}] /\ req' = [req EXCEPT ![p] = None]
        /\ UNCHANGED <<rel, pub, vis, susp, group, approved>>
    BY CommitTyped DEF CatInv, Delete, Closed
  <1>1. /\ alive' \in [Plugins -> BOOLEAN] /\ ~alive'[p]
        /\ list' \in [Plugins -> {"draft", "published", "delisted"}] /\ list'[p] = "draft"
        /\ req' \in [Plugins -> Requests \cup {None}] /\ req'[p] = None
        /\ \A q \in Plugins : q # p => /\ alive'[q] = alive[q] /\ list'[q] = list[q]
                                       /\ req'[q] = req[q]
    BY <1>0 DEF CatTyped
  <1>2. /\ draft' \in [Plugins -> Drafts] /\ draft'[p].rels = {} /\ draft'[p].of = draft[p].of
        /\ \A q \in Plugins : q # p => draft'[q] = draft[q]
    BY <1>0 DEF CatTyped, Drafts
  <1>3. CatTyped'
    BY <1>0, <1>1, <1>2 DEF CatTyped
  <1>4. {} \in Relations(p)
    BY DEF Relations
  <1>5. HeadSound'
    BY <1>0, <1>1, <1>2, <1>4 DEF CatInv, HeadSound
  <1>6. GroupSound'
    BY <1>0, <1>1, OwnRequest DEF Grouped
  <1>7. ListedIsUsable'
    <2>1. ASSUME NEW n \in Plugins, Listed(n)'
          PROVE  /\ pub'[n] # 0
                 /\ \A x \in rel'[n][pub'[n]] :
                      /\ Listed(x[1])'
                      /\ \A y \in {x} \cup rel'[x[1]][x[2]] :
                           alive'[y[1]] /\ PinReleased(y)' /\ Audience(vis'[n], vis'[y[1]])
      <3>1. n # p /\ Listed(n) /\ pub[n] # 0
        BY <1>1, <2>1 DEF Listed, CatInv, ListingSound, ListedIsUsable
      <3>2. ASSUME NEW x \in rel[n][pub[n]], NEW y \in {x} \cup rel[x[1]][x[2]]
            PROVE  y[1] \in Plugins /\ y[1] # p
        BY SMT, <1>0, <3>1, <3>2, BelowListed
           DEF rejectPublishedIncoming, Listed
      <3>3. ASSUME NEW x \in rel[n][pub[n]]
            PROVE  /\ Listed(x[1])'
                   /\ \A y \in {x} \cup rel[x[1]][x[2]] :
                        alive'[y[1]] /\ PinReleased(y)' /\ Audience(vis'[n], vis'[y[1]])
        <4>1. x[1] \in Plugins /\ x[1] # p
          BY <3>2, <3>3
        <4>2. Listed(x[1])
          BY <3>1, <3>3 DEF CatInv, ListingSound, ListedIsUsable
        <4>3. \A y \in {x} \cup rel[x[1]][x[2]] :
                alive[y[1]] /\ PinReleased(y) /\ Audience(vis[n], vis[y[1]])
          BY <3>1, <3>3 DEF CatInv, ListingSound, ListedIsUsable
        <4> QED BY <1>0, <1>1, <3>2, <3>3, <4>1, <4>2, <4>3 DEF Listed, PinReleased
      <3> QED BY <1>0, <3>1, <3>3
    <2> QED BY <2>1 DEF ListedIsUsable
  <1>8. ProtectedTargets'
    <2>1. ASSUME NEW n \in Plugins, NEW q \in Plugins, alive'[n], Uses(n, q)'
          PROVE  alive'[q]
      <3>1. n # p /\ alive[n] /\ Uses(n, q)
        BY <1>0, <1>1, <2>1 DEF Uses
      <3>2. q # p
        BY <1>0, <3>1 DEF rejectPublishedIncoming
      <3> QED BY <1>1, <3>1, <3>2 DEF CatInv, ListingSound, ProtectedTargets
    <2> QED BY <2>1 DEF ProtectedTargets
  <1>9. SpaceSeesApproved' /\ SuspendedIsDown'
    BY <1>0, <1>1 DEF CatInv, ListingSound, SpaceSeesApproved, SuspendedIsDown, Listed
  <1> QED BY <1>0, <1>3, <1>5, <1>6, <1>7, <1>8, <1>9, SameGraph DEF CatInv, ListingSound


LEMMA PlanNarrowSound ==
  ASSUME Setting, CatInv, NEW p \in Plugins, PlanNarrow(p)
  PROVE  CatInv'
  <1> DEFINE listed == {n \in Experts \cup Teams : n # p /\ Listed(n)}
             first == {n \in listed : vis[n] = "space" /\
                         \E x \in AllEdges(n) : x[1] = p \/ p \in Targets(rel[x[1]][x[2]])}
             second == {n \in listed : Targets(AllEdges(n)) \cap first # {}}
             S == first \cup second
  <1>1. Affected(p) = S /\ S \in SUBSET Plugins
    BY DEF Affected, Plugins
  <1>2. /\ CatTyped /\ moves' \in 0..MaxMoves /\ req[p] = None
        /\ vis' = [vis EXCEPT ![p] = "private"]
        /\ list' = [n \in Plugins |-> IF n \in S THEN "delisted" ELSE list[n]]
        /\ susp' = [n \in Plugins |-> susp[n] \/ n \in S]
        /\ UNCHANGED <<draft, rel, pub, alive, req, group, approved>>
    BY <1>1, CommitTyped DEF CatInv, PlanNarrow, Suspended
  <1>3. /\ vis' \in [Plugins -> Audiences] /\ vis'[p] = "private"
        /\ \A q \in Plugins : q # p => vis'[q] = vis[q]
    BY <1>2 DEF CatTyped, Audiences
  <1>4. ASSUME NEW n \in Plugins, Listed(n), n \notin S, NEW x \in rel[n][pub[n]]
        PROVE  x[1] \notin S
    <2>1. pub[n] # 0 /\ x \in AllEdges(n)
      BY <1>4, PublishedEdges, BelowListed
    <2>2. x[1] \in Plugins /\ ((n \in Experts /\ x[1] \in Skills) \/ (n \in Teams /\ x[1] \in Experts))
      BY <2>1, EdgesBelow
    <2>3. ASSUME x[1] \in S PROVE n \in Teams /\ x[1] \in Experts
      BY <2>2, <2>3 DEF Setting
    <2>4. ASSUME x[1] \in first PROVE FALSE
      <3>1. n = p
        BY <1>4, <2>1, <2>3, <2>4 DEF Targets
      <3>2. PICK z \in AllEdges(x[1]) : z[1] = p \/ p \in Targets(rel[z[1]][z[2]])
        BY <2>4
      <3>3. p \in Skills
        BY <2>2, <2>3, <2>4, <3>2, EdgesBelow DEF Setting
      <3> QED BY <2>3, <2>4, <3>1, <3>3 DEF Setting
    <2>5. ASSUME x[1] \in second PROVE FALSE
      <3>1. PICK z \in AllEdges(x[1]) : z[1] \in first
        BY <2>5 DEF Targets
      <3>2. z[1] \in Skills
        BY <2>2, <2>3, <2>5, <3>1, EdgesBelow DEF Setting
      <3> QED BY <3>1, <3>2 DEF Setting
    <2> QED BY <2>4, <2>5
  <1>5. ASSUME NEW n \in Plugins, Listed(n), n \notin S, NEW x \in rel[n][pub[n]],
               NEW y \in {x} \cup rel[x[1]][x[2]]
        PROVE  Audience(vis'[n], vis'[y[1]])
    <2>1. pub[n] # 0 /\ y[1] \in Plugins /\ y[1] # n /\ Audience(vis[n], vis[y[1]])
      BY <1>5, BelowListed
    <2>2. x \in AllEdges(n) /\ n \in Experts \cup Teams
      BY <1>5, <2>1, PublishedEdges, EdgesBelow
    <2>3. CASE y[1] = p
      <3>1. x[1] = p \/ p \in Targets(rel[x[1]][x[2]])
        BY <1>5, <2>3 DEF Targets
      <3>2. n # p /\ vis[n] # "space"
        BY <1>5, <2>1, <2>2, <2>3, <3>1
      <3>3. vis'[n] = "private"
        BY <1>2, <1>3, <3>2 DEF CatTyped, Audiences
      <3> QED BY <3>3 DEF Audience
    <2>4. CASE y[1] # p
      BY <1>3, <2>1, <2>4 DEF Audience
    <2> QED BY <2>3, <2>4
  <1> HIDE DEF S
  <1>6. /\ list' \in [Plugins -> {"draft", "published", "delisted"}]
        /\ susp' \in [Plugins -> BOOLEAN]
        /\ \A n \in Plugins : list'[n] = IF n \in S THEN "delisted" ELSE list[n]
        /\ \A n \in Plugins : susp'[n] => susp[n] \/ n \in S
    BY <1>2 DEF CatTyped
  <1>7. CatTyped' /\ HeadSound'
    BY <1>2, <1>3, <1>6 DEF CatInv, CatTyped, HeadSound
  <1>8. GroupSound'
    BY <1>2, <1>3, OwnRequest DEF Grouped
  <1>9. \A n \in Plugins : Listed(n) /\ n \notin S =>
          \A x \in rel[n][pub[n]] :
            /\ x[1] \notin S
            /\ \A y \in {x} \cup rel[x[1]][x[2]] : Audience(vis'[n], vis'[y[1]])
    BY <1>4, <1>5
  <1>10. \A n \in Plugins : vis'[n] = "space" => vis[n] = "space"
    BY <1>3
  <1>11. ListingSound'
    BY <1>1, <1>2, <1>6, <1>9, <1>10, DownListing
  <1> QED BY <1>2, <1>7, <1>8, <1>11, SameGraph DEF CatInv

-----------------------------------------------------------------------------
LEMMA CatInit ==
  ASSUME Setting, Init
  PROVE  CatInv
  <1>1. \A p \in Plugins : /\ draft[p] = [rels |-> {}, of |-> IF p \in Skills THEN 1 ELSE 0]
                           /\ rel[p] = [l \in (IF p \in Skills THEN {1} ELSE {}) |-> {}]
                           /\ pub[p] = (IF p \in Skills THEN 1 ELSE 0)
                           /\ list[p] = (IF p \in Skills THEN "published" ELSE "draft")
                           /\ alive[p] /\ ~susp[p] /\ req[p] = None /\ group[p] = None
    BY DEF Init
  <1>2. 1 \in Labels
    BY SMT DEF Setting, Labels
  <1>3. \A p \in Plugins : /\ DOMAIN rel[p] = (IF p \in Skills THEN {1} ELSE {})
                           /\ \A l \in DOMAIN rel[p] : rel[p][l] = {}
    BY ZenonT(30), <1>1
  <1>4. ASSUME NEW p \in Plugins PROVE rel[p] \in Shelves
    <2> DEFINE D == IF p \in Skills THEN {1} ELSE {}
    <2>1. D \in SUBSET Labels /\ rel[p] \in [D -> SUBSET Pins]
      BY <1>1, <1>2
    <2> QED BY <2>1 DEF Shelves
  <1>5. draft \in [Plugins -> Drafts]
    BY <1>2 DEF Init, Drafts
  <1>6. rel \in [Plugins -> Shelves]
    BY <1>4 DEF Init
  <1>7. /\ pub \in [Plugins -> {0} \cup Labels]
        /\ list \in [Plugins -> {"draft", "published", "delisted"}]
        /\ vis \in [Plugins -> Audiences]
        /\ alive \in [Plugins -> BOOLEAN] /\ susp \in [Plugins -> BOOLEAN]
        /\ req \in [Plugins -> Requests \cup {None}] /\ DOMAIN group = Plugins
    BY <1>2 DEF Init
  <1>8. approved \subseteq Plugins \X Labels /\ moves \in 0..MaxMoves
    BY SMT, <1>2 DEF Init, Plugins, Setting
  <1>9. CatTyped
    BY <1>5, <1>6, <1>7, <1>8 DEF CatTyped
  <1>10. \A p \in Plugins : {} \in Relations(p)
    BY DEF Relations
  <1>11. ASSUME NEW p \in Plugins
         PROVE  /\ draft[p].rels = {} /\ draft[p].of = pub[p] /\ pub[p] \in {0} \cup DOMAIN rel[p]
                /\ list[p] = "published" => pub[p] # 0
    <2>1. CASE p \in Skills
      <3>1. draft[p] = [rels |-> {}, of |-> 1] /\ pub[p] = 1 /\ DOMAIN rel[p] = {1}
        BY <1>1, <1>3, <2>1
      <3> QED BY SMT, <3>1
    <2>2. CASE p \notin Skills
      <3>1. draft[p] = [rels |-> {}, of |-> 0] /\ pub[p] = 0 /\ list[p] = "draft"
        BY <1>1, <2>2
      <3> QED BY SMT, <3>1
    <2> QED BY <2>1, <2>2
  <1>12. GraphSound
    <2>1. ASSUME NEW p \in Plugins, NEW l \in DOMAIN rel[p]
          PROVE  rel[p][l] \in Relations(p) /\ \A x \in rel[p][l] : PinReleased(x)
      <3>1. rel[p][l] = {}
        BY <1>3
      <3> QED BY <1>10, <3>1
    <2> QED BY <1>11, <2>1 DEF GraphSound
  <1>13. \A p \in Plugins : req[p] = None /\ group[p] = None /\ alive[p] /\ ~susp[p]
    BY <1>1
  <1>14. HeadSound /\ GroupSound
    <2>1. \A p \in Plugins : draft[p].of # 0 => rel[p][draft[p].of] = {}
      BY <1>3, <1>11
    <2> QED BY <1>10, <1>11, <1>13, <2>1 DEF HeadSound, GroupSound, Grouped
  <1>15. \A p \in Plugins : pub[p] # 0 => p \in Skills /\ rel[p][pub[p]] = {}
    BY <1>1, <1>3
  <1>16. ListedIsUsable
    BY <1>11, <1>15 DEF ListedIsUsable, Listed
  <1>17. ProtectedTargets /\ SuspendedIsDown
    BY <1>13 DEF ProtectedTargets, SuspendedIsDown
  <1>18. SpaceSeesApproved
    BY <1>1 DEF SpaceSeesApproved, Init, Listed
  <1> QED BY <1>9, <1>12, <1>14, <1>16, <1>17, <1>18 DEF CatInv, ListingSound

(* A step is a release or leaves every release and publication.            *)
ReleasesOr(A) ==
  \/ A /\ UNCHANGED <<rel, pub>>
  \/ \E p \in Plugins, label \in Labels : \E R \in Relations(p) :
       /\ ReleaseStep(p, label, R)
       /\ IF label \in DOMAIN rel[p] THEN draft[p].of = label
          ELSE pub[p] = 0 \/ label > pub[p]

LEMMA StepKinds ==
  ASSUME Setting, CatInv, Next
  PROVE  ReleasesOr(CatInv')
  <1>0. PICK p \in Plugins :
          \/ \E R \in Relations(p), v \in Audiences : Save(p, R, v)
          \/ \E l \in Labels : PublishManaged(p, l)
          \/ \E l \in Labels : InsertReviewRequest(p, l)
          \/ approveManagedReview(p)
          \/ RejectOrCancel(p)
          \/ \E T \in SUBSET Below(p), l \in Labels, auto \in BOOLEAN :
                  SubmitDependencyUpdates(p, T, l, auto)
          \/ DelistPlugin(p)
          \/ Delete(p)
          \/ Narrow(p)
          \/ \E auto \in BOOLEAN : Widen(p, auto)
          \/ approveVisibilityReview(p)
          \/ \E auto \in BOOLEAN : PlanWiden(p, auto)
          \/ applyVisibilityGroup(p)
          \/ PlanNarrow(p)
    BY DEF Next
  <1>1. CASE \E R \in Relations(p), v \in Audiences : Save(p, R, v)
    BY <1>1, SaveSound DEF Save, ReleasesOr
  <1>2. CASE \E l \in Labels : PublishManaged(p, l)
    <2>1. PICK l \in Labels : PublishManaged(p, l)
      BY <1>2
    <2>2. draft[p].rels \in Relations(p) /\ ReleaseStep(p, l, draft[p].rels)
      BY <2>1, PublishStep
    <2>3. IF l \in DOMAIN rel[p] THEN draft[p].of = l ELSE pub[p] = 0 \/ l > pub[p]
      BY <2>1 DEF PublishManaged, Releasable
    <2> QED BY <2>2, <2>3 DEF ReleasesOr
  <1>3. CASE \E l \in Labels : InsertReviewRequest(p, l)
    BY <1>3, InsertSound DEF InsertReviewRequest, ReleasesOr
  <1>4. CASE approveManagedReview(p)
    BY <1>4, ApproveStep DEF ReleasesOr
  <1>5. CASE RejectOrCancel(p)
    BY <1>5, RejectSound DEF RejectOrCancel, ReleasesOr
  <1>6. CASE \E T \in SUBSET Below(p), l \in Labels, auto \in BOOLEAN :
               SubmitDependencyUpdates(p, T, l, auto)
    BY <1>6, SubmitStep DEF ReleasesOr
  <1>7. CASE DelistPlugin(p)
    BY <1>7, DelistSound DEF DelistPlugin, ReleasesOr
  <1>8. CASE Delete(p)
    BY <1>8, DeleteSound DEF Delete, ReleasesOr
  <1>9. CASE Narrow(p)
    BY <1>9, NarrowSound DEF Narrow, ReleasesOr
  <1>10. CASE \E auto \in BOOLEAN : Widen(p, auto)
    BY <1>10, WidenSound DEF Widen, ReleasesOr
  <1>11. CASE approveVisibilityReview(p)
    BY <1>11, ApproveVisibilitySound DEF approveVisibilityReview, ReleasesOr
  <1>12. CASE \E auto \in BOOLEAN : PlanWiden(p, auto)
    BY <1>12, PlanWidenSound DEF PlanWiden, ReleasesOr
  <1>13. CASE applyVisibilityGroup(p)
    BY <1>13, ApplyGroupSound DEF applyVisibilityGroup, ReleasesOr
  <1>14. CASE PlanNarrow(p)
    BY <1>14, PlanNarrowSound DEF PlanNarrow, ReleasesOr
  <1> QED BY <1>0, <1>1, <1>2, <1>3, <1>4, <1>5, <1>6, <1>7, <1>8, <1>9, <1>10, <1>11, <1>12,
             <1>13, <1>14

LEMMA CatStep ==
  ASSUME Setting, CatInv, [Next]_vars
  PROVE  CatInv'
  <1>1. CASE Next
    BY <1>1, StepKinds, ReleaseSound DEF ReleasesOr
  <1>2. CASE UNCHANGED vars
    <2>1. CatTyped' /\ HeadSound'
      BY <1>2 DEF vars, CatInv, CatTyped, HeadSound
    <2>2. GroupSound'
      BY <1>2, GroupsKept DEF vars, CatInv
    <2> QED BY <1>2, <2>1, <2>2, QuietSound DEF vars
  <1> QED BY <1>1, <1>2

LEMMA HistoryStep ==
  ASSUME Setting, CatInv, [Next]_vars
  PROVE  [KeepsReleases /\ BackToHead]_vars
  <1>1. CASE Next
    <2>1. CASE UNCHANGED <<rel, pub>>
      <3>1. \A q \in Plugins : ~(pub'[q] < pub[q])
        BY SMT, <2>1 DEF CatInv, CatTyped, Labels
      <3> QED BY <2>1, <3>1 DEF KeepsReleases, BackToHead
    <2>2. CASE \E p \in Plugins, label \in Labels : \E R \in Relations(p) :
                 /\ ReleaseStep(p, label, R)
                 /\ IF label \in DOMAIN rel[p] THEN draft[p].of = label
                    ELSE pub[p] = 0 \/ label > pub[p]
      <3>1. PICK p \in Plugins, label \in Labels : \E R \in Relations(p) :
                 /\ ReleaseStep(p, label, R)
                 /\ IF label \in DOMAIN rel[p] THEN draft[p].of = label
                    ELSE pub[p] = 0 \/ label > pub[p]
        BY <2>2
      <3>2. PICK R \in Relations(p) :
                 /\ ReleaseStep(p, label, R)
                 /\ IF label \in DOMAIN rel[p] THEN draft[p].of = label
                    ELSE pub[p] = 0 \/ label > pub[p]
        BY <3>1
      <3>3. KeepsReleases
        BY <3>2, ReleaseKeeps DEF KeepsReleases
      <3>4. pub'[p] = label /\ \A q \in Plugins : q # p => pub'[q] = pub[q]
        BY <3>2, ReleaseShape
      <3>5. /\ \A q \in Plugins : pub[q] \in Nat
            /\ label \in Nat \ {0}
        BY SMT DEF CatInv, CatTyped, Labels
      <3>6. ASSUME NEW q \in Plugins, pub'[q] < pub[q]
            PROVE  pub'[q] \in DOMAIN rel[q] /\ draft[q].of = pub'[q]
        <4>1. q = p
          BY SMT, <3>4, <3>5, <3>6
        <4>2. label < pub[p]
          BY <3>4, <3>6, <4>1
        <4>3. label \in DOMAIN rel[p]
          BY SMT, <3>2, <3>5, <4>2
        <4> QED BY <3>2, <3>4, <4>1, <4>3
      <3> QED BY <3>3, <3>6 DEF BackToHead
    <2> QED BY <1>1, <2>1, <2>2, StepKinds DEF ReleasesOr
  <1> QED BY <1>1

(* The invariant gives the promises.                                       *)
LEMMA CatPromises ==
  ASSUME Setting, CatInv
  PROVE  CatalogueSound /\ TypeOK
  <1>1. GroupHolds
    <2>1. ASSUME NEW r \in Plugins, group[r] = None, NEW n \in Plugins, Grouped(n)
          PROVE  req[n].root # r
      BY <2>1 DEF CatInv, GroupSound
    <2>2. ASSUME NEW r \in Plugins, group[r] # None, NEW n \in group[r].changes
          PROVE  /\ alive[n] /\ vis[n] = group[r].baseline[n][1]
                 /\ pub[n] = group[r].baseline[n][3]
                 /\ req[n] # None /\ req[n].root = r
      BY SMT, <2>2 DEF CatInv, GroupSound, Grouped
    <2> QED BY <2>1, <2>2 DEF GroupHolds
  <1>2. CatalogueSound
    BY <1>1 DEF CatalogueSound, CatInv, ListingSound
  <1>3. ASSUME NEW p \in Plugins
        PROVE  /\ draft[p].rels \in Relations(p) /\ draft[p].of \in {0} \cup DOMAIN rel[p]
               /\ DOMAIN rel[p] \subseteq Labels /\ \A l \in DOMAIN rel[p] : rel[p][l] \in Relations(p)
               /\ pub[p] \in {0} \cup DOMAIN rel[p]
               /\ req[p] = None \/ req[p].kind \in {"release", "visibility", "group"}
    <2>1. rel[p] \in Shelves /\ req[p] \in Requests \cup {None}
      BY DEF CatInv, CatTyped
    <2>2. DOMAIN rel[p] \subseteq Labels
      BY <2>1 DEF Shelves
    <2>3. req[p] = None \/ req[p].kind \in {"release", "visibility", "group"}
      BY <2>1 DEF Requests
    <2> QED BY <2>2, <2>3 DEF CatInv, GraphSound, HeadSound
  <1>4. TypeOK
    BY <1>3 DEF TypeOK, CatInv, CatTyped
  <1> QED BY <1>2, <1>4

-----------------------------------------------------------------------------
(* TypeOK: drafts, releases and requests stay within the relation matrix,  *)
(* and what is published is a release, whatever the transactions.          *)
THEOREM TypeCorrect == Setting => (Spec => []TypeOK)
  <1> SUFFICES ASSUME Setting PROVE Spec => []TypeOK
    OBVIOUS
  <1>1. Init => CatInv
    BY CatInit
  <1>2. CatInv /\ [Next]_vars => CatInv'
    BY CatStep
  <1>3. CatInv => TypeOK
    BY CatPromises
  <1> QED BY <1>1, <1>2, <1>3, PTL DEF Spec

(* CatalogueSound: for any catalogue, releases, reviews, audience changes, *)
(* plans, takedowns and deletions leave every listed plugin usable for     *)
(* those who see it and approved for the Space if the Space sees it, no    *)
(* published graph loses a target, a suspended plugin is down, and the     *)
(* members of a waiting group are as they were confirmed.                  *)
THEOREM ListedStaysUsable == Setting => (Spec => []CatalogueSound)
  <1> SUFFICES ASSUME Setting PROVE Spec => []CatalogueSound
    OBVIOUS
  <1>1. Init => CatInv
    BY CatInit
  <1>2. CatInv /\ [Next]_vars => CatInv'
    BY CatStep
  <1>3. CatInv => CatalogueSound
    BY CatPromises
  <1> QED BY <1>1, <1>2, <1>3, PTL DEF Spec

(* HistoryKept: recordRelease never changes a release, and publication     *)
(* goes back only to the release the head is.                              *)
THEOREM ReleasesAreKept == Setting => (Spec => HistoryKept)
  <1> SUFFICES ASSUME Setting PROVE Spec => HistoryKept
    OBVIOUS
  <1>1. Init => CatInv
    BY CatInit
  <1>2. CatInv /\ [Next]_vars => CatInv'
    BY CatStep
  <1>3. CatInv /\ [Next]_vars => [KeepsReleases /\ BackToHead]_vars
    BY HistoryStep
  <1> QED BY <1>1, <1>2, <1>3, PTL DEF Spec, HistoryKept
=============================================================================
