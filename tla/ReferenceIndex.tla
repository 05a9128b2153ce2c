--------------------------- MODULE ReferenceIndex ---------------------------
(***************************************************************************)
(* The index of references: for each version its relations as rows, and a  *)
(* marker that the rows are all of them.  Saves write it when references   *)
(* are on; an operator's tool rebuilds it for versions from before, or     *)
(* from a time when references were off; a deletion asks it who uses the   *)
(* plugin.  Version history never changes.  Connectors, which have no      *)
(* versions, are left out.                                                 *)
(***************************************************************************)
EXTENDS Naturals, FiniteSets

CONSTANTS Skills, Experts, Teams,
          MaxVersion,   \* bound on the versions of a plugin
          MaxSaves,     \* bound on saves
          None

VARIABLES snap,       \* relations of each version; None before it is saved
          released,
          pub,        \* the published version of each plugin, 0 if none
          gone,       \* deleted plugins
          legacy,     \* published without a pointer: "listed", "delisted" or None
          embedded, torn, \* embedded plugins; old snapshots that do not parse
          refs, mark, \* the index: rows of each version, and [count, digest] or None
          on, saves

vars == <<snap, released, pub, gone, legacy, embedded, torn, refs, mark, on, saves>>

Plugins == Skills \cup Experts \cup Teams
Versions == Plugins \X (1..MaxVersion)
Below(p) == IF p \in Teams THEN Experts ELSE IF p \in Experts THEN Skills ELSE {}
Relation == [target : Plugins, pin : 0..MaxVersion, active : BOOLEAN]
Pinned(r) == <<r.target, r.pin>>

Active(v) == {r \in snap[v] : r.active}
Edges(R) == {<<r.target, r.pin>> : r \in R}
Current(p) == CHOOSE n \in 0..MaxVersion : /\ n # 0 => snap[<<p, n>>] # None
                                          /\ \A m \in (n + 1)..MaxVersion : snap[<<p, m>>] = None

TypeOK ==
  /\ \A v \in Versions : snap[v] = None \/ snap[v] \subseteq Relation
  /\ released \subseteq Versions /\ pub \in [Plugins -> 0..MaxVersion] /\ gone \subseteq Plugins
  /\ embedded \subseteq Plugins /\ torn \subseteq Versions
  /\ \A v \in Versions : refs[v] \subseteq Plugins \X (0..MaxVersion)
  /\ \A v \in Versions : mark[v] = None \/ mark[v].count \in Nat
  /\ on \in BOOLEAN /\ saves \in 0..MaxSaves

(* Histories: relations from before pins, inactive ones, rows from before  *)
(* there was a marker, publications from before there was a pointer.       *)
OldSnapshots(p) == {R \in SUBSET {r \in Relation : /\ r.target \in Below(p) /\ r.pin < 2
                                                   /\ r.active \/ (r.pin = 1 /\ p \in Experts)} :
                      \A r, s \in R : r.target = s.target => r = s}

Sound(v) == \A r \in snap[v] : r.active /\ r.pin = 1

Init ==
  /\ \E R \in [Experts \cup Teams -> UNION {OldSnapshots(p) : p \in Experts \cup Teams}] :
       /\ \A p \in Experts \cup Teams : R[p] \in OldSnapshots(p)
       /\ snap = [v \in Versions |-> IF v[2] # 1 THEN None ELSE IF v[1] \in Skills THEN {} ELSE R[v[1]]]
  /\ gone = {}
  /\ \E l \in {"listed", "delisted", "embedded", "torn", "rows", None} :
       /\ released \in CASE l = "embedded" -> {{}}
                         [] l \in {"listed", "delisted"} -> {Skills \X {1}}
                         [] l \in {"torn", "rows"} -> {Plugins \X {1}}
                         [] OTHER -> {Skills \X {1}, Plugins \X {1}}
       /\ pub = [p \in Plugins |-> IF <<p, 1>> \in released THEN 1 ELSE 0]
       /\ legacy = [p \in Plugins |-> IF l \in {"listed", "delisted"} /\ p \notin Skills /\ pub[p] = 0 THEN l ELSE None]
       /\ embedded = IF l = "embedded" THEN Skills ELSE {}
       /\ torn \in IF l = "torn" THEN {{<<p, 1>>} : p \in Experts \cup Teams} ELSE {{}}
       /\ refs = [v \in Versions |-> IF l = "rows" /\ v[2] = 1 /\ Sound(v) THEN Edges(snap[v]) ELSE {}]
  /\ mark = [v \in Versions |-> None] /\ on \in BOOLEAN /\ saves = 0

-----------------------------------------------------------------------------
(* Who uses a plugin.                                                      *)

Selected == {<<p, pub[p]>> : p \in {q \in Plugins \ gone : pub[q] # 0}}

(* The versions that may be what a plugin publishes.                       *)
compatibilitySnapshots(p) ==
  IF pub[p] # 0 THEN {<<p, pub[p]>>}
  ELSE IF legacy[p] = "listed" THEN {<<p, Current(p)>>}
  ELSE {v \in Versions : v[1] = p /\ snap[v] # None}

Inspected(v, p) == v \notin torn /\ \A r \in snap[v] : r.target # p

(* The published snapshots do not lead to the plugin: the roots', and for  *)
(* a team its members', at the pinned version or at any that may be        *)
(* published.  A snapshot that cannot be read refuses.                     *)
rejectCompatibilityIncomingRelations(p, legacyOnly) ==
  \A q \in {x \in Plugins \ (gone \cup {p}) : IF legacyOnly THEN pub[x] = 0 /\ legacy[x] # None ELSE pub[x] # 0 \/ legacy[x] # None} :
    \A v \in compatibilitySnapshots(q) :
      /\ Inspected(v, p)
      /\ q \in Teams => \A r \in {x \in snap[v] : x.target \notin gone} :
           IF r.pin # 0 THEN snap[Pinned(r)] # None /\ Inspected(Pinned(r), p)
           ELSE compatibilitySnapshots(r.target) # {} /\ \A w \in compatibilitySnapshots(r.target) : Inspected(w, p)

MemberVersions == UNION {refs[v] : v \in {w \in Selected : w[1] \in Teams}}

Verified(v) == mark[v] # None /\ mark[v] = [count |-> Cardinality(refs[v]), digest |-> snap[v]]

(* Mutant: only the published versions themselves are looked at.           *)
PublishedVerified == \A v \in Selected : Verified(v)

(* The rows are all there for each published version and each version a    *)
(* published team pins.                                                    *)
indexComplete == \A v \in Selected \cup MemberVersions : v \in Versions /\ Verified(v)

(* The index's answer.                                                     *)
indexedIncoming(p) ==
  \E v \in Selected \cup (MemberVersions \cap Versions) : v[1] \notin gone /\ \E e \in refs[v] : e[1] = p

rejectLiveIncomingRelations(p) ==
  \A q \in Plugins \ gone : \A r \in Active(<<q, Current(q)>>) : r.target # p

rejectPublishedIncomingRelations(p) ==
  IF on THEN rejectCompatibilityIncomingRelations(p, TRUE) /\ indexComplete /\ ~indexedIncoming(p)
  ELSE rejectCompatibilityIncomingRelations(p, FALSE)

-----------------------------------------------------------------------------
(* The service.                                                            *)

writeReferenceIndex(v, R) ==
  /\ refs' = [refs EXCEPT ![v] = Edges(R)]
  /\ mark' = [mark EXCEPT ![v] = [count |-> Cardinality(R), digest |-> R]]

(* A reference by the rules: a live plugin of its own, pinned to a release *)
(* that can be read.                                                       *)
ValidateReferenceMetadata(p, r) ==
  /\ r.active /\ r.target \in Below(p) \ (gone \cup embedded)
  /\ r.pin # 0 /\ Pinned(r) \in released \ torn

validateReleasedReference(p, r) ==
  /\ ValidateReferenceMetadata(p, r)
  /\ \A d \in snap[Pinned(r)] : ValidateReferenceMetadata(r.target, d)

Listed(r) == pub[r.target] # 0 \/ legacy[r.target] = "listed"

(* With references on every relation is pinned; with references off none   *)
(* is, unless it was there before.                                         *)
lockReferences(p, r) ==
  IF on THEN validateReleasedReference(p, r) /\ (Listed(r) \/ r \in snap[<<p, Current(p)>>])
  ELSE r.target \notin gone /\ (r.pin = 0 \/ r \in snap[<<p, Current(p)>>])

snapshotVersion(p, R) ==
  LET v == <<p, Current(p) + 1>> IN
  /\ saves < MaxSaves /\ saves' = saves + 1
  /\ p \notin gone \cup embedded /\ v \in Versions
  /\ \A r \in R : lockReferences(p, r)
  /\ snap' = [snap EXCEPT ![v] = R]
  /\ IF on THEN writeReferenceIndex(v, R) ELSE UNCHANGED <<refs, mark>>
  /\ UNCHANGED <<released, pub, gone, legacy, embedded, torn, on>>

validateReleaseReferences(v) ==
  /\ v \notin torn
  /\ \A r \in snap[v] : /\ r.target \notin gone
                        /\ on \/ r.pin # 0 => validateReleasedReference(v[1], r) /\ Listed(r)

recordRelease(p) ==
  LET v == <<p, Current(p)>> IN
  /\ p \notin gone \cup embedded /\ validateReleaseReferences(v)
  /\ released' = released \cup {v} /\ pub' = [pub EXCEPT ![p] = v[2]] /\ legacy' = [legacy EXCEPT ![p] = None]
  /\ UNCHANGED <<snap, gone, embedded, torn, refs, mark, on, saves>>

PublishManaged(p) == legacy[p] # "listed" /\ recordRelease(p)

(* An old listing gets its release and its pointer; the evidence for it,   *)
(* content unchanged and approved, is the caller's.                        *)
AdoptPublishedBaseline(p) == legacy[p] = "listed" /\ recordRelease(p)

Delete(p) ==
  /\ p \notin gone \cup embedded
  /\ rejectPublishedIncomingRelations(p) /\ rejectLiveIncomingRelations(p)
  /\ gone' = gone \cup {p}
  /\ UNCHANGED <<snap, released, pub, legacy, embedded, torn, refs, mark, on, saves>>

(* The feature flag, at a deployment or a rollback.                        *)
Switch ==
  /\ on' = ~on
  /\ UNCHANGED <<snap, released, pub, gone, legacy, embedded, torn, refs, mark, saves>>

-----------------------------------------------------------------------------
(* The tool.                                                               *)

unambiguousJSON(v) == v \notin torn

(* The evidence, in one consistent view.                                   *)
read == [resources |-> Plugins \ embedded, snapshots |-> {v \in Versions : snap[v] # None}, releases |-> released]

Proven(evidence, v, r) ==
  /\ r.target \in Below(v[1]) \cap evidence.resources
  /\ r.pin # 0 /\ Pinned(r) \in evidence.snapshots \cap evidence.releases

Build(v) ==
  LET evidence == read IN
  [complete |-> /\ v \in evidence.snapshots /\ v[1] \in evidence.resources /\ unambiguousJSON(v)
                /\ \A r \in Active(v) : Proven(evidence, v, r),
   edges |-> IF snap[v] = None THEN {} ELSE Edges(Active(v))]

(* One transaction for one version, with the digest a preview showed; what *)
(* was previewed cannot have changed, so any other digest is refused and   *)
(* leaves no trace.  The evidence is read again, the rows that are there   *)
(* must be among the planned, the missing ones and the marker are added.   *)
ApplyVersion(v) ==
  LET plan == Build(v)
      state == [count |-> Cardinality(plan.edges), digest |-> snap[v]] IN
  /\ plan.complete
  /\ refs[v] \subseteq plan.edges /\ mark[v] \in {None, state}
  /\ refs' = [refs EXCEPT ![v] = plan.edges] /\ mark' = [mark EXCEPT ![v] = state]
  /\ UNCHANGED <<snap, released, pub, gone, legacy, embedded, torn, on, saves>>

-----------------------------------------------------------------------------
(* Who depends on a plugin, in any version, for an operator.               *)

ensureReferenceIndexComplete == \A v \in read.snapshots : v[1] \notin gone => Verified(v)

ReferenceDependents(p) ==
  LET first == {v \in Versions : \E e \in refs[v] : e[1] = p} IN
  {v \in first \cup {w \in Versions : refs[w] \cap first # {}} : v[1] \notin gone}

(* A skill's versions have no relations: its first stands for all.         *)
Drafts(p) == {{}} \cup {{r} : r \in [target : Below(p), pin : 0..MaxVersion, active : {TRUE}]}

Next ==
  \/ \E p \in Experts \cup Teams : \E R \in Drafts(p) : snapshotVersion(p, R)
  \/ \E p \in Plugins : PublishManaged(p) \/ AdoptPublishedBaseline(p) \/ Delete(p)
  \/ Switch
  \/ \E v \in Versions : ApplyVersion(v)

Spec == Init /\ [][Next]_vars

-----------------------------------------------------------------------------
(* A marked version is indexed in full: its rows are the relations of its  *)
(* snapshot, whether a save or the tool wrote them and whatever rows the   *)
(* tool found.                                                             *)
MarkIsTruth == \A v \in Versions : mark[v] # None => refs[v] = Edges(Active(v)) /\ Verified(v)

(* What is really in use: the published versions, the current ones of old  *)
(* listings, and for a team its members', pinned or published.             *)
Roots == Selected \cup {<<p, Current(p)>> : p \in {q \in Plugins \ gone : legacy[q] = "listed"}}
MemberOf(r) == IF r.pin # 0 THEN {Pinned(r)} ELSE {v \in Roots : v[1] = r.target}
Uses(V, p) == \E v \in V : \E r \in Active(v) :
                r.target = p \/ (v[1] \in Teams /\ \E w \in MemberOf(r) : \E d \in Active(w) : d.target = p)

(* Once the check of the markers passes, the index says of every plugin    *)
(* what reading the published snapshots would say.                         *)
UsesAgree == indexComplete => \A p \in Plugins : indexedIncoming(p) <=> Uses(Selected, p)

(* The dependents an operator is shown do use the plugin, directly or      *)
(* through a member, and none is missing, except one that uses it through  *)
(* a deleted member only: the versions of those are not checked.           *)
DependentsAgree ==
  ensureReferenceIndexComplete => \A p \in Plugins \ gone : \A v \in {w \in read.snapshots : w[1] \notin gone} :
    /\ v \in ReferenceDependents(p) => Uses({v}, p)
    /\ Uses({v}, p) => v \in ReferenceDependents(p) \/ \E r \in Active(v) : r.target \in gone

(* No published graph uses a deleted plugin, through all switches of the   *)
(* flag and with versions that are not indexed.                            *)
DeletedUnused == \A p \in gone : ~Uses(Roots, p)

(* The index of references says what the snapshots say wherever it is      *)
(* trusted (ApplyVersion, rejectPublishedIncomingRelations,                *)
(* ReferenceDependents).                                                   *)
IndexSound ==
  /\ MarkIsTruth
  /\ UsesAgree
  /\ DependentsAgree
  /\ DeletedUnused
=============================================================================
