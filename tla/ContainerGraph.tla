--------------------------- MODULE ContainerGraph ---------------------------
(***************************************************************************)
(* Containers: an expert or a team uploaded as one archive, stored as a    *)
(* top plugin with embedded children (skills; members and their skills)    *)
(* that belong to it alone.  An import or a re-upload builds the graph and *)
(* its files outside the database, then writes it in one transaction;      *)
(* authors and operators save, delete and re-upload meanwhile.  References *)
(* and version management are off, as they are where containers have       *)
(* embedded children.                                                      *)
(***************************************************************************)
EXTENDS Naturals, FiniteSets

CONSTANTS Callers,
          Files,        \* skill packages an archive can hold
          Binary,       \* those with a file that is not stored inline
          Members,
          Experts,      \* archives of an expert: sets of files
          Teams,        \* archives of a team: the files of each member
          MaxRuns,      \* bound on uploads
          None

VARIABLES kind,     \* of each top: "expert" or "team"; None before its import
          live,     \* rows that are not deleted
          edge,     \* live relations
          staged,   \* skills with an object under their upload key
          frozen,   \* contents stored under the key of their hash, per tenant space
          call, runs,
          dropped   \* children whose relation an author's save removed

vars == <<kind, live, edge, staged, frozen, call, runs, dropped>>

Runs == 0..MaxRuns
Library == <<0, "library">>   \* a skill of its own
Top(r) == <<r, "top">>
Rows == {Library} \cup (Runs \X ({"top"} \cup Members \cup Files))
Embedded(n) == n[2] \in Members \cup Files
Type(n) == IF n[2] = "top" THEN kind[n[1]] ELSE IF n[2] \in Members THEN "expert" ELSE "skill"

NoCall == [op |-> "idle", top |-> None, run |-> 0, arc |-> None, todo |-> {}, up |-> None, mine |-> {}]

Archives == {[kind |-> "expert", top |-> s, of |-> <<>>] : s \in Experts} \cup {[kind |-> "team", top |-> {}, of |-> t] : t \in Teams}

TypeOK ==
  /\ kind \in [Runs -> {"expert", "team", None}]
  /\ live \subseteq Rows /\ edge \subseteq Rows \X Rows /\ dropped \subseteq Rows
  /\ staged \subseteq Rows /\ frozen \subseteq Files /\ runs \in Runs
  /\ \A c \in Callers : call[c].op \in {"idle", "import", "reupload", "undo", "discard"} /\ call[c].todo \subseteq Files
                        /\ call[c].arc \in Archives \cup {None}

-----------------------------------------------------------------------------
(* Building the graph.                                                     *)

(* One node for each (file, name), however many members refer to it.       *)
buildSkillNode(r, f) == <<r, f>>

Packages(a) == a.top \cup UNION {a.of[m] : m \in DOMAIN a.of}

buildExpertGraph(r, t, a) == {<<t, buildSkillNode(r, f)>> : f \in a.top}

buildSquadGraph(r, t, a) ==
  {<<t, <<r, m>>>> : m \in DOMAIN a.of}
    \cup UNION {{<<<<r, m>>, buildSkillNode(r, f)>> : f \in a.of[m]} : m \in DOMAIN a.of}

Graph(r, t, a) == IF a.kind = "expert" THEN buildExpertGraph(r, t, a) ELSE buildSquadGraph(r, t, a)

Init ==
  /\ \E a \in Archives :
       /\ kind = [r \in Runs |-> IF r = 0 THEN a.kind ELSE None]
       /\ edge = Graph(0, Top(0), a)
       /\ live = {Library, Top(0)} \cup {e[2] : e \in edge}
       /\ frozen = Packages(a) \cap Binary
  /\ staged = {} /\ call = [c \in Callers |-> NoCall] /\ runs = 0 /\ dropped = {}

(* The embedded rows below a live row.                                     *)
embeddedRelationTargets(n) == {m \in live : Embedded(m) /\ <<n, m>> \in edge}

collectEmbeddedChildren(t) ==
  LET direct == embeddedRelationTargets(t) IN
  direct \cup (IF Type(t) = "team" THEN UNION {embeddedRelationTargets(m) : m \in direct} ELSE {})

Begin(c, op, t, a) ==
  /\ call[c] = NoCall /\ runs < MaxRuns /\ runs' = runs + 1
  /\ call' = [call EXCEPT ![c] = [NoCall EXCEPT !.op = op, !.top = t, !.run = runs + 1, !.arc = a, !.todo = Packages(a)]]
  /\ UNCHANGED <<kind, live, edge, staged, frozen, dropped>>

ImportContainer(c, a) == Begin(c, "import", Top(runs + 1), a)

(* The target is found, is not embedded and is of the archive's kind.      *)
ReuploadContainer(c, t, a) == t \in live /\ t[2] = "top" /\ Type(t) = a.kind /\ Begin(c, "reupload", t, a)

Building(c) == call[c].op \in {"import", "reupload"}

(* An import is for the global space, whose empty name can hold no object: *)
(* only the re-upload of a tenant's container stores files.                *)
ObjectSpace(c) == call[c].top = Top(0)

(* buildSkillAttachmentTree: everything inline, or an object under the     *)
(* upload key of the new skill.                                            *)
buildSkillAttachmentTree(c, f) ==
  /\ Building(c) /\ f \in call[c].todo /\ call[c].up = None
  /\ IF f \notin Binary THEN call' = [call EXCEPT ![c].todo = @ \ {f}] /\ UNCHANGED staged
     ELSE IF ObjectSpace(c) THEN /\ staged' = staged \cup {buildSkillNode(call[c].run, f)}
                                 /\ call' = [call EXCEPT ![c].up = f, ![c].mine = @ \cup {buildSkillNode(call[c].run, f)}]
     ELSE call' = [call EXCEPT ![c].op = "undo"] /\ UNCHANGED staged
  /\ UNCHANGED <<kind, live, edge, frozen, runs, dropped>>

(* The content goes to the key of its hash, which saves share.             *)
freezeArtifact(f) == frozen \cup {f}

freezeVersionArtifacts(c) ==
  /\ Building(c) /\ call[c].up # None
  /\ frozen' = freezeArtifact(call[c].up)
  /\ call' = [call EXCEPT ![c].todo = @ \ {call[c].up}, ![c].up = None]
  /\ UNCHANGED <<kind, live, edge, staged, runs, dropped>>

(* Storage, the archive, the budget or the database refuses.               *)
Fails(c) ==
  /\ Building(c) /\ call' = [call EXCEPT ![c].op = "undo"]
  /\ UNCHANGED <<kind, live, edge, staged, frozen, runs, dropped>>

-----------------------------------------------------------------------------
(* Writing it.                                                             *)

CreateGraph(c) ==
  LET x == call[c]  new == Graph(x.run, x.top, x.arc) IN
  /\ x.op = "import" /\ x.todo = {}
  /\ kind' = [kind EXCEPT ![x.run] = x.arc.kind]
  /\ live' = live \cup {x.top} \cup {e[2] : e \in new} /\ edge' = edge \cup new
  /\ call' = [call EXCEPT ![c].op = "discard"]
  /\ UNCHANGED <<staged, frozen, runs, dropped>>

(* softDeleteRebuiltChild: the rows and the relations from them.           *)
Without(S) == [rows |-> live \ S, edges |-> {e \in edge : e[1] \notin S}]

(* The previous children are found under the top's lock.                   *)
RebuildGraph(c) ==
  LET x == call[c]  new == Graph(x.run, x.top, x.arc)  rest == Without(collectEmbeddedChildren(x.top)) IN
  /\ x.op = "reupload" /\ x.todo = {}
  /\ IF x.top \in live
       THEN /\ live' = rest.rows \cup {e[2] : e \in new}
            /\ edge' = {e \in rest.edges : e[1] # x.top} \cup new
            /\ call' = [call EXCEPT ![c].op = "discard"]
       ELSE call' = [call EXCEPT ![c].op = "undo"] /\ UNCHANGED <<live, edge>>
  /\ UNCHANGED <<kind, staged, frozen, runs, dropped>>

(* The upload keys are given up after a failure and after a success; a     *)
(* deletion that fails is not tried again.  What is frozen stays.          *)
deleteObjects(c) ==
  /\ call[c].op \in {"undo", "discard"}
  /\ \E gone \in SUBSET call[c].mine : staged' = staged \ gone
  /\ call' = [call EXCEPT ![c] = NoCall]
  /\ UNCHANGED <<kind, live, edge, frozen, runs, dropped>>

(* The process stops anywhere.                                             *)
Crash(c) ==
  /\ call[c] # NoCall /\ call' = [call EXCEPT ![c] = NoCall]
  /\ UNCHANGED <<kind, live, edge, staged, frozen, runs, dropped>>

-----------------------------------------------------------------------------
(* Saves and deletions.                                                    *)

(* Mutant: a row in use is deleted as well.                                *)
NoIncomingCheck(n) == TRUE

rejectLiveIncomingRelations(n) == \A e \in edge : e[2] = n => e[1] \notin live

DeleteGraph(t) ==
  LET rest == Without({t} \cup collectEmbeddedChildren(t)) IN
  /\ t \in live /\ Type(t) \in {"expert", "team"} /\ rejectLiveIncomingRelations(t)
  /\ live' = rest.rows /\ edge' = rest.edges
  /\ UNCHANGED <<kind, staged, frozen, call, runs, dropped>>

Delete(n) ==
  /\ n \in live /\ Type(n) = "skill" /\ rejectLiveIncomingRelations(n)
  /\ live' = live \ {n} /\ edge' = {e \in edge : e[1] # n}
  /\ UNCHANGED <<kind, staged, frozen, call, runs, dropped>>

(* An embedded target must be one the top refers to already.               *)
lockRelationTargets(t, n) ==
  /\ n \in live /\ Type(n) = (IF Type(t) = "team" THEN "expert" ELSE "skill") /\ n # t
  /\ Embedded(n) => <<t, n>> \in edge

(* The relations become those of the save.                                 *)
syncRelations(t, T) == {e \in edge : e[1] # t} \cup {<<t, n>> : n \in T}

Update(t, T) ==
  /\ t \in live /\ t[2] = "top" /\ \A n \in T : lockRelationTargets(t, n)
  /\ edge' = syncRelations(t, T)
  /\ dropped' = dropped \cup (LET out == embeddedRelationTargets(t) \ T IN out \cup UNION {embeddedRelationTargets(m) : m \in out})
  /\ UNCHANGED <<kind, live, staged, frozen, call, runs>>

Next ==
  \/ \E c \in Callers :
       \/ \E a \in Archives : ImportContainer(c, a) \/ \E r \in Runs : ReuploadContainer(c, Top(r), a)
       \/ \E f \in Files : buildSkillAttachmentTree(c, f)
       \/ freezeVersionArtifacts(c) \/ Fails(c) \/ CreateGraph(c) \/ RebuildGraph(c) \/ deleteObjects(c) \/ Crash(c)
  \/ \E n \in Rows : DeleteGraph(n) \/ Delete(n)
  \/ \E r \in Runs : \E T \in SUBSET {n \in live : lockRelationTargets(Top(r), n)} : Update(Top(r), T)

Spec == Init /\ [][Next]_vars

-----------------------------------------------------------------------------
Tops == {n \in live : n[2] = "top"}
Below(t) == LET direct == {n \in live : <<t, n>> \in edge} IN
            direct \cup UNION {{n \in live : <<m, n>> \in edge} : m \in direct}

(* No embedded row is left live and out of reach by uploads and deletions  *)
(* that overlap, except where an author's own save let go of it.           *)
NoOrphan == \A n \in live : Embedded(n) => n \in dropped \/ \E t \in Tops : n \in Below(t)

(* A relation leads to a row that is still there.  A row an author's save  *)
(* let go of is the exception: its own relations may go stale, and an      *)
(* operator who deletes it takes the skills it shared along.               *)
EdgesLive == \A e \in edge : {e[1], e[2]} \cap dropped = {} => e[1] \in live /\ e[2] \in live

(* A skill whose files are outside the row has them: whatever failed       *)
(* uploads take back, the content of a stored row is never among it.       *)
RowsServed == \A n \in live : n[2] \in Binary => n[2] \in frozen

(* Only rows of their own, never a container's parts, are shared.          *)
OneTop == \A n \in live : Embedded(n) /\ n \notin dropped =>
            Cardinality({t \in Tops : <<t, n>> \in edge \/ \E m \in live : Embedded(m) /\ <<t, m>> \in edge /\ <<m, n>> \in edge}) <= 1

KeepsReferenced ==
  \A n \in live \ live' : ~Embedded(n) => \A e \in edge : e[2] = n => e[1] \notin live

(* The graphs of imported archives are whole: no part without a container, *)
(* no relation or object that leads nowhere (CreateGraph, RebuildGraph,    *)
(* DeleteGraph).                                                           *)
GraphsWhole ==
  /\ NoOrphan
  /\ EdgesLive
  /\ RowsServed
  /\ OneTop

(* A plugin of its own is deleted only when nothing refers to it: tearing  *)
(* down or rebuilding a container leaves what it merely refers to          *)
(* (collectEmbeddedChildren).                                              *)
HistoryKept == [][KeepsReferenced]_vars
=============================================================================
