--------------------------- MODULE StockMigration ---------------------------
(***************************************************************************)
(* marketplace-migrate: the one-off conversion of the stock catalogue.     *)
(* A run reads all source rows in one transaction, plans the conversion,   *)
(* saves the plan in a private state file and converts node by node, one   *)
(* transaction each, under an advisory lock.  A run can die anywhere, be   *)
(* started again from its state file, lose its lock with its connection,   *)
(* meet a second run with another plan, and meet edits of the catalogue.   *)
(* Rows are modelled by revision numbers: a hash of rows is their revision.*)
(***************************************************************************)
EXTENDS Integers, Sequences, FiniteSets, SequencesExt

CONSTANTS Catalogs,   \* the catalogues considered, see TypeOK
          Procs,      \* processes of marketplace-migrate
          Files,      \* state files they may be given
          MaxEdits,   \* bound on edits by others
          MaxStarts,  \* bound on starts of a process
          None

VARIABLES graph,    \* what Build makes of the catalogue, in the order applied
          rows,     \* revision of the rows an identity owns, 0 if there is none
          edit,     \* revision of the last edit by others, per identity
          reg,      \* the shared category registration: revision, 0 if absent
          objects,  \* nodes whose immutable objects are published
          slot,     \* marketplace_conversion_run: the plan, or None
          receipt,  \* marketplace_conversion_receipt, per node
          file,     \* the state files
          proc,     \* the processes
          lock,     \* holder of the advisory lock
          edits, starts

vars == <<graph, rows, edit, reg, objects, slot, receipt, file, proc, lock, edits, starts>>

-----------------------------------------------------------------------------
(* The plan (Build), as a function of the catalogue.                       *)

Sources(c) == ToSet(c.age)
SkillsOf(c) == {s \in Sources(c) : c.kind[s] = "skill"}
Oldest(c, S) == CHOOSE s \in S : \A r \in S : c.age[1] = s \/ \E i, j \in 1..Len(c.age) :
                                    i =< j /\ c.age[i] = s /\ c.age[j] = r

(* Skills of one scope and name become one; a shared skill whose content   *)
(* equals a system skill of that name reuses the system one.               *)
Group(c, s) == {r \in SkillsOf(c) : c.name[r] = c.name[s] /\ c.scope[r] = c.scope[s]}
Twins(c, s) == {r \in SkillsOf(c) : /\ c.scope[r] = "system" /\ c.scope[s] # "system"
                                  /\ c.draft[r] = c.draft[s]
                                  /\ c.name[r] = c.name[s] /\ Oldest(c, Group(c, r)) = r
                                  /\ c.body[r] = c.body[Oldest(c, Group(c, s))]}
canonical(c, s) ==
  IF c.kind[s] # "skill" THEN s
  ELSE IF Twins(c, s) # {} THEN Oldest(c, Twins(c, s)) ELSE Oldest(c, Group(c, s))

(* Experts with an inline mcp.json give up one connector each; equal ones  *)
(* of one lifecycle are merged (canonicalizeConnectors).                   *)
Inline(c) == {x \in Sources(c) : c.mcp[x] # 0}
extractMCP(c, x) ==
  <<"mcp", Oldest(c, {y \in Inline(c) : c.mcp[y] = c.mcp[x] /\ c.draft[y] = c.draft[x]})>>

target(c, s) ==
  IF c.kind[s] = "skill" \/ c.embedded[s] THEN <<"new", canonical(c, s)>> ELSE <<"row", s>>

Nodes(c) == {target(c, s) : s \in Sources(c)} \cup {extractMCP(c, x) : x \in Inline(c)}
Mapped(c, n) == {s \in Sources(c) : target(c, s) = n}
Evidence(c, n) == Mapped(c, n) \cup {x \in Inline(c) : extractMCP(c, x) = n}
Planned(c, s) == <<"row", s>> \in Nodes(c)
Draft(c, n) == n[1] # "mcp" /\ c.draft[n[2]]

Edges(c, n) ==
  IF n[1] = "mcp" THEN {}
  ELSE {target(c, t) : t \in c.rels[n[2]]}
       \cup {extractMCP(c, x) : x \in {n[2]} \cap Inline(c)}

(* An unfinished draft is split off: its references are dropped.           *)
Relations(c, n) == IF Draft(c, n) THEN {} ELSE Edges(c, n)

(* The nodes are ordered before a draft's references are dropped.          *)
dependencyOrder(c, n) == Edges(c, n)

Orders(c) ==
  {o \in SetToSeqs(Nodes(c)) :
     \A i, j \in 1..Len(o) : o[i] \in dependencyOrder(c, o[j]) => i < j}

SourceRow(s) == <<"row", s>>

(* What a node's receipt covers: its own rows and the sources it retires.  *)
Owned(c, n) == {n} \cup {SourceRow(s) : s \in {r \in Mapped(c, n) : ~Planned(c, r)}}

(* Build refuses a reference to what is not released.                      *)
Build(c, o) ==
  [sources |-> Sources(c), order |-> o,
   ok |-> \A n \in Nodes(c) : \A m \in Relations(c, n) : ~Draft(c, m),
   evidence |-> [n \in Nodes(c) |-> Evidence(c, n)],
   owned |-> [n \in Nodes(c) |-> Owned(c, n)],
   refs |-> [n \in Nodes(c) |-> Relations(c, n)],
   placed |-> {n \in Nodes(c) : \E s \in Mapped(c, n) : c.placed[s]}]

-----------------------------------------------------------------------------
Planning == ToSet(graph.order)
Ids == {<<k, s>> : k \in {"row", "new", "mcp"}, s \in graph.sources}
sourceRowDigest(s) == rows[SourceRow(s)]
captureCategorySnapshot == reg
loadState(f) == file[f]
InspectPlanObjects == objects = Planning
NoProc == [at |-> "idle", file |-> None, plan |-> None, k |-> 1, verify |-> FALSE]

TypeOK ==
  /\ DOMAIN graph.refs = Planning
  /\ rows \in [Ids -> Nat] /\ edit \in [Ids -> Nat] /\ reg \in Nat
  /\ objects \subseteq Planning
  /\ slot = None \/ DOMAIN slot = {"seen", "reg"}
  /\ \A n \in Planning : receipt[n] # None => receipt[n].state.rows \in [graph.owned[n] -> Nat]
  /\ \A p \in Procs : proc[p].at \in {"idle", "capture", "save", "check", "publish", "setup", "apply",
                                      "verify", "complete", "conflict", "refused"}
  /\ lock \in Procs \cup {None} /\ edits \in 0..MaxEdits /\ starts \in 0..MaxStarts

Init ==
  /\ \E c \in Catalogs : \E o \in Orders(c) : graph = Build(c, o)
  /\ rows = [i \in Ids |-> IF i[1] = "row" THEN 1 ELSE 0]
  /\ edit = [i \in Ids |-> 0]
  /\ reg \in {0, 1}
  /\ objects = {} /\ slot = None
  /\ receipt = [n \in Planning |-> None]
  /\ file = [f \in Files |-> None]
  /\ proc = [p \in Procs |-> NoProc]
  /\ lock = None /\ edits = 0 /\ starts = 0

Step(p, at) == proc' = [proc EXCEPT ![p].at = at]
Released(p) == lock' = IF lock = p THEN None ELSE lock
End(p, at) == proc' = [proc EXCEPT ![p].at = at, ![p].file = None, ![p].k = 1] /\ Released(p)
Refused(p) == End(p, "refused")
Conflict(p) == End(p, "conflict")
Ended == {"idle", "complete", "conflict", "refused"}

-----------------------------------------------------------------------------
(* One process.                                                            *)

(* GET_LOCK with no wait (a second process is told migration_busy), then   *)
(* the state file: a run that finds one goes on with its plan.             *)
Start(p, f, verify) ==
  LET at == IF loadState(f) # None THEN IF verify THEN "verify" ELSE "check"
                              ELSE IF verify THEN "refused" ELSE "capture" IN
  /\ proc[p].at \in Ended /\ lock = None
  /\ starts < MaxStarts /\ starts' = starts + 1
  /\ lock' = IF at = "refused" THEN None ELSE p
  /\ proc' = [proc EXCEPT ![p] = [NoProc EXCEPT !.at = at, !.file = f, !.plan = loadState(f),
                                                !.verify = verify]]
  /\ UNCHANGED <<graph, rows, edit, reg, objects, slot, receipt, file, edits>>

(* One consistent read: the revision of every source, the registration.    *)
InputFromDatabase(p) ==
  /\ proc[p].at = "capture"
  /\ IF graph.ok
       THEN /\ proc' = [proc EXCEPT ![p].at = "save",
                          ![p].plan = [seen |-> [s \in graph.sources |-> sourceRowDigest(s)],
                                       reg |-> captureCategorySnapshot]]
            /\ UNCHANGED lock
       ELSE Refused(p)
  /\ UNCHANGED <<graph, rows, edit, reg, objects, slot, receipt, file, edits, starts>>

(* link(2) refuses to replace a state file.                                *)
saveState(p) ==
  /\ proc[p].at = "save"
  /\ IF file[proc[p].file] = None
       THEN /\ file' = [file EXCEPT ![proc[p].file] = proc[p].plan]
            /\ Step(p, "check") /\ UNCHANGED lock
       ELSE Refused(p) /\ UNCHANGED file
  /\ UNCHANGED <<graph, rows, edit, reg, objects, slot, receipt, edits, starts>>

Mine(p) == slot = proc[p].plan
stateHash(n, R, g) == [rows |-> [i \in graph.owned[n] |-> R[i]], reg |-> IF n \in graph.placed THEN g ELSE 0]
verifyReceipt(n) == receipt[n].state = stateHash(n, rows, reg)

verifySourceRows(p, n) ==
  \A s \in graph.evidence[n] : sourceRowDigest(s) = proc[p].plan.seen[s]

(* The registrations read with the plan are unchanged, any other one is    *)
(* covered by a receipt, and none that a receipt needs is missing.         *)
verifyCategorySnapshot(p) ==
  /\ proc[p].plan.reg # 0 => reg = proc[p].plan.reg
  /\ proc[p].plan.reg = 0 /\ reg # 0 =>
       \E n \in Planning : receipt[n] # None /\ n \in graph.placed /\ verifyReceipt(n)
  /\ reg = 0 => \A n \in Planning : receipt[n] # None => n \notin graph.placed

CheckPlanSources(p) ==
  /\ proc[p].at = "check"
  /\ IF /\ slot # None => Mine(p)
        /\ verifyCategorySnapshot(p)
        /\ \A n \in Planning : IF receipt[n] # None THEN verifyReceipt(n)
                                                      ELSE verifySourceRows(p, n)
       THEN Step(p, "publish") /\ UNCHANGED lock
       ELSE Conflict(p)
  /\ UNCHANGED <<graph, rows, edit, reg, objects, slot, receipt, file, edits, starts>>

PublishObjects(p) ==
  /\ proc[p].at = "publish"
  /\ objects' = Planning
  /\ Step(p, "setup")
  /\ UNCHANGED <<graph, rows, edit, reg, slot, receipt, file, lock, edits, starts>>

(* INSERT IGNORE of the only run row, then the comparison with this plan.  *)
setupApply(p) ==
  /\ proc[p].at = "setup"
  /\ slot' = IF slot = None THEN proc[p].plan ELSE slot
  /\ IF slot' = proc[p].plan THEN Step(p, "apply") /\ UNCHANGED lock ELSE Conflict(p)
  /\ UNCHANGED <<graph, rows, edit, reg, objects, receipt, file, edits, starts>>

(* The conversion of one node: written once, and only from the rows that   *)
(* were planned.                                                           *)
Converted(p, n) ==
  /\ rows' = [i \in Ids |-> IF i \in graph.owned[n] THEN rows[i] + 1 ELSE rows[i]]
  /\ reg' = IF n \in graph.placed /\ reg = 0 THEN 1 ELSE reg
  /\ receipt' = [receipt EXCEPT ![n] =
       [plan |-> proc[p].plan, state |-> stateHash(n, rows', reg'),
        found |-> [s \in graph.evidence[n] |-> sourceRowDigest(s)]]]

Advance(p) == proc' = [proc EXCEPT ![p].k = @ + 1, ![p].at = IF proc[p].k = Len(graph.order) THEN "verify" ELSE "apply"]

(* Mutant: the preflight is trusted, the sources are not locked and read   *)
(* again.                                                                  *)
ApplyChecked(p) ==
  LET n == graph.order[proc[p].k] IN
  /\ proc[p].at = "apply"
  /\ IF receipt[n] # None
       THEN /\ IF verifyCategorySnapshot(p) /\ verifyReceipt(n) THEN Advance(p) /\ UNCHANGED lock ELSE Conflict(p)
            /\ UNCHANGED <<rows, reg, receipt>>
       ELSE IF verifyCategorySnapshot(p)
              THEN Converted(p, n) /\ Advance(p) /\ UNCHANGED lock
              ELSE Conflict(p) /\ UNCHANGED <<rows, reg, receipt>>
  /\ UNCHANGED <<graph, edit, objects, slot, file, edits, starts>>

applyNode(p) ==
  LET n == graph.order[proc[p].k] IN
  /\ proc[p].at = "apply"
  /\ IF receipt[n] # None
       THEN /\ IF verifyCategorySnapshot(p) /\ verifyReceipt(n) THEN Advance(p) /\ UNCHANGED lock ELSE Conflict(p)
            /\ UNCHANGED <<rows, reg, receipt>>
       ELSE IF /\ \A m \in graph.refs[n] : rows[m] # 0
               /\ verifyCategorySnapshot(p) /\ verifySourceRows(p, n)
              THEN Converted(p, n) /\ Advance(p) /\ UNCHANGED lock
              ELSE Conflict(p) /\ UNCHANGED <<rows, reg, receipt>>
  /\ UNCHANGED <<graph, edit, objects, slot, file, edits, starts>>

(* The final report: objects, registrations and every receipt, read in one *)
(* transaction.                                                            *)
Verify(p) ==
  /\ proc[p].at = "verify"
  /\ IF /\ Mine(p) /\ verifyCategorySnapshot(p) /\ InspectPlanObjects
        /\ \A n \in Planning : receipt[n] # None /\ verifyReceipt(n)
       THEN End(p, "complete")
       ELSE Conflict(p)
  /\ UNCHANGED <<graph, rows, edit, reg, objects, slot, receipt, file, edits, starts>>

(* The process dies or an operation fails: nothing uncommitted survives.   *)
Die(p) ==
  /\ proc[p].at \notin Ended
  /\ proc' = [proc EXCEPT ![p] = NoProc]
  /\ Released(p)
  /\ UNCHANGED <<graph, rows, edit, reg, objects, slot, receipt, file, edits, starts>>

(* The connection that holds the lock breaks; the process goes on.         *)
LoseLock ==
  /\ lock # None /\ lock' = None
  /\ UNCHANGED <<graph, rows, edit, reg, objects, slot, receipt, file, proc, edits, starts>>

(* Writers that were not paused.                                           *)
EditRow(i) ==
  /\ edits < MaxEdits /\ rows[i] # 0
  /\ rows' = [rows EXCEPT ![i] = @ + 1]
  /\ edit' = [edit EXCEPT ![i] = rows[i] + 1]
  /\ edits' = edits + 1
  /\ UNCHANGED <<graph, reg, objects, slot, receipt, file, proc, lock, starts>>

EditCategory(g) ==
  /\ edits < MaxEdits
  /\ reg' = g /\ g # reg
  /\ edits' = edits + 1
  /\ UNCHANGED <<graph, rows, edit, objects, slot, receipt, file, proc, lock, starts>>

Run(p) ==
  \/ InputFromDatabase(p)
  \/ saveState(p)
  \/ CheckPlanSources(p)
  \/ PublishObjects(p)
  \/ setupApply(p)
  \/ applyNode(p)
  \/ Verify(p)

Next ==
  \/ \E p \in Procs :
       \/ \E f \in Files, verify \in BOOLEAN : Start(p, f, verify)
       \/ Run(p)
       \/ Die(p)
  \/ LoseLock
  \/ \E i \in Ids : EditRow(i)
  \/ \E g \in {0, 2 + edits} : EditCategory(g)

Spec == Init /\ [][Next]_vars

-----------------------------------------------------------------------------
(* One plan converts the database: no node is ever converted for another   *)
(* plan than the one in the run row, whatever state files and processes    *)
(* meet (setupApply, checkRun).                                            *)
OnePlan == \A n \in Planning : receipt[n] # None => receipt[n].plan = slot

(* No edit is lost: an edit of a row that a converted node consumed was    *)
(* read by the plan, or was made after the conversion (verifySourceRows    *)
(* under the row locks, not only in the preflight).                        *)
NoEditLost ==
  \A n \in Planning : receipt[n] # None =>
    \A s \in graph.evidence[n] :
      \/ edit[SourceRow(s)] =< receipt[n].plan.seen[s]
      \/ edit[SourceRow(s)] > receipt[n].found[s]

(* At every point where a run can die, what has been converted is closed:  *)
(* the references of a converted node lead to converted nodes, and the     *)
(* objects its rows name are published.                                    *)
ConvertedIsClosed ==
  \A n \in Planning : receipt[n] # None =>
    /\ n \in objects
    /\ \A m \in graph.refs[n] : receipt[m] # None

(* A run never defeats itself: as long as nobody edits the catalogue and   *)
(* no other plan holds the run row, no restart ends in a conflict, because *)
(* no conversion touches what a later node's evidence covers.              *)
NoSelfConflict ==
  \A p \in Procs : proc[p].at = "conflict" =>
     edits > 0 \/ slot \notin {None, proc[p].plan} \/ proc[p].verify

(* Complete is final: a process that reported complete did so for the plan *)
(* of the run row, with every node converted.                              *)
CompleteIsComplete ==
  \A p \in Procs : proc[p].at = "complete" =>
     slot = proc[p].plan /\ \A n \in Planning : receipt[n] # None

(* Wherever a conversion stops, restarts or meets an edit, the database is *)
(* the one the plan promised (Run, applyNode, Verify).                     *)
ConversionSafe ==
  /\ OnePlan
  /\ NoEditLost
  /\ ConvertedIsClosed
  /\ NoSelfConflict
  /\ CompleteIsComplete
=============================================================================
