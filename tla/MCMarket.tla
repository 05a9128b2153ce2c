------------------------------ MODULE MCMarket ------------------------------
(***************************************************************************)
(* What the market hands out, and what runs beside it, on small instances: *)
(* installations with and without a frozen plan, what an installation asks *)
(* for and accepts, the conversion of the stock catalogue, the index of    *)
(* references, MCP servers and their probe, and the paging of the skill    *)
(* list.  They share no variable, so a behaviour of this module is a       *)
(* behaviour of one of them, chosen at the start.  Installations with a    *)
(* frozen plan stay in their initial state while another one moves; the    *)
(* variables of the others are not used and stay None.  CapPart of         *)
(* Installs and McpPart and ProbePart of Servers hold of every behaviour   *)
(* here.                                                                   *)
(***************************************************************************)
EXTENDS InstallAttempt, Installs, Servers, Sequences, SequencesExt

CONSTANTS Files, MaxEdits, MaxStarts, s1, s2, x1, x2,
          NewName,
          Entries, PageTime, MaxLimit, MaxChanges, LastPage,
          Skills, Experts, Teams, MaxVersion, MaxSaves

VARIABLES graph, rows, edit, reg, objects, slot, done, file, proc, lock, edits, starts,
          tree, mode, def, again, answer, accepted,
          born, shown, score, sort, limit, cursor, pages, steady, order0, now, changes,
          snap, released, pub, gone, legacy, embedded, torn, refs, mark, on, saves

stockVars   == <<graph, rows, edit, reg, objects, slot, done, file, proc, lock, edits, starts>>
defVars     == <<tree, mode, def, again, answer, accepted>>
pagingVars  == <<born, shown, score, sort, limit, cursor, pages, steady, order0, now, changes>>
indexVars   == <<snap, released, pub, gone, legacy, embedded, torn, refs, mark, on, saves>>
marketVars  == <<part, vars, capVars, stockVars, defVars, mcpVars, probeVars, pagingVars, indexVars>>

(* Three catalogues: a system and a space skill with the same content and  *)
(* a draft expert that uses both and has an mcp.json; the same with        *)
(* different content and a finished expert without mcp.json; two finished  *)
(* experts with the same mcp.json, one of them embedded in a squad.        *)
Catalog(age, inside, same, drafts) ==
  LET S == ToSet(age) IN
  [age |-> age,
   kind |-> [i \in S |-> IF i \in {s1, s2} THEN "skill" ELSE "expert"],
   name |-> [i \in S |-> 1],
   scope |-> [i \in S |-> IF i = s2 THEN "space" ELSE "system"],
   body |-> [i \in S |-> IF i = s2 THEN same ELSE 1],
   mcp |-> [i \in S |-> IF i \in {x1, x2} /\ same = 1 THEN 1 ELSE 0],
   draft |-> [i \in S |-> i \in drafts],
   embedded |-> [i \in S |-> i \in inside],
   rels |-> [i \in S |-> IF i \in {x1, x2} THEN S \cap {s1, s2} ELSE {}],
   placed |-> [i \in S |-> i \in {s1, s2}]]
Stocks == {Catalog(<<s1, s2, x1>>, {}, 1, {x1}), Catalog(<<s1, s2, x1>>, {}, 2, {}),
           Catalog(<<s1, x1, x2>>, {x2}, 1, {})}

(* Graphs of plugins 1 and 2 (experts), 11 and 12 (skills), 21 and 22      *)
(* (connectors) and 30 (a team).  Two releases of a skill, or two skills,  *)
(* may share a title, with the same body or not.                           *)
Releases == {<<11, 1>>, <<11, 2>>, <<12, 1>>}
Nodes == {1, 2, 11, 12, 21, 22, 30}
Plain == [title |-> <<1, 2, 3>>, body |-> <<1, 2, 3>>]
Shelves == {Plain, [title |-> <<1, 1, 3>>, body |-> <<1, 2, 3>>],
            [title |-> <<1, 2, 1>>, body |-> <<1, 2, 1>>], [title |-> <<1, 2, 1>>, body |-> <<1, 2, 2>>]}
At(k) == IF k = <<11, 1>> THEN 1 ELSE IF k = <<11, 2>> THEN 2 ELSE 3
Tree(kind, root, members, rels, shelf, name, mcp, sight) ==
  [kind |-> kind, root |-> root, members |-> members, rels |-> rels, name |-> name,
   title |-> [k \in Releases |-> shelf.title[At(k)]], body |-> [k \in Releases |-> shelf.body[At(k)]],
   mcp |-> [x \in {1, 2} |-> mcp], vis |-> sight, listed |-> Nodes]
OwnNames == [p \in Nodes |-> p]
OneName == [OwnNames EXCEPT ![22] = 21]
InSpace == [p \in Nodes |-> "space"]
ToSkill(k) == <<[type |-> "skill", to |-> k[1], ver |-> k[2]]>>
ToConn(c) == <<[type |-> "connector", to |-> c, ver |-> 0]>>
Variants == {<<s, OwnNames>> : s \in Shelves} \cup {<<Plain, OneName>>}
AnySkill == {<<>>} \cup {ToSkill(k) : k \in Releases}
One(C) == {a \o b : a \in AnySkill, b \in {<<>>} \cup {ToConn(c) : c \in C}}
Two == {a \o ToSkill(k) \o c : a \in AnySkill, k \in Releases, c \in {<<>>, ToConn(21) \o ToConn(22)}}
Member(x, leads, role) == [to |-> x, leader |-> leads, role |-> role]
Duo == <<Member(1, TRUE, ""), Member(2, FALSE, "other")>>
Shared == ToConn(21) \o ToSkill(<<11, 1>>)
(* An expert with up to two skills and two connectors; a team whose two    *)
(* experts have up to a skill and a connector each; a team with every      *)
(* wiring; a team whose experts share a skill and a connector, with every  *)
(* visibility; a connector.                                                *)
Trees ==
  {Tree("expert", 1, <<>>, <<r, <<>>>>, v[1], v[2], m, InSpace) : r \in Two, v \in Variants, m \in BOOLEAN}
  \cup {Tree("team", 30, Duo, <<r, q>>, v[1], v[2], FALSE, InSpace) :
          r \in One({21}), q \in One({21, 22}), v \in Variants}
  \cup {Tree("team", 30, <<Member(1, l, a), Member(2, k, b)>>, <<<<>>, <<>>>>, Plain, n, FALSE, InSpace) :
          l, k \in BOOLEAN, n \in {OwnNames, [OwnNames EXCEPT ![2] = 1]}, a, b \in {"", "leader", "other"}}
  \cup {Tree("team", 30, Duo, <<Shared, Shared>>, Plain, OwnNames, FALSE,
             [InSpace EXCEPT ![30] = "private", ![1] = u, ![2] = v, ![21] = c, ![11] = k]) :
          u, v, c, k \in {"private", "space", "system"}}
  \cup {Tree("connector", 21, <<>>, <<<<>>, <<>>>>, Plain, OwnNames, FALSE, InSpace)}

Stock   == INSTANCE StockMigration WITH Catalogs <- Stocks, Procs <- Calls, receipt <- done
Define  == INSTANCE InstallDefinition WITH Graphs <- Trees, graph <- tree
Paging  == INSTANCE SkillPaging WITH Skills <- Entries, MaxTime <- PageTime, End <- LastPage,
             created <- born
Index   == INSTANCE ReferenceIndex

MarketInit ==
  /\ part \in {"install", "capability", "stock", "define", "mcp", "probe", "paging", "index"}
  /\ Init
  /\ CapStarts /\ McpStarts /\ ProbeStarts
  /\ IF part = "stock" THEN Stock!Init
     ELSE /\ graph = None /\ rows = None /\ edit = None /\ reg = None /\ objects = None
          /\ slot = None /\ done = None /\ file = None /\ proc = None /\ lock = None
          /\ edits = None /\ starts = None
  /\ IF part = "define" THEN Define!Init
     ELSE /\ tree = None /\ mode = None /\ def = None /\ again = None /\ answer = None
          /\ accepted = None
  /\ IF part = "paging" THEN Paging!Init
     ELSE /\ born = None /\ shown = None /\ score = None /\ sort = None /\ limit = None
          /\ cursor = None /\ pages = None /\ steady = None /\ order0 = None
          /\ now = None /\ changes = None
  /\ IF part = "index" THEN Index!Init
     ELSE /\ snap = None /\ released = None /\ pub = None /\ gone = None /\ legacy = None
          /\ embedded = None /\ torn = None /\ refs = None /\ mark = None /\ on = None
          /\ saves = None

InInstall(A) == part = "install" /\ A
  /\ UNCHANGED <<part, capVars, stockVars, defVars, mcpVars, probeVars, pagingVars, indexVars>>
InCap(A) == part = "capability" /\ A
  /\ UNCHANGED <<part, vars, stockVars, defVars, mcpVars, probeVars, pagingVars, indexVars>>
InStock(A) == part = "stock" /\ A
  /\ UNCHANGED <<part, vars, capVars, defVars, mcpVars, probeVars, pagingVars, indexVars>>
InDefine(A) == part = "define" /\ A
  /\ UNCHANGED <<part, vars, capVars, stockVars, mcpVars, probeVars, pagingVars, indexVars>>
InMcp(A) == part = "mcp" /\ A
  /\ UNCHANGED <<part, vars, capVars, stockVars, defVars, probeVars, pagingVars, indexVars>>
InProbe(A) == part = "probe" /\ A
  /\ UNCHANGED <<part, vars, capVars, stockVars, defVars, mcpVars, pagingVars, indexVars>>
InPaging(A) == part = "paging" /\ A
  /\ UNCHANGED <<part, vars, capVars, stockVars, defVars, mcpVars, probeVars, indexVars>>
InIndex(A) == part = "index" /\ A
  /\ UNCHANGED <<part, vars, capVars, stockVars, defVars, mcpVars, probeVars, pagingVars>>

MarketNext ==
  \/ InInstall(Next)
  \/ InCap(Cap!Next)
  \/ InStock(Stock!Next)
  \/ InDefine(Define!Next)
  \/ InMcp(Mcp!Next)
  \/ InProbe(Probe!Next)
  \/ InPaging(Paging!Next)
  \/ InIndex(Index!Next)

MarketSpec == MarketInit /\ [][MarketNext]_marketVars

Symmetric == Permutations(Calls) \cup Permutations(Files)

(* The clock of installations starts with the first call.                  *)
FirstCallAtZero == clock > 0 => \E c \in Calls : call[c].at # "idle"

-----------------------------------------------------------------------------
(* What is asked of Fleet is what the pinned graph holds, and an answer is *)
(* accepted exactly when it is that (resolvePinnedInstallation,            *)
(* validCapabilityResult).                                                 *)
DefinitionFaithful == part = "define" => Define!TypeOK /\ Define!DefinitionFaithful

(* Wherever a conversion stops, restarts or meets an edit, the database is *)
(* the one the plan promised (Run, applyNode, Verify).                     *)
ConversionSafe == part = "stock" => Stock!TypeOK /\ Stock!ConversionSafe

(* A walk through the pages is the list (queryListResult,                  *)
(* queryOffsetCursorListResult).                                           *)
PagingComplete == part = "paging" => Paging!TypeOK /\ Paging!PagingComplete

(* The index of references says what the snapshots say wherever it is      *)
(* trusted (ApplyVersion, rejectPublishedIncomingRelations,                *)
(* ReferenceDependents).                                                   *)
IndexSound == part = "index" => Index!TypeOK /\ Index!IndexSound
=============================================================================
