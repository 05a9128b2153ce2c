------------------------- MODULE InstallDefinition --------------------------
(***************************************************************************)
(* What an installation asks Fleet for, and what it accepts as an answer.  *)
(* Two builders turn a graph of plugins into a definition: the default one *)
(* (buildCapabilityInstallFrom) in one walk with caches, the pinned one    *)
(* (resolvePinnedInstallation) from the releases the graph names.  A retry *)
(* builds again from the graph the store lists in another order.  The      *)
(* answer is checked against the definition before it counts as success.   *)
(*                                                                         *)
(* Plugin ids are naturals: their order is the order of the ids.  A graph  *)
(* is [kind, root, members, rels, name, title, body, mcp, vis, listed];    *)
(* every relation to a skill names a release <<skill, version>>, which has *)
(* a title and a body (version label, description and files); the caller   *)
(* reads exactly the listed plugins.                                       *)
(***************************************************************************)
EXTENDS Integers, Sequences, FiniteSets, SequencesExt

CONSTANTS Graphs,   \* the catalogues tried
          NewName,  \* a name the caller may give the resource
          None

VARIABLES graph, mode, def, again, answer, accepted

vars == <<graph, mode, def, again, answer, accepted>>

Builders == {"default", "pinned"}
Orders == {"listed", "reversed"}
Garbles == {"none", "unbound", "missing", "repeated", "leader", "lost", "foreign"}
Refused == [ok |-> FALSE, experts |-> <<>>, skills |-> {}, conns |-> {}, team |-> None, members |-> <<>>]

TypeOK ==
  /\ graph \in Graphs /\ mode.builder \in Builders
  /\ def = None \/ DOMAIN def = DOMAIN Refused
  /\ again = None \/ DOMAIN again = DOMAIN Refused
  /\ accepted \in BOOLEAN \cup {None}

Init ==
  /\ graph \in Graphs
  /\ \E b \in Builders, w \in BOOLEAN, n \in {None, NewName} : mode = [builder |-> b, workspace |-> w, name |-> n]
  /\ def = None /\ again = None /\ answer = None /\ accepted = None

-----------------------------------------------------------------------------
(* Parts shared by the builders.                                           *)

(* Who may use the target: everyone who sees the source also sees it.      *)
installAudience(G, x, y) ==
  CASE G.vis[y] = "system" -> TRUE
    [] G.vis[x] = "system" -> FALSE
    [] G.vis[y] = "space" -> TRUE
    [] OTHER -> G.vis[x] = "private"

Usable(G, x, y) == y \in G.listed /\ installAudience(G, x, y)

relationsOfType(G, x, type) == SelectSeq(G.rels[x], LAMBDA r : r.type = type)

(* The store lists relations in some order.                                *)
Listed(G, order) ==
  IF order = "listed" THEN G
  ELSE [G EXCEPT !.members = Reverse(@), !.rels = [x \in DOMAIN @ |-> Reverse(@[x])]]

(* sort.Slice: a tied order is decided by the ids.                         *)
SortedMembers(G) == SortSeq(G.members, LAMBDA a, b : a.to < b.to)

Roots(G) == IF G.kind = "team" THEN [i \in 1..Len(G.members) |-> SortedMembers(G)[i].to]
            ELSE IF G.kind = "expert" THEN <<G.root>> ELSE <<>>

KeyOf(r) == <<r.to, r.ver>>

-----------------------------------------------------------------------------
(* The default builder walks the graph once and keeps what it has met.     *)

NothingFound == [ok |-> TRUE, skills |-> {}, byVersion |-> {}, conns |-> {}]
Stop(acc) == [acc EXCEPT !.ok = FALSE]

(* The release may be in the cache; another skill of the same name must    *)
(* have the same content, and the first of them lends its id.              *)
skill(G, x, acc, r) ==
  LET key == KeyOf(r)
      same == {s \in acc.skills : s.name = G.title[key]} IN
  IF ~acc.ok \/ ~Usable(G, x, r.to) THEN Stop(acc)
  ELSE IF key \in acc.byVersion THEN acc
  ELSE IF \E s \in same : s.body # G.body[key] THEN Stop(acc)
  ELSE [acc EXCEPT !.byVersion = @ \cup {key},
                   !.skills = IF same = {} THEN @ \cup {[name |-> G.title[key], body |-> G.body[key], market |-> r.to]}
                              ELSE @]

(* A connector is known by its identity; its name belongs to one identity. *)
addConnector(acc, identity, name, market) ==
  IF ~acc.ok \/ \E c \in acc.conns : c.id # identity /\ c.name = name THEN Stop(acc)
  ELSE [acc EXCEPT !.conns = @ \cup {[id |-> identity, name |-> name, market |-> market]}]

(* The snapshot of a market connector, under a name.                       *)
marketConnector(c, name) == [name |-> name, market |-> c]

permittedConnector(G, x, acc, r) ==
  IF ~Usable(G, x, r.to) THEN Stop(acc) ELSE addConnector(acc, r.to, G.name[r.to], r.to)

RootName(G, x) == IF G.kind = "expert" /\ mode.name # None THEN mode.name ELSE G.name[x]

(* Connectors only if the workspace has them: the expert's own mcp.json    *)
(* becomes a connector with the expert's name.                             *)
expert(G, acc, x) ==
  LET own == IF mode.workspace /\ G.mcp[x] THEN addConnector(acc, -x, RootName(G, x), None) ELSE acc
      linked == IF mode.workspace
                  THEN FoldLeft(LAMBDA a, r : permittedConnector(G, x, a, r), own, relationsOfType(G, x, "connector"))
                  ELSE own IN
  FoldLeft(LAMBDA a, r : skill(G, x, a, r), linked, relationsOfType(G, x, "skill"))

Names(G, x, type) == {IF r.type = "skill" THEN G.title[KeyOf(r)] ELSE G.name[r.to] : r \in ToSet(relationsOfType(G, x, type))}

ExpertEntry(G, x) ==
  [id |-> x, name |-> RootName(G, x), skills |-> Names(G, x, "skill"),
   conns |-> IF ~mode.workspace THEN {}
             ELSE Names(G, x, "connector") \cup (IF mode.builder = "default" /\ G.mcp[x] THEN {RootName(G, x)} ELSE {})]

UniqueNames(s) == \A i, j \in 1..Len(s) : s[i].name = s[j].name => i = j

(* The first member with the flag leads, or else the first member; no      *)
(* other member may have the role.                                         *)
TeamMembers(G) ==
  LET m == SortedMembers(G)
      flagged == {i \in 1..Len(m) : m[i].leader}
      leader == IF flagged = {} THEN 1 ELSE Min(flagged) IN
  [i \in 1..Len(m) |-> [name |-> G.name[m[i].to], leader |-> i = leader,
                        role |-> IF i = leader THEN "leader" ELSE m[i].role]]

TeamName(G) == IF G.kind # "team" THEN None ELSE IF mode.name # None THEN mode.name ELSE "team"

buildCapabilityInstallFrom(G) ==
  LET acc == FoldLeft(LAMBDA a, x : expert(G, a, x), NothingFound, Roots(G))
      members == IF G.kind = "team" THEN TeamMembers(G) ELSE <<>>
      experts == [i \in 1..Len(Roots(G)) |-> ExpertEntry(G, Roots(G)[i])] IN
  IF \/ G.root \notin G.listed \/ ~acc.ok \/ ~UniqueNames(experts)
     \/ G.kind = "team" /\ \E i \in 1..Len(G.members) : ~Usable(G, G.root, G.members[i].to)
     \/ \E i \in 1..Len(members) : ~members[i].leader /\ members[i].role = "leader"
     \/ G.kind = "connector" /\ ~mode.workspace
  THEN Refused
  ELSE [ok |-> TRUE, experts |-> experts, skills |-> acc.skills, team |-> TeamName(G), members |-> members,
        conns |-> IF G.kind = "connector"
                    THEN {marketConnector(G.root, IF mode.name # None THEN mode.name ELSE G.name[G.root])}
                    ELSE {marketConnector(c.market, c.name) : c \in acc.conns}]

-----------------------------------------------------------------------------
(* The pinned builder.                                                     *)

(* Mutant: only names are compared.                                        *)
SameName(G, a, b) == TRUE

samePinnedSkillContent(G, a, b) == G.body[a] = G.body[b]

(* One skill for each name, with the id of the first release in the order  *)
(* of ids; a name with two contents is refused.                            *)
PreparePinnedSkills(G, keys) ==
  LET First(n) == CHOOSE k \in keys : G.title[k] = n /\ \A j \in keys : G.title[j] = n =>
                     k[1] < j[1] \/ (k[1] = j[1] /\ k[2] <= j[2]) IN
  [ok |-> \A a, b \in keys : G.title[a] = G.title[b] => samePinnedSkillContent(G, a, b),
   skills |-> {[name |-> n, body |-> G.body[First(n)], market |-> First(n)[1]] : n \in {G.title[k] : k \in keys}}]

(* Without workspace connectors the configurations of one expert are       *)
(* merged: a server has one definition.                                    *)
MergeCurrentConnectorMCP(G, cs) == \A c, d \in cs : G.name[c] = G.name[d] => c = d

(* In the workspace a name belongs to one connector.                       *)
UnambiguousNames(G, cs) == \A c, d \in cs : G.name[c] = G.name[d] => c = d

(* Every relation names a listed plugin that the source may use, and the   *)
(* release has no capabilities of its own.                                 *)
referenced(G, x) ==
  ~G.mcp[x] /\ \A i \in 1..Len(G.rels[x]) : Usable(G, x, G.rels[x][i].to)

(* Exactly one leader, and the role goes with the flag.                    *)
PinnedMembers(G) ==
  LET m == SortedMembers(G) IN
  [i \in 1..Len(m) |-> [name |-> G.name[m[i].to], leader |-> m[i].leader,
                        role |-> IF m[i].leader THEN "leader" ELSE m[i].role]]

OneLeader(ms) == Cardinality({i \in 1..Len(ms) : ms[i].leader}) = 1
NoFalseLeader(ms) == \A i \in 1..Len(ms) : ms[i].role = "leader" => ms[i].leader

WiredTeam(G, ms) == OneLeader(ms) /\ NoFalseLeader(ms)

resolvePinnedInstallation(G) ==
  LET xs == ToSet(Roots(G))
      keys == {KeyOf(r) : r \in UNION {ToSet(relationsOfType(G, x, "skill")) : x \in xs}}
      cs(x) == {r.to : r \in ToSet(relationsOfType(G, x, "connector"))}
      all == UNION {cs(x) : x \in xs}
      prepared == PreparePinnedSkills(G, keys)
      members == IF G.kind = "team" THEN PinnedMembers(G) ELSE <<>>
      experts == [i \in 1..Len(Roots(G)) |-> [ExpertEntry(G, Roots(G)[i]) EXCEPT !.name = G.name[Roots(G)[i]]]] IN
  IF G.root \notin G.listed THEN Refused
  ELSE IF G.kind = "connector" THEN
    IF ~mode.workspace THEN Refused
    ELSE [Refused EXCEPT !.ok = TRUE, !.conns = {marketConnector(G.root, G.name[G.root])}]
  ELSE IF \/ \E x \in xs : ~referenced(G, x)
          \/ G.kind = "team" /\ \E x \in xs : ~Usable(G, G.root, x)
          \/ ~UniqueNames(experts) \/ ~prepared.ok
          \/ mode.workspace /\ ~UnambiguousNames(G, all)
          \/ ~mode.workspace /\ \E x \in xs : ~MergeCurrentConnectorMCP(G, cs(x))
          \/ G.kind = "team" /\ ~WiredTeam(G, members)
  THEN Refused
  ELSE [ok |-> TRUE, experts |-> experts, skills |-> prepared.skills, members |-> members,
        team |-> IF G.kind = "team" THEN "team" ELSE None,
        conns |-> IF mode.workspace THEN {marketConnector(c, G.name[c]) : c \in all} ELSE {}]

(* The structure a recovered plan must have.                               *)
validPinnedDefinition(d) ==
  /\ \A a, b \in d.conns : a.name = b.name => a = b
  /\ \A a, b \in d.skills : a.name = b.name => a = b
  /\ UniqueNames(d.experts)
  /\ \A i \in 1..Len(d.experts) :
       /\ d.experts[i].skills \subseteq {s.name : s \in d.skills}
       /\ d.experts[i].conns \subseteq {c.name : c \in d.conns}
  /\ IF d.experts = <<>> THEN Cardinality(d.conns) = 1 /\ d.skills = {} /\ d.team = None
     ELSE IF d.team = None THEN Len(d.experts) = 1
     ELSE /\ {d.members[i].name : i \in 1..Len(d.members)} = {d.experts[i].name : i \in 1..Len(d.experts)}
          /\ Len(d.members) = Len(d.experts) /\ OneLeader(d.members) /\ NoFalseLeader(d.members)

(* The caller's name goes to the root.                                     *)
pinnedPlanRequest(d) ==
  IF ~d.ok \/ ~validPinnedDefinition(d) THEN Refused
  ELSE IF mode.name = None THEN d
  ELSE IF d.team # None THEN [d EXCEPT !.team = mode.name]
  ELSE IF d.experts # <<>> THEN [d EXCEPT !.experts[1].name = mode.name]
  ELSE [d EXCEPT !.conns = {[c EXCEPT !.name = mode.name] : c \in @}]

Definition(G) == IF mode.builder = "default" THEN buildCapabilityInstallFrom(G)
                 ELSE pinnedPlanRequest(resolvePinnedInstallation(G))

-----------------------------------------------------------------------------
(* Fleet's answer.  A resource is made new or, under the same name and     *)
(* version, already there; ids are the names.  Fleet reports what it did,  *)
(* or something that is not the answer to this request.                    *)

Report(e, leader, fresh) ==
  [id |-> e.name, name |-> e.name, market |-> IF fresh THEN e.id ELSE None, created |-> fresh,
   leader |-> e.name = leader, skills |-> SetToSeq(e.skills), conns |-> SetToSeq(e.conns)]

Truth(d, freshTeam, freshExperts, freshAssets) ==
  LET leads == {m \in ToSet(d.members) : m.leader}
      leader == IF d.team = None THEN None ELSE (CHOOSE m \in leads : TRUE).name
      bound(f(_)) == UNION {f(e) : e \in ToSet(d.experts)}
      skills == {s \in d.skills : s.name \in bound(LAMBDA e : e.skills)} IN
  [type |-> IF d.experts = <<>> THEN "connectors" ELSE IF d.team = None THEN "expert" ELSE "expert_team",
   root |-> IF d.team = None /\ d.experts # <<>> THEN d.experts[1].name ELSE None,
   team |-> d.team, created |-> freshTeam, leader |-> leader,
   experts |-> [i \in 1..Len(d.experts) |-> Report(d.experts[i], leader, freshExperts)],
   skills |-> {[id |-> s.name, name |-> s.name, body |-> s.body, created |-> freshAssets,
                market |-> IF freshAssets THEN s.market ELSE None] : s \in skills},
   conns |-> {[id |-> c.name, name |-> c.name, created |-> freshAssets,
               market |-> IF freshAssets THEN c.market ELSE None] : c \in d.conns}]

(* An answer with one thing wrong.                                         *)
Garble(a, g) ==
  CASE g = "none" -> a
    [] g = "unbound" -> [a EXCEPT !.skills = @ \cup {[id |-> None, name |-> None, body |-> None, created |-> FALSE, market |-> None]}]
    [] g = "missing" -> IF a.experts = <<>> THEN a ELSE [a EXCEPT !.experts[1].skills = IF @ = <<>> THEN @ ELSE Tail(@)]
    [] g = "repeated" -> IF a.experts = <<>> THEN a ELSE [a EXCEPT !.experts[1].skills = @ \o @]
    [] g = "leader" -> IF a.team = None THEN a
                       ELSE LET other == a.experts[Len(a.experts)].name IN
                            [a EXCEPT !.leader = other, !.experts =
                               [i \in 1..Len(@) |-> [@[i] EXCEPT !.leader = a.experts[i].name = other]]]
    [] g = "lost" -> IF a.experts = <<>> THEN a ELSE [a EXCEPT !.experts = Tail(@)]
    [] g = "foreign" -> [a EXCEPT !.skills = {[s EXCEPT !.market = 0] : s \in @}]

-----------------------------------------------------------------------------
(* The check of the answer.                                                *)

NoRepeat(s) == \A i, j \in 1..Len(s) : s[i] = s[j] => i = j

(* Every skill and connector reported is bound by an expert, and no expert *)
(* repeats a binding.                                                      *)
BindingsClosed(a) ==
  LET experts == ToSet(a.experts) IN
  /\ \A e \in experts : NoRepeat(e.skills) /\ NoRepeat(e.conns)
  /\ UNION {ToSet(e.skills) : e \in experts} = {s.id : s \in a.skills}
  /\ UNION {ToSet(e.conns) : e \in experts} = {c.id : c \in a.conns}

(* A new expert has exactly the skills and connectors it was to have, and  *)
(* what was made new for it carries the market's id.                       *)
validCreatedExpertBindings(d, e, r, a) ==
  /\ \A s \in a.skills : s.id \in ToSet(r.skills) =>
       \E w \in d.skills : /\ w.name \in e.skills /\ w.name = s.name /\ w.body = s.body
                           /\ s.created => s.market = w.market
  /\ Cardinality(ToSet(r.skills)) = Cardinality(e.skills)
  /\ \A c \in a.conns : c.id \in ToSet(r.conns) =>
       \E w \in d.conns : w.name \in e.conns /\ w.name = c.name /\ (c.created => c.market = w.market)
  /\ Cardinality(ToSet(r.conns)) = Cardinality(e.conns)

(* A new team has each expert of the definition once, under its leader.    *)
validCreatedTeamGraph(d, a) ==
  /\ Len(a.experts) = Len(d.experts)
  /\ {e.name : e \in ToSet(a.experts)} = {e.name : e \in ToSet(d.experts)}
  /\ \A e \in ToSet(d.experts), r \in ToSet(a.experts) :
       e.name = r.name /\ r.created => r.market = e.id /\ validCreatedExpertBindings(d, e, r, a)
  /\ \E m \in ToSet(d.members) : m.leader /\ m.name = a.leader

validCapabilityConnectorOnlyResult(d, a) ==
  /\ a.type = "connectors" /\ a.experts = <<>> /\ a.skills = {} /\ a.team = None
  /\ {c.name : c \in a.conns} = {c.name : c \in d.conns}
  /\ \A c \in a.conns, w \in d.conns : c.name = w.name /\ c.created => c.market = w.market

validCapabilityResult(d, a) ==
  IF d.experts = <<>> THEN validCapabilityConnectorOnlyResult(d, a)
  ELSE /\ a.experts # <<>> /\ UniqueNames(a.experts) /\ BindingsClosed(a)
       /\ IF d.team = None
            THEN /\ a.type = "expert" /\ Len(a.experts) = 1 /\ a.team = None
                 /\ a.experts[1].id = a.root /\ a.experts[1].name = d.experts[1].name
                 /\ a.experts[1].created =>
                      a.experts[1].market = d.experts[1].id /\ validCreatedExpertBindings(d, d.experts[1], a.experts[1], a)
            ELSE /\ a.type = "expert_team" /\ a.team = d.team /\ a.root = None
                 /\ \E e \in ToSet(a.experts) : e.id = a.leader
                 /\ \A e \in ToSet(a.experts) : e.leader => e.id = a.leader
                 /\ a.created => validCreatedTeamGraph(d, a)

-----------------------------------------------------------------------------
Build ==
  /\ def = None /\ def' = Definition(graph)
  /\ UNCHANGED <<graph, mode, again, answer, accepted>>

Rebuild(order) ==
  /\ def # None /\ again = None /\ answer = None /\ again' = Definition(Listed(graph, order))
  /\ UNCHANGED <<graph, mode, def, answer, accepted>>

(* What is wrong is wrong about new resources: of others the check asks    *)
(* only names.                                                             *)
Answer(team, experts, assets, g) ==
  LET truth == Truth(def, team, experts, assets)
      told == Garble(truth, g) IN
  /\ def # None /\ again = None /\ def.ok /\ answer = None
  /\ def.team = None => ~team
  /\ g # "none" => experts /\ assets /\ (def.team # None => team)
  /\ answer' = [garbled |-> told # truth, is |-> told]
  /\ accepted' = validCapabilityResult(def, told)
  /\ UNCHANGED <<graph, mode, def, again>>

Next ==
  \/ Build
  \/ \E order \in Orders : Rebuild(order)
  \/ \E team, experts, assets \in BOOLEAN, g \in Garbles : Answer(team, experts, assets, g)

Spec == Init /\ [][Next]_vars

-----------------------------------------------------------------------------
(* What the pinned builder builds, recovery accepts: no plan is frozen     *)
(* that validPinnedDefinition refuses later.                               *)
BuiltIsValid ==
  mode.builder = "pinned" /\ def # None => LET d == resolvePinnedInstallation(graph) IN d.ok => validPinnedDefinition(d)

(* Each expert gets, under every name it is bound to, the very content its *)
(* relation pins, although skills are merged by name.                      *)
PinsAreDelivered ==
  def # None /\ def.ok =>
    \A i \in 1..Len(def.experts) : \A r \in ToSet(relationsOfType(graph, def.experts[i].id, "skill")) :
      \E s \in def.skills : s.name \in def.experts[i].skills /\ s.name = graph.title[KeyOf(r)] /\ s.body = graph.body[KeyOf(r)]

(* Nothing is delivered to an audience wider than its own, also when the   *)
(* request already has it for another expert.                              *)
AudienceKept ==
  def # None /\ def.ok =>
    \A i \in 1..Len(def.experts) : \A r \in ToSet(graph.rels[def.experts[i].id]) :
      (r.type = "skill" \/ mode.workspace) => installAudience(graph, def.experts[i].id, r.to)

(* A retry that reads the graph in another order asks for the same thing,  *)
(* except that in the default builder the first of two equal skills lends  *)
(* its id.                                                                 *)
Anonymous(d) == [d EXCEPT !.skills = {[name |-> s.name, body |-> s.body] : s \in @}]
RetrySameDefinition ==
  again # None => IF mode.builder = "pinned" THEN again = def ELSE Anonymous(again) = Anonymous(def)

(* The truth is accepted, whatever of it was new.                          *)
TruthAccepted == answer # None => (~answer.garbled => accepted)

(* An accepted answer about new resources is complete: every expert, its   *)
(* skills and connectors, and the leader are those of the definition.      *)
AcceptedIsComplete ==
  answer # None /\ accepted =>
    \A i \in 1..Len(def.experts) : \A r \in ToSet(answer.is.experts) :
      LET e == def.experts[i] IN
      /\ (e.name = r.name /\ r.created /\ (def.team # None => answer.is.created))
           => {s.name : s \in {t \in answer.is.skills : t.id \in ToSet(r.skills)}} = e.skills
      /\ (def.team # None /\ answer.is.created) =>
           /\ {x.name : x \in ToSet(answer.is.experts)} = {x.name : x \in ToSet(def.experts)}
           /\ \E m \in ToSet(def.members) : m.leader /\ m.name = answer.is.leader

(* What is asked of Fleet is what the pinned graph holds, and an answer is *)
(* accepted exactly when it is that (resolvePinnedInstallation,            *)
(* validCapabilityResult).                                                 *)
DefinitionFaithful ==
  /\ BuiltIsValid
  /\ PinsAreDelivered
  /\ AudienceKept
  /\ RetrySameDefinition
  /\ TruthAccepted
  /\ AcceptedIsComplete
=============================================================================
