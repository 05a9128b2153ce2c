---------------------------- MODULE MCCatalogue ----------------------------
(***************************************************************************)
(* What the catalogue stores, on small instances: managed releases and     *)
(* their references, the graphs of imported archives, the shelves, and the *)
(* skills, experts and squads that predate plugins.  A behaviour is a      *)
(* behaviour of one of them, chosen at the start.  The managed catalogue   *)
(* stays in an initial state while another one moves; rows, objects, calls *)
(* and faults are those of the component that moves; the variables it does *)
(* not have stay None.  ShelfPart of Shelves holds of every behaviour.     *)
(***************************************************************************)
EXTENDS ManagedCatalog, Shelves, Sequences, TLC

CONSTANTS Calls,    \* two interchangeable requests
          Late,     \* a third one, for experts only
          MaxRuns,
          OldSkills, Tasks, Names, Seed, MaxFaults,
          Squads, MaxPuts, Bad

VARIABLES row, objects, call, faults,
          version, task, temp,
          upload, puts,
          top, live, edge, staged, frozen, runs, dropped

shared     == <<row, objects, call, faults>>
skillVars  == <<version, task, temp>>
expertVars == <<upload, puts>>
boxVars    == <<top, live, edge, staged, frozen, runs, dropped>>
storeVars  == <<part, vars, shared, skillVars, expertVars, boxVars, shelfVars>>

(* What callers send: a new package and an inline skill; the stored names; *)
(* a squad of two leaders that keeps a skill of the second.                *)
aSkill == CHOOSE n \in Names : TRUE
Skill(kind) == [kind |-> kind, name |-> IF kind = "upload" THEN None ELSE aSkill]
Member(key, lead, kinds) ==
  [key |-> key, lead |-> lead, skills |-> [i \in 1..Len(kinds) |-> Skill(kinds[i])]]
MemberLists ==
  {<<Member("own", FALSE, <<"upload", "inline">>)>>,
   <<Member("own", TRUE, <<"keep", "keep">>)>>,
   <<Member("m2", TRUE, <<>>), Member("own", TRUE, <<"keep">>)>>}

(* Archives: an expert with a text skill, a team whose two experts bundle  *)
(* the same binary skill.                                                  *)
Squad == [m \in {"m1", "m2"} |-> {"f"}]

Skill_  == INSTANCE LegacySkills WITH Skills <- OldSkills
Expert_ == INSTANCE LegacyExperts WITH Ids <- Squads, Calls <- Calls \cup {Late},
             Names <- {aSkill}, Requests <- MemberLists
Box_    == INSTANCE ContainerGraph WITH Callers <- Calls, Files <- {"f", "g"}, Binary <- {"f"},
             Members <- {"m1", "m2"}, Experts <- {{"g"}}, Teams <- {Squad}, kind <- top

StoreInit ==
  /\ part \in {"managed", "skill", "expert", "container", "shelf"}
  /\ Init
  /\ part # "managed" => vis = [p \in Plugins |-> "private"]
  /\ \/ part = "skill" /\ Skill_!Init
     \/ part = "expert" /\ Expert_!Init
     \/ part = "container" /\ Box_!Init /\ row = None /\ objects = None /\ faults = None
     \/ part \in {"managed", "shelf"} /\ row = None /\ objects = None /\ call = None /\ faults = None
  /\ part # "skill" => version = None /\ task = None /\ temp = None
  /\ part # "expert" => upload = None /\ puts = None
  /\ part # "container" => /\ top = None /\ live = None /\ edge = None /\ staged = None
                           /\ frozen = None /\ runs = None /\ dropped = None
  /\ ShelfStarts

InManaged(A) == part = "managed" /\ A
  /\ UNCHANGED <<part, shared, skillVars, expertVars, boxVars, shelfVars>>
InSkill(A)   == part = "skill" /\ A
  /\ UNCHANGED <<part, vars, expertVars, boxVars, shelfVars>>
InExpert(A)  == part = "expert" /\ A
  /\ UNCHANGED <<part, vars, skillVars, boxVars, shelfVars>>
InBox(A)     == part = "container" /\ A
  /\ UNCHANGED <<part, vars, row, objects, faults, skillVars, expertVars, shelfVars>>
InShelf(A)   == part = "shelf" /\ A
  /\ UNCHANGED <<part, vars, shared, skillVars, expertVars, boxVars>>

StoreNext ==
  \/ InManaged(Next)
  \/ InSkill(Skill_!Next)
  \/ InExpert(Expert_!Next)
  \/ InBox(Box_!Next)
  \/ InShelf(Shelf!Next)

StoreSpec == StoreInit /\ [][StoreNext]_storeVars

Symmetric == Permutations(Calls) \cup Permutations(OldSkills)

(* Bound: once an author's saves have let go of four parts of containers,  *)
(* the behaviour ends.                                                     *)
FewDropped == part = "container" => Cardinality(dropped) < 4

-----------------------------------------------------------------------------
(* The graphs of imported archives are whole: no part without a container, *)
(* no relation or object that leads nowhere (CreateGraph, RebuildGraph,    *)
(* DeleteGraph).                                                           *)
GraphsWhole == part = "container" => Box_!TypeOK /\ Box_!GraphsWhole

(* Skills, parse tasks and objects stay in step through failing and racing *)
(* uploads (Create, Update, CreateSkillAndConsumeTask).                    *)
SkillsSound == part = "skill" => Skill_!TypeOK /\ Skill_!SkillsSound

(* What an expert or a squad refers to is stored, validated, its own, and  *)
(* led by one member (storeSkillPackage, buildSkillRefs, buildMembers).    *)
ExpertsSound == part = "expert" => Expert_!TypeOK /\ Expert_!ExpertsSound

(* What no step undoes: a plugin that others refer to, a deletion, what a  *)
(* patch does not name or sends back as it was read, a place on the        *)
(* default shelf (collectEmbeddedChildren, UpdateSkillAndConsumeTask,      *)
(* applyExpertPatch, UpdatePlacement).                                     *)
NothingUndone ==
  [][/\ part = "container" => Box_!KeepsReferenced
     /\ part = "skill" => Skill_!KeepsDeleted
     /\ part = "expert" => Expert_!KeepsUnnamed /\ Expert_!KeepsDeleted
     /\ part = "shelf" => Shelf!KeepsGrid]_storeVars
============================================================================
