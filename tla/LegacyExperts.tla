---------------------------- MODULE LegacyExperts ----------------------------
(***************************************************************************)
(* The legacy experts and squads: create, patch and delete over            *)
(* uploaded skill packages, stored objects and one database row each.  An  *)
(* expert is a row with one member of its own; a squad's members carry a   *)
(* key and one of them leads.  PATCH reads the row, builds the new one     *)
(* with object-store calls in between, and replaces every column.          *)
(* Uploads stay writable through their presigned URL, so the uploader may  *)
(* replace the bytes at any step.                                          *)
(***************************************************************************)
EXTENDS Naturals, Sequences, FiniteSets

CONSTANTS Ids, Calls, Names,
          Requests,    \* the member lists callers send
          MaxPuts,     \* bound on writes through the presigned URL
          MaxFaults,   \* bound on object-store failures
          Bad,         \* package bytes that do not validate
          None

VARIABLES upload,    \* the temporary upload: None, or the bytes at its key
          objects,   \* stored objects, in the order of their generated keys
          row, call, puts, faults

vars == <<upload, objects, row, call, puts, faults>>

(* A package is told by the name in its SKILL.md.  A reference points at a *)
(* stored SKILL.md and a stored package, each possibly absent (0).         *)
Ref(n, md, zip) == [name |-> n, md |-> md, zip |-> zip]
Stored(r) == r.md # 0 \/ r.zip # 0
NoRow == [live |-> FALSE, text |-> None, label |-> None, pinned |-> FALSE, members |-> <<>>]
NewCall == [at |-> "new", op |-> None, id |-> None, base |-> NoRow, req |-> <<>>, named |-> {},
            pin |-> None, out |-> <<>>, left |-> <<>>, bytes |-> None, md |-> 0]

TypeOK ==
  /\ upload \in Names \cup {Bad, None} /\ objects \in Seq(Names \cup {Bad})
  /\ puts \in 0..MaxPuts /\ faults \in 0..MaxFaults
  /\ \A id \in Ids : row[id].live \in BOOLEAN /\ Len(row[id].members) < 3
  /\ \A c \in Calls : call[c].at \in {"new", "build", "md", "zip", "write", "ended"}

Init ==
  /\ upload = None /\ objects = <<>> /\ puts = 0 /\ faults = 0
  /\ row = [id \in Ids |-> NoRow] /\ call = [c \in Calls |-> NewCall]

Ends(c) == call' = [call EXCEPT ![c] = [NewCall EXCEPT !.at = "ended"]]

-----------------------------------------------------------------------------
(* InitSkillUpload minted the key; the URL may be used again and again.    *)
PresignedPut(b) ==
  /\ puts < MaxPuts /\ puts' = puts + 1 /\ upload' = b
  /\ UNCHANGED <<objects, row, call, faults>>

(* The skills of the members, in order, as <<member, input>>.              *)
Inputs(req) ==
  LET of(i) == [j \in 1..Len(req[i].skills) |-> <<i, req[i].skills[j]>>] IN
  IF Len(req) = 1 THEN of(1) ELSE of(1) \o of(2)

(* Index the member's stored references by its key.                        *)
Preservable(c) ==
  [i \in 1..Len(call[c].req) |->
    LET old == {k \in 1..Len(call[c].base.members) : call[c].base.members[k].key = call[c].req[i].key}
    IN IF old = {} THEN <<>>
       ELSE SelectSeq(call[c].base.members[CHOOSE k \in old : TRUE].skills, Stored)]

Creates(c, id, req) ==
  /\ call[c].at = "new" /\ row[id] = NoRow
  /\ \A d \in Calls : call[d].id # id
  /\ call' = [call EXCEPT ![c] = [NewCall EXCEPT !.at = "build", !.op = "create", !.id = id, !.req = req,
                !.named = {"text", "members"}, !.out = [i \in 1..Len(req) |-> <<>>], !.left = Inputs(req)]]
  /\ UNCHANGED <<upload, objects, row, puts, faults>>

(* An expert is its own only member; a squad of one behaves as an expert.  *)
CreateExpert(c, id, req) == Len(req) = 1 /\ Creates(c, id, req)

CreateSquad(c, id, req) == Creates(c, id, req)

(* The row is read here and not again; the fields named, and a pinned      *)
(* leader label, are what the request carries.                             *)
Patches(c, id, named, req, pin) ==
  /\ call[c].at = "new" /\ row[id].live
  /\ call' = [call EXCEPT ![c] = [NewCall EXCEPT !.at = IF "members" \in named THEN "build" ELSE "write",
                !.op = "patch", !.id = id, !.base = row[id], !.named = named, !.pin = pin,
                !.req = IF "members" \in named THEN req ELSE <<>>,
                !.out = IF "members" \in named THEN [i \in 1..Len(req) |-> <<>>] ELSE <<>>,
                !.left = IF "members" \in named THEN Inputs(req) ELSE <<>>]]
  /\ UNCHANGED <<upload, objects, row, puts, faults>>

PatchExpert(c, id, named, req) ==
  Len(req) = 1 /\ Len(row[id].members) = 1 /\ Patches(c, id, named, req, None)

PatchSquad(c, id, named, req, pin) == Patches(c, id, named, req, pin)

Adds(c, r) ==
  call' = [call EXCEPT ![c].at = "build", ![c].bytes = None, ![c].md = 0, ![c].left = Tail(@),
             ![c].out = [@ EXCEPT ![Head(call[c].left)[1]] = Append(@, r)]]
Turn(c, kind) == call[c].at = "build" /\ call[c].left # <<>> /\ Head(call[c].left)[2].kind = kind
Fails(c) == faults < MaxFaults /\ faults' = faults + 1 /\ Ends(c)

(* storeSkillPackage: the upload is downloaded and validated; whatever     *)
(* happens next, the temporary object is deleted at the end.               *)
DownloadSkill(c) ==
  /\ Turn(c, "upload")
  /\ \/ /\ upload \in Names /\ call' = [call EXCEPT ![c].at = "md", ![c].bytes = upload]
        /\ UNCHANGED <<upload, faults>>
     \/ upload \notin Names /\ Ends(c) /\ upload' = None /\ UNCHANGED faults
     \/ Fails(c) /\ upload' = None
  /\ UNCHANGED <<objects, row, puts>>

PutSkillMD(c) ==
  /\ call[c].at = "md"
  /\ \/ /\ objects' = Append(objects, call[c].bytes)
        /\ call' = [call EXCEPT ![c].at = "zip", ![c].md = Len(objects) + 1]
        /\ UNCHANGED <<upload, faults>>
     \/ Fails(c) /\ upload' = None /\ UNCHANGED objects
  /\ UNCHANGED <<row, puts>>

PutSkillZip(c) ==
  /\ call[c].at = "zip"
  /\ \/ /\ objects' = Append(objects, call[c].bytes)
        /\ Adds(c, Ref(call[c].bytes, call[c].md, Len(objects) + 1)) /\ UNCHANGED faults
     \/ Fails(c) /\ UNCHANGED objects
  /\ upload' = None /\ UNCHANGED <<row, puts>>

(* SKILL.md text in the request itself.                                    *)
PutInline(c) ==
  LET n == Head(call[c].left)[2].name IN
  /\ Turn(c, "inline")
  /\ \/ /\ objects' = Append(objects, n)
        /\ Adds(c, Ref(n, Len(objects) + 1, 0)) /\ UNCHANGED faults
     \/ Fails(c) /\ UNCHANGED objects
  /\ UNCHANGED <<upload, row, puts>>

(* Mutant: a stored reference is found by name and not used up.            *)
KeepAgain(c) ==
  LET i == Head(call[c].left)[1] n == Head(call[c].left)[2].name
      queue == SelectSeq(Preservable(c)[i], LAMBDA r : r.name = n) IN
  /\ Turn(c, "keep")
  /\ Adds(c, IF queue = <<>> THEN Ref(n, 0, 0) ELSE queue[1])
  /\ UNCHANGED <<upload, objects, row, puts, faults>>

(* Mutant: a name alone is a skill without a package.                      *)
KeepNothing(c) ==
  /\ Turn(c, "keep") /\ Adds(c, Ref(Head(call[c].left)[2].name, 0, 0))
  /\ UNCHANGED <<upload, objects, row, puts, faults>>

(* A name alone keeps a stored skill of that name, each at most once.      *)
KeepSkill(c) ==
  LET i == Head(call[c].left)[1]
      n == Head(call[c].left)[2].name
      used == {call[c].out[i][k] : k \in 1..Len(call[c].out[i])}
      queue == SelectSeq(Preservable(c)[i], LAMBDA r : r.name = n /\ r \notin used) IN
  /\ Turn(c, "keep")
  /\ Adds(c, IF queue = <<>> THEN Ref(n, 0, 0) ELSE queue[1])
  /\ UNCHANGED <<upload, objects, row, puts, faults>>

-----------------------------------------------------------------------------
(* Exactly one leader: the first that is flagged, or the first.            *)
leaderIndex(req) ==
  LET flagged == {i \in 1..Len(req) : req[i].lead} IN
  IF flagged = {} THEN 1 ELSE CHOOSE i \in flagged : \A k \in flagged : i <= k
buildMembers(c) ==
  [i \in 1..Len(call[c].req) |->
    [key |-> call[c].req[i].key, lead |-> i = leaderIndex(call[c].req), skills |-> call[c].out[i]]]
resolveLeaderName(c) == call[c].req[leaderIndex(call[c].req)].key

(* What the installer takes for the leader.                                *)
squadLeaderIndex(r) ==
  LET flagged == {i \in 1..Len(r.members) : r.members[i].lead}
      called == {i \in 1..Len(r.members) : r.members[i].key = r.label}
      first(S) == CHOOSE i \in S : \A k \in S : i <= k IN
  IF flagged # {} THEN first(flagged) ELSE IF called # {} THEN first(called) ELSE 1

(* The replacement row: what the request names is new, the rest is as it   *)
(* was read.                                                               *)
applyExpertPatch(c) ==
  [call[c].base EXCEPT
     !.live = TRUE,
     !.text = IF "text" \in call[c].named THEN c ELSE @,
     !.members = IF "members" \in call[c].named THEN buildMembers(c) ELSE @]

(* The label follows new members unless the request pins it.               *)
applySquadPatch(c) ==
  [applyExpertPatch(c) EXCEPT
     !.label = IF call[c].pin # None THEN call[c].pin
               ELSE IF "members" \in call[c].named THEN resolveLeaderName(c) ELSE @,
     !.pinned = call[c].pin # None \/ ("members" \notin call[c].named /\ @)]

Built(c) == call[c].at = "write" \/ (call[c].at = "build" /\ call[c].left = <<>>)

(* One transaction: tags, and the INSERT or the UPDATE of a row that is    *)
(* still live.  It may fail, for a name that is taken among others.        *)
UpdateExpert(c) ==
  /\ Built(c) /\ Ends(c)
  /\ \/ /\ call[c].op = "patch" => row[call[c].id].live
        /\ row' = [row EXCEPT ![call[c].id] = applySquadPatch(c)]
     \/ UNCHANGED row
  /\ UNCHANGED <<upload, objects, puts, faults>>

DeleteExpert(id) ==
  /\ row[id].live /\ row' = [row EXCEPT ![id].live = FALSE]
  /\ UNCHANGED <<upload, objects, call, puts, faults>>

Next ==
  \/ \E b \in Names \cup {Bad} : PresignedPut(b)
  \/ \E c \in Calls, id \in Ids :
       \/ \E req \in Requests : CreateExpert(c, id, req) \/ CreateSquad(c, id, req)
       \/ \E req \in Requests, named \in SUBSET {"text", "members"} \ {{}} :
            \/ PatchExpert(c, id, named, req)
            \/ \E pin \in {None, "other"} : PatchSquad(c, id, named, req, pin)
  \/ \E c \in Calls : \/ DownloadSkill(c) \/ PutSkillMD(c) \/ PutSkillZip(c)
                      \/ PutInline(c) \/ KeepSkill(c) \/ UpdateExpert(c)
  \/ \E id \in Ids : DeleteExpert(id)

Spec == Init /\ [][Next]_vars

-----------------------------------------------------------------------------
Refs(r) == UNION {{r.members[i].skills[j] : j \in 1..Len(r.members[i].skills)} : i \in 1..Len(r.members)}

(* What is stored is what was validated: the package and the SKILL.md of a *)
(* live row exist and are the same validated package, although the upload  *)
(* could be replaced at any step.                                          *)
StoredIsValidated ==
  \A id \in Ids : \A r \in Refs(row[id]) :
    /\ r.md # 0 => objects[r.md] = r.name
    /\ r.zip # 0 => objects[r.zip] = r.name

(* No object has two owners: within a row and across rows, whatever was    *)
(* preserved by name and however patches raced.                            *)
NoSharedObject ==
  \A id, jd \in Ids : \A i \in 1..Len(row[id].members), k \in 1..Len(row[jd].members) :
    \A m \in 1..Len(row[id].members[i].skills), n \in 1..Len(row[jd].members[k].skills) :
      LET a == row[id].members[i].skills[m] b == row[jd].members[k].skills[n] IN
      <<id, i, m>> # <<jd, k, n>> =>
        {a.md, a.zip} \cap {b.md, b.zip} \subseteq {0}

(* One leader, whatever flags were sent, and the installer picks that one; *)
(* the label names it unless a caller pinned another.                      *)
LeaderAgrees ==
  \A id \in Ids : row[id] # NoRow =>
    LET r == row[id] IN
    /\ \A i \in 1..Len(r.members) : r.members[i].lead <=> i = squadLeaderIndex(r)
    /\ r.pinned \/ r.label = r.members[squadLeaderIndex(r)].key

namesOf(s) == [j \in 1..Len(s) |-> s[j].name]
RoundTrip(req, r) ==
  /\ Len(req) = Len(r.members)
  /\ \A i \in 1..Len(req) :
       /\ req[i].key = r.members[i].key
       /\ \A j \in 1..Len(req[i].skills) : req[i].skills[j].kind = "keep"
       /\ namesOf(req[i].skills) = namesOf(r.members[i].skills)

(* c's patch is written over the row it has read.                          *)
Lands(c) ==
  LET id == call[c].id IN
  /\ call[c].at # "ended" /\ call'[c].at = "ended" /\ call[c].op = "patch"
  /\ row[id] = call[c].base /\ row'[id] # row[id]

KeepsUnnamed ==
  \A c \in Calls : Lands(c) =>
    LET id == call[c].id IN
    /\ "text" \notin call[c].named => row'[id].text = row[id].text
    /\ "members" \notin call[c].named => row'[id].members = row[id].members
    /\ RoundTrip(call[c].req, row[id]) =>
         {r \in Refs(row[id]) : Stored(r)} = {r \in Refs(row'[id]) : Stored(r)}

KeepsDeleted == \A id \in Ids : row[id] # NoRow /\ ~row[id].live => row'[id] = row[id]

(* What an expert or a squad refers to is stored, validated, its own, and  *)
(* led by one member (storeSkillPackage, buildSkillRefs, buildMembers).    *)
ExpertsSound ==
  /\ StoredIsValidated
  /\ NoSharedObject
  /\ LeaderAgrees

(* Sending back the names that were read loses no package, a patch leaves  *)
(* what it does not name, and a deleted expert or squad stays as it was    *)
(* (applyExpertPatch, UpdateExpert).                                       *)
HistoryKept == [][KeepsUnnamed /\ KeepsDeleted]_vars
=============================================================================
