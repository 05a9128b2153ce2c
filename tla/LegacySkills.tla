---------------------------- MODULE LegacySkills ----------------------------
(***************************************************************************)
(* The legacy skill catalogue: a skill is created or uploaded again from a *)
(* parsed archive, edited and deleted by its owner.  An upload writes two  *)
(* objects first, then the rows in one transaction that also consumes the  *)
(* parse task, then drops the temporary archive; calls run concurrently,   *)
(* object storage fails, and the process may stop between any two steps.   *)
(* One owner and one Space: the guards on them are those of every query.   *)
(***************************************************************************)
EXTENDS Naturals, FiniteSets

CONSTANTS Calls,      \* requests; each makes at most one version, named after it
          Skills, Tasks, Names,
          Seed,       \* the version of the skill that is there at first
          MaxFaults,  \* bound on failed object operations and stops
          None

VARIABLES row,      \* skills
          version,  \* skill_versions: None, or the skill, the task and the objects
          task,     \* parse_tasks
          temp,     \* tasks whose temporary archive is stored
          objects,  \* other stored objects
          call, faults

vars == <<row, version, task, temp, objects, call, faults>>

-----------------------------------------------------------------------------
versionObjectKeys(k, v) == [zip |-> <<k, v, "zip">>, md |-> <<k, v, "md">>]

OldZip(k) == <<k, "old", "zip">>
NoRow == [live |-> FALSE, name |-> None, current |-> None, file |-> None]
NoCall == [op |-> None, at |-> "new", skill |-> None, task |-> None, name |-> None,
           linked |-> None, answer |-> None]
Versions == Calls \cup {Seed}

(* GetByID joins the current version; rowToItem takes its zip, or the key  *)
(* of the older storage form, or the row's own file.                       *)
rowToItem(k) ==
  IF row[k].current = None THEN row[k].file ELSE version[row[k].current].zip

(* GetSkillMD serves the current version's SKILL.md, if it has one.        *)
GetSkillMD(k) == IF row[k].current = None THEN None ELSE version[row[k].current].md

TypeOK ==
  /\ row \in [Skills -> [live : BOOLEAN, name : Names \cup {None}, current : Versions \cup {None},
                         file : {None} \cup {OldZip(k) : k \in Skills}
                                \cup {versionObjectKeys(k, v).zip : k \in Skills, v \in Calls \cup {Seed}}]]
  /\ \A v \in Versions : version[v] # None => version[v].skill \in Skills
  /\ \A t \in Tasks : task[t].status \in {"success", "consumed"}
  /\ temp \subseteq Tasks
  /\ \A c \in Calls : call[c].at \in {"new", "zip", "md", "commit", "cleanup", "temp", "edit",
                                      "delete", "ended"}
  /\ faults \in 0..MaxFaults

(* One skill is there, in one of the three storage forms there have been.  *)
Init ==
  /\ \E k \in Skills, n \in Names, form \in {"file", "old", "pair"} :
       /\ row = [j \in Skills |->
            IF j = k THEN [live |-> TRUE, name |-> n, current |-> IF form = "file" THEN None ELSE Seed,
                           file |-> OldZip(k)] ELSE NoRow]
       /\ version = [v \in Versions |->
            IF v # Seed \/ form = "file" THEN None
            ELSE IF form = "old" THEN [skill |-> k, task |-> None, zip |-> OldZip(k), md |-> None]
            ELSE [skill |-> k, task |-> None, zip |-> versionObjectKeys(k, Seed).zip,
                  md |-> versionObjectKeys(k, Seed).md]]
       /\ objects = {OldZip(k)} \cup
            (IF form = "pair" THEN {versionObjectKeys(k, Seed).zip, versionObjectKeys(k, Seed).md} ELSE {})
       /\ task \in [Tasks -> [status : {"success"}, skill : {None, k}, name : Names]]
  /\ temp = Tasks
  /\ call = [c \in Calls |-> NoCall]
  /\ faults = 0

Fault == faults < MaxFaults /\ faults' = faults + 1
Ends(c, a) == call' = [call EXCEPT ![c].at = "ended", ![c].answer = a]
Goes(c, at) == call' = [call EXCEPT ![c].at = at]
Keys(c) == versionObjectKeys(call[c].skill, c)
NameTaken(k, n) == \E j \in Skills \ {k} : row[j].live /\ row[j].name = n
Catalogue == <<row, version, task>>

-----------------------------------------------------------------------------
(* POST: checks on the task as it is now, the archive read and verified.   *)
Create(c, k, t, n) ==
  /\ call[c].at = "new"
  /\ row[k] = NoRow /\ \A d \in Calls : call[d].skill # k
  /\ IF task[t].status = "success" /\ task[t].skill = None /\ t \in temp
       THEN call' = [call EXCEPT ![c] = [NoCall EXCEPT !.op = "create", !.at = "zip", !.skill = k, !.task = t,
                       !.name = IF n = None THEN task[t].name ELSE n]]
       ELSE Ends(c, "invalid")
  /\ UNCHANGED <<row, version, task, temp, objects, faults>>

(* PUT with a parse task.  A task of another name is answered with         *)
(* ErrNameMismatch after its archive is dropped.                           *)
Reupload(c, k, t, n) ==
  /\ call[c].at = "new"
  /\ IF ~row[k].live THEN Ends(c, "not found") /\ UNCHANGED temp
     ELSE IF task[t].status # "success" \/ task[t].skill \notin {None, k}
       THEN Ends(c, "invalid") /\ UNCHANGED temp
     ELSE IF task[t].name # row[k].name
       THEN Ends(c, "mismatch") /\ temp' \in {temp \ {t}, temp}
     ELSE IF t \notin temp THEN Ends(c, "invalid") /\ UNCHANGED temp
     ELSE /\ call' = [call EXCEPT ![c] = [NoCall EXCEPT !.op = "reupload", !.at = "zip", !.skill = k, !.task = t,
                        !.name = IF n = None THEN task[t].name ELSE n,
                        !.linked = IF task[t].skill = None THEN k ELSE task[t].skill]]
          /\ UNCHANGED temp
  /\ UNCHANGED <<row, version, task, objects, faults>>

PutZip(c) ==
  /\ call[c].at = "zip"
  /\ \/ objects' = objects \cup {Keys(c).zip} /\ Goes(c, "md") /\ UNCHANGED faults
     \/ Fault /\ Ends(c, "error") /\ UNCHANGED objects
  /\ UNCHANGED <<Catalogue, temp>>

(* A failed SKILL.md takes the zip back; that deletion may fail as well.   *)
PutSkillMD(c) ==
  /\ call[c].at = "md"
  /\ \/ objects' = objects \cup {Keys(c).md} /\ Goes(c, "commit") /\ UNCHANGED faults
     \/ Fault /\ Ends(c, "error") /\ objects' \in {objects, objects \ {Keys(c).zip}}
  /\ UNCHANGED <<Catalogue, temp>>

-----------------------------------------------------------------------------
(* The transactions.                                                       *)

Uploaded(c) == [skill |-> call[c].skill, task |-> call[c].task, zip |-> Keys(c).zip, md |-> Keys(c).md]
Consumed(t) == task' = [task EXCEPT ![t].status = "consumed"]
Fails(c, a) == call' = [call EXCEPT ![c].at = "cleanup", ![c].answer = a]

(* Mutant: the task is consumed before the transaction.                    *)
ConsumeFirst(c) ==
  LET k == call[c].skill
      t == call[c].task IN
  /\ call[c].at = "commit" /\ call[c].op = "create"
  /\ IF task[t].status # "success" \/ task[t].skill # None
       THEN Fails(c, "consumed") /\ UNCHANGED Catalogue
     ELSE IF NameTaken(k, call[c].name) THEN Fails(c, "name taken") /\ Consumed(t) /\ UNCHANGED <<row, version>>
     ELSE /\ Consumed(t)
          /\ row' = [row EXCEPT ![k] = [live |-> TRUE, name |-> call[c].name, current |-> c, file |-> Keys(c).zip]]
          /\ version' = [version EXCEPT ![c] = Uploaded(c)]
          /\ Goes(c, "temp")
  /\ UNCHANGED <<temp, objects, faults>>

CreateSkillAndConsumeTask(c) ==
  LET k == call[c].skill
      t == call[c].task IN
  /\ call[c].at = "commit" /\ call[c].op = "create"
  /\ IF task[t].status # "success" \/ task[t].skill # None
       THEN Fails(c, "consumed") /\ UNCHANGED Catalogue
     ELSE IF NameTaken(k, call[c].name) THEN Fails(c, "name taken") /\ UNCHANGED Catalogue
     ELSE /\ Consumed(t)
          /\ row' = [row EXCEPT ![k] = [live |-> TRUE, name |-> call[c].name, current |-> c, file |-> Keys(c).zip]]
          /\ version' = [version EXCEPT ![c] = Uploaded(c)]
          /\ Goes(c, "temp")
  /\ UNCHANGED <<temp, objects, faults>>

(* The task has to be linked as the caller read it, or to this skill: one  *)
(* that is linked to no skill is never found.                              *)
UpdateSkillAndConsumeTask(c) ==
  LET k == call[c].skill
      t == call[c].task IN
  /\ call[c].at = "commit" /\ call[c].op = "reupload"
  /\ IF task[t].status # "success" \/ task[t].skill # call[c].linked
       THEN Fails(c, "consumed") /\ UNCHANGED Catalogue
     ELSE IF ~row[k].live THEN Fails(c, "not found") /\ UNCHANGED Catalogue
     ELSE IF NameTaken(k, call[c].name) THEN Fails(c, "name taken") /\ UNCHANGED Catalogue
     ELSE /\ Consumed(t)
          /\ row' = [row EXCEPT ![k].name = call[c].name, ![k].current = c, ![k].file = Keys(c).zip]
          /\ version' = [version EXCEPT ![c] = Uploaded(c)]
          /\ Goes(c, "temp")
  /\ UNCHANGED <<temp, objects, faults>>

(* Any other database error rolls the transaction back.                    *)
CommitFails(c) ==
  /\ call[c].at = "commit" /\ Fault /\ Fails(c, "error")
  /\ UNCHANGED <<Catalogue, temp, objects>>

(* Both objects are deleted, each as far as storage lets it.               *)
Cleanup(c) ==
  /\ call[c].at = "cleanup"
  /\ \/ objects' = objects \ {Keys(c).zip, Keys(c).md} /\ UNCHANGED faults
     \/ Fault /\ objects' \in {objects, objects \ {Keys(c).zip}, objects \ {Keys(c).md}}
  /\ Goes(c, "ended")
  /\ UNCHANGED <<Catalogue, temp>>

(* The temporary archive is dropped in the background.                     *)
DropTemp(c) ==
  /\ call[c].at = "temp"
  /\ \/ temp' = temp \ {call[c].task} /\ UNCHANGED faults
     \/ Fault /\ UNCHANGED temp
  /\ Ends(c, "done")
  /\ UNCHANGED <<Catalogue, objects>>

-----------------------------------------------------------------------------
(* PUT without a parse task, and DELETE: the row is read for its owner,    *)
(* then written if it is still live.  A row that the update leaves as it   *)
(* is counts as not affected.                                              *)
Update(c, k, n) ==
  /\ call[c].at = "new"
  /\ IF row[k].live
       THEN call' = [call EXCEPT ![c] = [NoCall EXCEPT !.op = "edit", !.at = "edit", !.skill = k, !.name = n]]
       ELSE Ends(c, "not found")
  /\ UNCHANGED <<row, version, task, temp, objects, faults>>

UpdateWithTags(c) ==
  LET k == call[c].skill IN
  /\ call[c].at = "edit"
  /\ IF ~row[k].live \/ row[k].name = call[c].name THEN Ends(c, "not found") /\ UNCHANGED row
     ELSE IF NameTaken(k, call[c].name) THEN Ends(c, "name taken") /\ UNCHANGED row
     ELSE row' = [row EXCEPT ![k].name = call[c].name] /\ Ends(c, "done")
  /\ UNCHANGED <<version, task, temp, objects, faults>>

Delete(c, k) ==
  /\ call[c].at = "new"
  /\ IF row[k].live
       THEN call' = [call EXCEPT ![c] = [NoCall EXCEPT !.op = "delete", !.at = "delete", !.skill = k]]
       ELSE Ends(c, "not found")
  /\ UNCHANGED <<row, version, task, temp, objects, faults>>

DeleteRow(c) ==
  /\ call[c].at = "delete"
  /\ IF row[call[c].skill].live
       THEN row' = [row EXCEPT ![call[c].skill].live = FALSE] /\ Ends(c, "done")
       ELSE UNCHANGED row /\ Ends(c, "not found")
  /\ UNCHANGED <<version, task, temp, objects, faults>>

(* The process stops.                                                      *)
Stop(c) ==
  /\ call[c].at \notin {"new", "ended"} /\ Fault /\ Ends(c, "stopped")
  /\ UNCHANGED <<Catalogue, temp, objects>>

Next ==
  \E c \in Calls :
    \/ \E k \in Skills, t \in Tasks, n \in Names \cup {None} : Create(c, k, t, n) \/ Reupload(c, k, t, n)
    \/ \E k \in Skills, n \in Names : Update(c, k, n)
    \/ \E k \in Skills : Delete(c, k)
    \/ PutZip(c) \/ PutSkillMD(c)
    \/ CreateSkillAndConsumeTask(c) \/ UpdateSkillAndConsumeTask(c) \/ CommitFails(c)
    \/ Cleanup(c) \/ DropTemp(c)
    \/ UpdateWithTags(c) \/ DeleteRow(c)
    \/ Stop(c)

Spec == Init /\ [][Next]_vars

-----------------------------------------------------------------------------
(* Every version stays downloadable: no cleanup of a failed or losing      *)
(* upload, no dropped archive and no stop takes an object that a read of a *)
(* live skill resolves to, in any storage form (GetDownloadInfo, rowToItem *)
(* and GetSkillMD).                                                        *)
LiveIsDownloadable ==
  \A k \in Skills : row[k].live =>
    /\ rowToItem(k) \in objects
    /\ GetSkillMD(k) # None => GetSkillMD(k) \in objects
    /\ row[k].current # None => version[row[k].current].skill = k

(* A parse task is consumed exactly when one version was made from it, and *)
(* it never makes two: consumption and rows are one transaction.           *)
ConsumedIsOneVersion ==
  \A t \in Tasks :
    Cardinality({v \in Versions : version[v] # None /\ version[v].task = t})
      = IF task[t].status = "consumed" THEN 1 ELSE 0

(* Without failures nothing is left behind: the objects of a call that has *)
(* ended are those of a version.                                           *)
NothingLeftBehind ==
  faults = 0 =>
    \A c \in Calls : call[c].at = "ended" /\ call[c].skill # None /\ version[c] = None =>
      objects \cap {Keys(c).zip, Keys(c).md} = {}

(* A task that was neither consumed nor refused for its name keeps its     *)
(* archive, so the upload can be tried again after any other failure.      *)
RetryKeepsArchive ==
  \A t \in Tasks : task[t].status = "success" /\ t \notin temp =>
    \E c \in Calls : call[c].answer = "mismatch"

KeepsDeleted == \A k \in Skills : row[k] # NoRow /\ ~row[k].live => row'[k] = row[k]

(* Skills, parse tasks and objects stay in step through failing and racing *)
(* uploads (Create, Update, CreateSkillAndConsumeTask).                    *)
SkillsSound ==
  /\ LiveIsDownloadable
  /\ ConsumedIsOneVersion
  /\ NothingLeftBehind
  /\ RetryKeepsArchive

(* A deleted skill stays as it was deleted: an upload or an edit that had  *)
(* read it before changes nothing (is_deleted = 0 in every update).        *)
HistoryKept == [][KeepsDeleted]_vars
=============================================================================
