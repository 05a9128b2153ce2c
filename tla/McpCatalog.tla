----------------------------- MODULE McpCatalog -----------------------------
(***************************************************************************)
(* The MCP server catalog of one owner in one Space, beside the official   *)
(* (system) servers, which this service only reads.  Create inserts a row; *)
(* PATCH and the icon upload load the row, work, and replace every column  *)
(* of it if it is still live.  Rows from before the official-name check    *)
(* and the connection rules may break them.                                *)
(***************************************************************************)
EXTENDS Naturals, FiniteSets

CONSTANTS Ids, Calls, Names,
          Official,    \* the names and slugs that system rows hold
          Old,         \* rows that exist before these rules
          MaxIcons,    \* bound on icon versions
          MaxFaults,   \* bound on object-store failures
          None

VARIABLES row, icons,   \* stored icons, as <<id, version>>
          call, faults

vars == <<row, icons, call, faults>>

Urls == {"none", "safe", "unsafe"}
Transports == {"stdio", "http"}
NoRow == [state |-> "absent", name |-> None, slug |-> None, transport |-> "stdio", url |-> "none",
          cmd |-> FALSE, icon |-> 0, version |-> 0]
NewCall == [at |-> "new", id |-> None, base |-> NoRow, new |-> NoRow]

TypeOK ==
  /\ icons \subseteq Ids \X (1..MaxIcons) /\ faults \in 0..MaxFaults
  /\ \A id \in Ids : row[id].state \in {"absent", "live", "deleted"} /\ row[id].version \in 0..MaxIcons
  /\ \A c \in Calls : call[c].at \in {"new", "put", "write", "ended"}

(* An old row: an official name, and a connection that cannot be used.     *)
OldRow(n) == [NoRow EXCEPT !.state = "live", !.name = n, !.slug = n, !.transport = "http"]
Init ==
  /\ row \in {[id \in Ids |-> IF id \in Old THEN OldRow(n) ELSE NoRow] : n \in Official}
  /\ icons = {} /\ call = [c \in Calls |-> NewCall] /\ faults = 0

-----------------------------------------------------------------------------
(* stdio needs a command, a remote transport a URL that is safe.           *)
validateTransportFields(t, url, cmd) == IF t = "stdio" THEN cmd ELSE url # "none"
validateConnectionURL(t, url) == t # "stdio" => url = "safe"
Usable(r) == validateTransportFields(r.transport, r.url, r.cmd) /\ validateConnectionURL(r.transport, r.url)

checkSystemName(n) == n \notin Official
checkSystemSlug(s) == s \notin Official

(* The unique indexes: the owner's live names, the Space's live slugs.     *)
Free(id, r) ==
  \A jd \in Ids \ {id} : row[jd].state = "live" => row[jd].name # r.name /\ row[jd].slug # r.slug

Create(id, n, s, t, url, cmd) ==
  LET r == [NoRow EXCEPT !.state = "live", !.name = n, !.slug = s, !.transport = t, !.url = url, !.cmd = cmd] IN
  /\ row[id] = NoRow
  /\ Usable(r) /\ checkSystemName(n) /\ checkSystemSlug(s)
  /\ Free(id, r) /\ row' = [row EXCEPT ![id] = r]
  /\ UNCHANGED <<icons, call, faults>>

(* applyPatch: the merged record, or None if it is refused.  The           *)
(* connection is checked as a whole, and only if the patch touches it.     *)
applyPatch(old, p) ==
  LET m == [old EXCEPT !.name = p.name, !.slug = p.slug, !.transport = p.transport,
                       !.url = p.url, !.cmd = p.cmd]
      touched == <<p.transport, p.url, p.cmd>> # <<old.transport, old.url, old.cmd>> IN
  IF touched => Usable(m) THEN m ELSE None

Loads(c, id, at, m) ==
  call' = [call EXCEPT ![c] = [at |-> at, id |-> id, base |-> row[id], new |-> m]]

(* The row is loaded and the patch applied; a name or a slug that changed  *)
(* is checked, one that was official before is not.                        *)
Patch(c, id, p) ==
  LET m == applyPatch(row[id], p) IN
  /\ call[c].at = "new" /\ row[id].state = "live" /\ m # None
  /\ p.name # row[id].name => checkSystemName(p.name)
  /\ p.slug # row[id].slug => checkSystemSlug(p.slug)
  /\ Loads(c, id, "write", m) /\ UNCHANGED <<row, icons, faults>>

(* The next version is the key of the object.                              *)
UploadIcon(c, id) ==
  LET v == row[id].version + 1 IN
  /\ call[c].at = "new" /\ row[id].state = "live" /\ v <= MaxIcons
  /\ Loads(c, id, "put", [row[id] EXCEPT !.icon = v, !.version = v])
  /\ UNCHANGED <<row, icons, faults>>

PutIcon(c) ==
  /\ call[c].at = "put"
  /\ \/ /\ icons' = icons \cup {<<call[c].id, call[c].new.version>>}
        /\ call' = [call EXCEPT ![c].at = "write"] /\ UNCHANGED faults
     \/ /\ faults < MaxFaults /\ faults' = faults + 1
        /\ call' = [call EXCEPT ![c] = [NewCall EXCEPT !.at = "ended"]] /\ UNCHANGED icons
  /\ UNCHANGED row

(* Mutant: only the columns that changed are written.                      *)
UpdateColumns(c) ==
  LET k == call[c] r == row[call[c].id] IN
  /\ k.at = "write" /\ call' = [call EXCEPT ![c] = [NewCall EXCEPT !.at = "ended"]]
  /\ IF r.state # "live" \/ ~Free(k.id, k.new) THEN UNCHANGED row
     ELSE row' = [row EXCEPT ![k.id] =
            [f \in DOMAIN r |-> IF k.new[f] # k.base[f] THEN k.new[f] ELSE r[f]]]
  /\ UNCHANGED <<icons, faults>>

(* Every mutable column of a live row.                                     *)
Update(c) ==
  LET k == call[c] IN
  /\ k.at = "write" /\ call' = [call EXCEPT ![c] = [NewCall EXCEPT !.at = "ended"]]
  /\ IF row[k.id].state = "live" /\ Free(k.id, k.new)
       THEN row' = [row EXCEPT ![k.id] = k.new] ELSE UNCHANGED row
  /\ UNCHANGED <<icons, faults>>

Delete(id) ==
  /\ row[id].state = "live" /\ row' = [row EXCEPT ![id].state = "deleted"]
  /\ UNCHANGED <<icons, call, faults>>

Patches ==
  [name : Names, slug : Names, transport : Transports, url : Urls, cmd : BOOLEAN]

Next ==
  \/ \E id \in Ids, n, s \in Names, t \in Transports, url \in Urls, cmd \in BOOLEAN :
       Create(id, n, s, t, url, cmd)
  \/ \E c \in Calls, id \in Ids : \/ \E p \in Patches : Patch(c, id, p)
                                  \/ UploadIcon(c, id)
  \/ \E c \in Calls : PutIcon(c) \/ Update(c)
  \/ \E id \in Ids : Delete(id)

Spec == Init /\ [][Next]_vars

-----------------------------------------------------------------------------
(* Nobody takes an official name or slug: a row that shares one had it     *)
(* before the check existed, through every rename and every stale write.   *)
ShadowsAreOld ==
  \A id \in Ids \ Old : row[id].name \notin Official /\ row[id].slug \notin Official

(* A row that was created under the rules always has a connection its      *)
(* transport can use, also when patches of the transport and of the URL    *)
(* race: each was checked as a whole and is written as a whole.            *)
ConnectionUsable == \A id \in Ids \ Old : row[id].state = "live" => Usable(row[id])

(* The icon a row shows is stored, whichever uploads and patches raced or  *)
(* failed.                                                                 *)
IconServed == \A id \in Ids : row[id].icon # 0 => <<id, row[id].icon>> \in icons

(* A stored server keeps to the rules it was checked for, whatever stale   *)
(* writes race (checkSystemDupes, applyPatch, UploadIcon).                 *)
ServersSound ==
  /\ ShadowsAreOld
  /\ ConnectionUsable
  /\ IconServed
=============================================================================
