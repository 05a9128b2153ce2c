------------------------------ MODULE Servers -------------------------------
(* MCP servers (McpCatalog) and the probe of one (McpProbe) as parts of    *)
(* the market.                                                             *)
EXTENDS Part

CONSTANTS Mcps, McpNames, Official, Old, MaxIcons, MaxErrors,
          Safe, Unsafe, MaxHops, MaxEvents,
          Nothing

VARIABLES server, icons, request, errors,
          transport, allowPrivate, at, waits, origin, target, hops, stream, emitted,
          dialled, sent, caps, result

mcpVars   == <<server, icons, request, errors>>
probeVars == <<transport, allowPrivate, at, waits, origin, target, hops, stream, emitted,
               dialled, sent, caps, result>>

Mcp   == INSTANCE McpCatalog WITH Calls <- Callers, Ids <- Mcps, Names <- McpNames,
           MaxFaults <- MaxErrors, None <- Nothing, row <- server, call <- request,
           faults <- errors
Probe == INSTANCE McpProbe WITH None <- Nothing

McpStarts ==
  IF part = "mcp" THEN Mcp!Init
  ELSE server = Nothing /\ icons = Nothing /\ request = Nothing /\ errors = Nothing

ProbeStarts ==
  IF part = "probe" THEN Probe!Init
  ELSE /\ transport = Nothing /\ allowPrivate = Nothing /\ at = Nothing /\ waits = Nothing
       /\ origin = Nothing /\ target = Nothing /\ hops = Nothing /\ stream = Nothing
       /\ emitted = Nothing /\ dialled = Nothing /\ sent = Nothing /\ caps = Nothing
       /\ result = Nothing

McpPart == McpStarts /\ [][part = "mcp" /\ Mcp!Next /\ UNCHANGED part]_<<part, mcpVars>>
ProbePart == ProbeStarts /\ [][part = "probe" /\ Probe!Next /\ UNCHANGED part]_<<part, probeVars>>

-----------------------------------------------------------------------------
(* A stored server keeps to the rules it was checked for, whatever stale   *)
(* writes race (checkSystemDupes, applyPatch, UploadIcon).                 *)
ServersSound == part = "mcp" => Mcp!TypeOK /\ Mcp!ServersSound

(* A probe believes only the answer to its question and talks only to the  *)
(* host it was given (rpcSSE, newProbeHTTPClient).                         *)
ProbeSound == part = "probe" => Probe!TypeOK /\ Probe!ProbeSound
=============================================================================
