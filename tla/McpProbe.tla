------------------------------ MODULE McpProbe ------------------------------
(***************************************************************************)
(* One probe of a remote MCP server: the initialize and tools/list         *)
(* handshake over either transport.  Every connection is dialled to        *)
(* addresses that were resolved and checked for it, every redirect and the *)
(* SSE message endpoint stay on the origin of the URL, and a reply is      *)
(* matched to its request.  The server, the resolver and the stream are    *)
(* the environment: names resolve differently each time, replies are       *)
(* repeated, delayed and mixed with notifications, or never come.          *)
(***************************************************************************)
EXTENDS Naturals, Sequences, FiniteSets

CONSTANTS Safe, Unsafe,   \* addresses
          MaxHops,        \* bound on redirects (10 in the code)
          MaxEvents,      \* bound on what the server puts on a stream
          None

VARIABLES transport, allowPrivate,
          at,        \* the step: open, endpoint, init, notify, list, ended
          waits,     \* the request is sent and its answer awaited
          origin,    \* where the request in hand goes
          target,    \* where JSON-RPC messages are posted
          hops, stream,
          emitted,   \* how much the server has put on streams
          dialled,   \* addresses connected to
          sent,      \* origins that received the caller's headers
          caps,      \* the tools capability of the initialize result
          result

vars == <<transport, allowPrivate, at, waits, origin, target, hops, stream, emitted,
          dialled, sent, caps, result>>

(* The origin of the URL, the same with its default port written out, and  *)
(* another one.                                                            *)
Origins == {"home", "home:443", "other"}
Canonical(o) == IF o = "other" THEN "other" ELSE "home"

(* Replies repeat their request's id: 1 for initialize, 2 for tools/list.  *)
Reply(id, body) == [kind |-> "reply", id |-> id, body |-> body]
Replies == {Reply(1, "caps"), Reply(1, "nocaps"), Reply(1, "error"), Reply(2, "tools"), Reply(2, "error")}
Others == {[kind |-> "note", id |-> None, body |-> None], [kind |-> "junk", id |-> None, body |-> None]}
Endpoints == {[kind |-> "endpoint", id |-> None, body |-> o] : o \in Origins}
Events == Replies \cup Others \cup Endpoints

TypeOK ==
  /\ at \in {"open", "endpoint", "init", "notify", "list", "ended"} /\ waits \in BOOLEAN
  /\ {origin, target} \subseteq Origins \cup {None} /\ hops \in 0..MaxHops
  /\ stream \in Seq(Events) /\ emitted \in 0..MaxEvents /\ dialled \subseteq Safe \cup Unsafe
  /\ sent \subseteq Origins /\ caps \in BOOLEAN

Init ==
  /\ transport \in {"sse", "http"} /\ allowPrivate \in BOOLEAN
  /\ at = (IF transport = "sse" THEN "open" ELSE "init")
  /\ waits = FALSE /\ origin = None /\ hops = 0 /\ stream = <<>> /\ emitted = 0
  /\ target = (IF transport = "sse" THEN None ELSE "home")
  /\ dialled = {} /\ sent = {} /\ caps = FALSE /\ result = None

Fixed == <<transport, allowPrivate>>
Ends(r) == at' = "ended" /\ waits' = FALSE /\ origin' = None /\ result' = r
Goes(step) == at' = step /\ waits' = FALSE /\ origin' = None /\ hops' = 0

-----------------------------------------------------------------------------
(* Send the step's request with the caller's headers.                      *)
Request ==
  /\ at \in {"open", "init", "notify", "list"} /\ ~waits /\ origin = None
  /\ origin' = (IF at = "open" THEN "home" ELSE target)
  /\ UNCHANGED <<Fixed, at, waits, target, hops, stream, emitted, dialled, sent, caps, result>>

(* A transport error: fatal, except for the notification, whose outcome is *)
(* ignored.                                                                *)
Broken ==
  IF at = "notify" THEN Goes("list") /\ UNCHANGED result ELSE Ends("failed") /\ UNCHANGED hops

(* A dial resolves the name and refuses the whole answer if one address is *)
(* unsafe.                                                                 *)
AllSafe(ips) == ips # {} /\ (allowPrivate \/ ips \cap Unsafe = {})

Dial(ips, ip) ==
  /\ origin # None /\ ~waits
  /\ IF AllSafe(ips)
       THEN /\ ip \in ips /\ dialled' = dialled \cup {ip}
            /\ sent' = sent \cup {origin} /\ waits' = TRUE
            /\ UNCHANGED <<at, origin, hops, result>>
       ELSE Broken /\ UNCHANGED <<dialled, sent>>
  /\ UNCHANGED <<Fixed, target, stream, emitted, caps>>

(* Mutant: a redirect is followed wherever it leads.                       *)
AnyRedirect(o) ==
  /\ origin # None /\ waits /\ hops < MaxHops
  /\ origin' = o /\ hops' = hops + 1 /\ waits' = FALSE
  /\ UNCHANGED <<Fixed, at, target, stream, emitted, dialled, sent, caps, result>>

(* A redirect: to the same spelling of the origin, or the request fails.   *)
CheckRedirect(o) ==
  /\ origin # None /\ waits
  /\ IF hops < MaxHops /\ o = origin
       THEN /\ origin' = o /\ hops' = hops + 1 /\ waits' = FALSE
            /\ UNCHANGED <<at, result>>
       ELSE Broken
  /\ UNCHANGED <<Fixed, target, stream, emitted, dialled, sent, caps>>

(* The server puts an event on the stream, whatever was asked.             *)
Emit(e) ==
  /\ transport = "sse" /\ at \notin {"open", "ended"} /\ emitted < MaxEvents
  /\ stream' = Append(stream, e) /\ emitted' = emitted + 1
  /\ UNCHANGED <<Fixed, at, waits, origin, target, hops, dialled, sent, caps, result>>

(* 2xx for the stream, or for a message that is only delivered.            *)
Accepted ==
  /\ origin # None /\ waits /\ (at \in {"open", "notify"} \/ transport = "sse")
  /\ \/ /\ at = "open" /\ Goes("endpoint") /\ UNCHANGED result
     \/ /\ at = "notify" /\ Goes("list") /\ UNCHANGED result
     \/ /\ at \in {"init", "list"} /\ origin' = None /\ UNCHANGED <<at, waits, hops, result>>
  /\ UNCHANGED <<Fixed, target, stream, emitted, dialled, sent, caps>>

(* Another status, a reset, the end of the stream or of the 15 seconds.    *)
Fails ==
  /\ at # "ended"
  /\ Broken
  /\ UNCHANGED <<Fixed, target, stream, emitted, dialled, sent, caps>>

sameEndpointOrigin(o) == Canonical(o) = Canonical("home")

(* The first endpoint event; others are skipped.                           *)
ReadEndpoint ==
  /\ at = "endpoint" /\ stream # <<>> /\ stream' = Tail(stream)
  /\ LET e == Head(stream) IN
       \/ e.kind # "endpoint" /\ UNCHANGED <<at, waits, origin, target, hops, result>>
       \/ /\ e.kind = "endpoint" /\ sameEndpointOrigin(e.body)
          /\ target' = e.body /\ Goes("init") /\ UNCHANGED result
       \/ /\ e.kind = "endpoint" /\ ~sameEndpointOrigin(e.body)
          /\ Ends("failed") /\ UNCHANGED <<target, hops>>
  /\ UNCHANGED <<Fixed, emitted, dialled, sent, caps>>

Matches(e, id) == e.kind = "reply" /\ e.id = id

(* What an answer does: an initialize result with the capability leads to  *)
(* the notification and the list; the list ends the probe.                 *)
Take(e) ==
  IF e.body = "error" THEN Ends("failed") /\ UNCHANGED <<hops, caps>>
  ELSE IF at = "init"
    THEN IF e.body = "nocaps" THEN Ends("no_tools_capability") /\ UNCHANGED <<hops, caps>>
         ELSE Goes("notify") /\ caps' = (e.body = "caps") /\ UNCHANGED result
  ELSE Ends(e.body) /\ UNCHANGED <<hops, caps>>

(* Events are read until one matches the id.                               *)
ReadReply ==
  /\ at \in {"init", "list"} /\ waits /\ origin = None /\ stream # <<>> /\ stream' = Tail(stream)
  /\ IF Matches(Head(stream), IF at = "init" THEN 1 ELSE 2)
       THEN Take(Head(stream)) ELSE UNCHANGED <<at, waits, origin, hops, caps, result>>
  /\ UNCHANGED <<Fixed, target, emitted, dialled, sent>>

(* Streamable HTTP: the answer is the body of this response, or an event   *)
(* of its stream.                                                          *)
Respond(e) ==
  /\ transport = "http" /\ at \in {"init", "list"} /\ waits /\ origin # None
  /\ e.id = IF at = "init" THEN 1 ELSE 2
  /\ Take(e)
  /\ UNCHANGED <<Fixed, target, stream, emitted, dialled, sent>>

Next ==
  \/ Request \/ Accepted \/ Fails \/ ReadEndpoint \/ ReadReply
  \/ \E ips \in SUBSET (Safe \cup Unsafe) : \E ip \in Safe \cup Unsafe : Dial(ips, ip)
  \/ \E o \in Origins : CheckRedirect(o)
  \/ \E e \in Events : Emit(e)
  \/ \E e \in Replies : Respond(e)

Spec == Init /\ [][Next]_vars

-----------------------------------------------------------------------------
(* Tools come from the answer to tools/list of a server that announced     *)
(* them, however its replies were repeated, delayed or mixed.              *)
ToolsAreTheAnswer == (result = "tools" => caps) /\ result \notin {"caps", "nocaps"}

(* The caller's headers never leave the origin of the URL they were given  *)
(* for: not by a redirect, and not by the endpoint the server names.       *)
HeadersStayHome == \A o \in sent : Canonical(o) = "home"

(* No connection goes to an unsafe address, however often and however      *)
(* differently the name resolves during the probe.                         *)
DialsAreChecked == allowPrivate \/ dialled \subseteq Safe

(* A probe believes only the answer to its question and talks only to the  *)
(* host it was given (rpcSSE, newProbeHTTPClient).                         *)
ProbeSound ==
  /\ ToolsAreTheAnswer
  /\ HeadersStayHome
  /\ DialsAreChecked
=============================================================================
