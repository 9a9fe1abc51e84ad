----------------------------- MODULE McpClient -----------------------------
(* MCPClient of packages/mcp/mcp_client.py and the adapter of              *)
(* mcp_tool_adapter.py: coroutines of one event loop share a client that   *)
(* talks to a tool server, a child process with a line pipe or an HTTP     *)
(* service.  The id of a response is never compared with the id of its     *)
(* request, and _mark_disconnected, a coroutine function called without    *)
(* await (143, 147), does nothing: a call that times out leaves its answer *)
(* in the pipe, and no reconnection ever begins.                           *)
EXTENDS Naturals, Sequences, FiniteSets, Functions

CONSTANTS Caller, Connector, Url, NoUrl, MaxProcesses, MaxRequests

Coroutine == Caller \union Connector
Process == 1 .. MaxProcesses
Request == 1 .. MaxRequests

VARIABLES
  process,     \* self._process: 0 is None
  child,       \* the child processes: running, ended or reaped, and the pipe
  base,        \* self._http_base_url
  client,      \* the base_url of self._http_client
  connected,   \* self._connected
  requests,    \* self._request_id
  tools,       \* the request whose answer filled self._tools: 0 is none
  coroutine,   \* what each coroutine does, and the answer it got
  leaving,     \* where disconnect is
  shifted,     \* processes on whose pipe an answer may meet the wrong reader
  overlapped,  \* a connect or disconnect began before another had ended
  moved        \* an HTTP client was open when another URL was connected

vars == <<process, child, base, client, connected, requests, tools, coroutine,
          leaving, shifted, overlapped, moved>>

Idle == [op |-> "none", pc |-> "idle", id |-> 0, on |-> 0, stage |-> "call",
         answer |-> 0, from |-> NoUrl, url |-> NoUrl]

Init ==
  /\ process = 0
  /\ child = [p \in Process |-> [up |-> "none", asked |-> <<>>, answers |-> <<>>]]
  /\ base = NoUrl /\ client = NoUrl
  /\ connected = FALSE
  /\ requests = 0
  /\ tools = 0
  /\ coroutine = [c \in Coroutine |-> Idle]
  /\ leaving = "no"
  /\ shifted = {}
  /\ overlapped = FALSE
  /\ moved = FALSE

Connecting(c) == coroutine[c].op \in {"stdio", "http"}
                 /\ coroutine[c].pc \notin {"idle", "done"}

\* A connect or disconnect is under way.
Changing == leaving \in {"process", "http"} \/ \E c \in Coroutine : Connecting(c)

-----------------------------------------------------------------------------
(* How a request ends.                                                     *)

\* Process.kill: a child that is already reaped raises ProcessLookupError.
Killed(p) == [child EXCEPT ![p].up = IF @ = "up" THEN "ended" ELSE @]

Writes(c) == coroutine[c].pc \in {"drain", "reading"}

\* An exception in a request.  A connect that fails kills whatever process
\* the client has by then (74-80), and forgets it unless the kill raises.
Fail(c) ==
  /\ coroutine' = [coroutine EXCEPT ![c] = Idle]
  /\ shifted' = IF Writes(c) THEN shifted \union {coroutine[c].on} ELSE shifted
  /\ CASE coroutine[c].op = "stdio" /\ process # 0 ->
            /\ child' = Killed(process)
            /\ process' = IF child[process].up = "reaped" THEN process ELSE 0
            /\ connected' = FALSE
            /\ UNCHANGED base
       [] coroutine[c].op = "http" ->
            /\ base' = NoUrl
            /\ connected' = FALSE
            /\ UNCHANGED <<process, child>>
       [] coroutine[c].op = "stdio" /\ process = 0 ->
            /\ connected' = FALSE
            /\ UNCHANGED <<process, child, base>>
       [] OTHER -> UNCHANGED <<process, child, base, connected>>
  /\ UNCHANGED <<client, requests, tools, leaving, overlapped, moved>>

\* A response is read: a handshake goes on with tools/list, whose answer is
\* stored; a connect then counts as made.
Answered(c, answer, from, pipes) ==
  LET done == coroutine[c].stage # "initialize"
  IN /\ coroutine' =
          [coroutine EXCEPT ![c] =
             [@ EXCEPT !.pc = IF done THEN "done" ELSE "send",
                       !.stage = IF done THEN @ ELSE "tools",
                       !.answer = answer, !.from = from]]
     /\ child' = pipes
     /\ tools' = IF coroutine[c].stage = "tools" THEN answer ELSE tools
     /\ connected' = (connected \/ coroutine[c].stage = "tools")
     /\ UNCHANGED <<process, base, client, requests, leaving, shifted, overlapped,
                    moved>>

Takes(c, p) ==
  Answered(c, Head(child[p].answers), NoUrl,
           [child EXCEPT ![p].answers = Tail(@)])

-----------------------------------------------------------------------------
(* The operations.                                                         *)

\* call_tool, which does not look at connected.
Call(c) ==
  /\ coroutine[c].pc \in {"idle", "done"}
  /\ coroutine' = [coroutine EXCEPT ![c] =
                     [Idle EXCEPT !.op = "call", !.pc = "send"]]
  /\ UNCHANGED <<process, child, base, client, connected, requests, tools,
                 leaving, shifted, overlapped, moved>>

\* connect_stdio: the new process takes the place of one that may be there.
ConnectStdio(c) ==
  /\ coroutine[c].pc \in {"idle", "done"}
  /\ \E p \in Process :
       /\ child[p].up = "none" /\ \A q \in 1 .. p - 1 : child[q].up # "none"
       /\ process' = p
       /\ child' = [child EXCEPT ![p].up = "up"]
  /\ coroutine' = [coroutine EXCEPT ![c] =
                     [Idle EXCEPT !.op = "stdio", !.pc = "send",
                                  !.stage = "initialize"]]
  /\ overlapped' = (overlapped \/ process # 0 \/ Changing)
  /\ UNCHANGED <<base, client, connected, requests, tools, leaving, shifted, moved>>

\* connect_http.
ConnectHttp(c, u) ==
  /\ coroutine[c].pc \in {"idle", "done"}
  /\ base' = u
  /\ coroutine' = [coroutine EXCEPT ![c] =
                     [Idle EXCEPT !.op = "http", !.pc = "send",
                                  !.stage = "initialize", !.url = u]]
  /\ overlapped' = (overlapped \/ Changing)
  /\ moved' = (moved \/ client \notin {NoUrl, u})
  /\ UNCHANGED <<process, child, client, connected, requests, tools, leaving,
                 shifted>>

\* _send_request up to the write: a process comes before a URL.
Send(c) ==
  /\ coroutine[c].pc = "send"
  /\ requests < MaxRequests
  /\ \/ /\ process # 0 /\ child[process].up = "up"
        /\ requests' = requests + 1
        /\ coroutine' = [coroutine EXCEPT
                            ![c] = [@ EXCEPT !.pc = "drain", !.on = process,
                                             !.id = requests + 1]]
        /\ shifted' = IF \E d \in Coroutine \ {c} : Writes(d)
                        THEN shifted \union {process} ELSE shifted
        /\ child' = [child EXCEPT ![process].asked = Append(@, requests + 1)]
        /\ UNCHANGED <<process, base, client, connected, tools, leaving,
                       overlapped, moved>>
     \/ /\ process = 0 /\ base # NoUrl
        /\ requests' = requests + 1
        /\ client' = IF client = NoUrl THEN base ELSE client
        /\ coroutine' = [coroutine EXCEPT ![c].pc = "post", ![c].id = requests + 1]
        /\ UNCHANGED <<process, child, base, connected, tools, leaving, shifted,
                       overlapped, moved>>
     \/ /\ IF process # 0 THEN child[process].up # "up" ELSE base = NoUrl
        /\ Fail(c)

\* readline on the process the client has after the drain: a line that is
\* there, an end of file, an error when another coroutine waits, or a wait.
ReadLine(c) ==
  /\ coroutine[c].pc = "drain" /\ process \in {0, coroutine[c].on}
  /\ \/ process = 0 /\ Fail(c)
     \/ /\ process # 0 /\ child[process].answers # <<>>
        /\ Takes(c, process)
     \/ /\ process # 0 /\ child[process].answers = <<>>
        /\ \/ child[process].up # "up"
           \/ \E d \in Coroutine \ {c} :
                coroutine[d].pc = "reading" /\ coroutine[d].on = process
        /\ Fail(c)
     \/ /\ process # 0 /\ child[process].answers = <<>>
        /\ child[process].up = "up"
        /\ \A d \in Coroutine \ {c} :
             coroutine[d].pc # "reading" \/ coroutine[d].on # process
        /\ coroutine' = [coroutine EXCEPT ![c].pc = "reading"]
        /\ UNCHANGED <<process, child, base, client, connected, requests, tools,
                       leaving, shifted, overlapped, moved>>

\* The process was replaced during the drain: the line is read from the pipe
\* of the new one.
Rebind(c) ==
  /\ coroutine[c].pc = "drain" /\ process \notin {0, coroutine[c].on}
  /\ coroutine' = [coroutine EXCEPT ![c].on = process]
  /\ shifted' = shifted \union {process}
  /\ UNCHANGED <<process, child, base, client, connected, requests, tools,
                 leaving, overlapped, moved>>

\* The reader is woken by a line or by the end of file.
Wake(c) ==
  /\ coroutine[c].pc = "reading"
  /\ LET p == coroutine[c].on
     IN \/ child[p].answers # <<>> /\ Takes(c, p)
        \/ child[p].answers = <<>> /\ child[p].up # "up" /\ Fail(c)

\* The 30 seconds are over, or the coroutine is cancelled by the timeout of
\* the tool: nothing is marked, and the answer may still come.
GiveUp(c) == coroutine[c].pc = "reading" /\ Fail(c)

\* _send_http: the pooled client keeps the URL it was made for.
Post(c) ==
  /\ coroutine[c].pc = "post"
  /\ \/ client # NoUrl /\ Answered(c, coroutine[c].id, client, child)
     \/ Fail(c)

\* disconnect: terminate and wait, unless the process is reaped, when both
\* terminate and the kill after it raise; forget the process; close the HTTP
\* client; forget the rest.  It is called once, at the shutdown.
Disconnect ==
  /\ leaving = "no"
  /\ leaving' = IF process = 0 THEN "http"
                ELSE IF child[process].up = "reaped" THEN "left" ELSE "process"
  /\ child' = IF process = 0 THEN child ELSE Killed(process)
  /\ overlapped' = (overlapped \/ Changing)
  /\ UNCHANGED <<process, base, client, connected, requests, tools, coroutine,
                 shifted, moved>>

Forgets ==
  /\ leaving' = "left"
  /\ client' = NoUrl /\ base' = NoUrl
  /\ connected' = FALSE
  /\ tools' = 0

Forget ==
  /\ leaving = "process"
  /\ process' = 0
  /\ \/ client = NoUrl /\ Forgets
     \/ /\ client # NoUrl
        /\ leaving' = "http"
        /\ UNCHANGED <<base, client, connected, tools>>
  /\ UNCHANGED <<child, requests, coroutine, shifted, overlapped, moved>>

CloseHttp ==
  /\ leaving = "http" /\ Forgets
  /\ UNCHANGED <<process, child, requests, coroutine, shifted, overlapped, moved>>

(* The server: it answers in order, may end by itself, and is reaped by    *)
(* the event loop some time after.                                         *)
Answer(p) ==
  /\ child[p].up = "up" /\ child[p].asked # <<>>
  /\ child' = [child EXCEPT ![p] =
                 [@ EXCEPT !.asked = Tail(@), !.answers =
                    Append(@, Head(child[p].asked))]]
  /\ UNCHANGED <<process, base, client, connected, requests, tools, coroutine,
                 leaving, shifted, overlapped, moved>>

Exit(p) ==
  /\ child[p].up = "up"
  /\ child' = [child EXCEPT ![p].up = "ended"]
  /\ UNCHANGED <<process, base, client, connected, requests, tools, coroutine,
                 leaving, shifted, overlapped, moved>>

Reap(p) ==
  /\ child[p].up = "ended"
  /\ child' = [child EXCEPT ![p].up = "reaped"]
  /\ UNCHANGED <<process, base, client, connected, requests, tools, coroutine,
                 leaving, shifted, overlapped, moved>>

Next ==
  \/ \E c \in Caller : Call(c)
  \/ \E c \in Connector : ConnectStdio(c) \/ \E u \in Url : ConnectHttp(c, u)
  \/ \E c \in Coroutine :
       Send(c) \/ ReadLine(c) \/ Rebind(c)
         \/ Wake(c) \/ GiveUp(c) \/ Post(c)
  \/ Disconnect \/ Forget \/ CloseHttp
  \/ \E p \in Process : Answer(p) \/ Exit(p) \/ Reap(p)

Spec == Init /\ [][Next]_vars

-----------------------------------------------------------------------------
(* Properties                                                              *)

TypeOK ==
  /\ process \in 0 .. MaxProcesses
  /\ \A p \in Process :
       /\ child[p].up \in {"none", "up", "ended", "reaped"}
       /\ child[p].asked \in Seq(Request) /\ child[p].answers \in Seq(Request)
  /\ base \in Url \union {NoUrl} /\ client \in Url \union {NoUrl}
  /\ connected \in BOOLEAN /\ overlapped \in BOOLEAN /\ moved \in BOOLEAN
  /\ requests \in 0 .. MaxRequests /\ tools \in 0 .. MaxRequests
  /\ shifted \subseteq Process
  /\ leaving \in {"no", "process", "http", "left"}
  /\ \A c \in Coroutine :
       /\ coroutine[c].op \in {"none", "call", "stdio", "http"}
       /\ coroutine[c].pc \in
            {"idle", "send", "drain", "reading", "post", "done"}

\* A call or connect that has just been answered.
Served(c) == coroutine[c].pc = "done"

(* A coroutine gets the answer to its own request from a process on whose *)
(* pipe no request was given up and no two were under way together: as     *)
(* _send_stdio compares no ids, one call that times out, or finds another  *)
(* reader, shifts the answers of all later ones.                           *)
AnswersMatch ==
  \A c \in Coroutine :
    Served(c) /\ coroutine[c].on \notin shifted =>
      coroutine[c].answer = coroutine[c].id

(* An HTTP answer comes from the server that was connected last, unless a  *)
(* client for another URL was open then (connect_http does not close it).  *)
AnswersFromServer ==
  \A c \in Coroutine :
    Served(c) /\ coroutine[c].op = "http" /\ coroutine[c].from # NoUrl
      /\ ~moved /\ ~overlapped => coroutine[c].from = coroutine[c].url

(* No server process runs that the client has forgotten, as long as no     *)
(* connect begins while a process is there and no two of connect and       *)
(* disconnect overlap (connect_stdio, disconnect).                         *)
NoOrphans ==
  ~overlapped => \A p \in Process : child[p].up = "up" => p = process

(* A client that is connected has a server to send to (_send_request),     *)
(* though the server may have ended without the client's notice.           *)
ConnectedHasServer ==
  connected /\ leaving # "http" /\ ~overlapped => process # 0 \/ base # NoUrl
=============================================================================
