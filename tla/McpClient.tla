----------------------------- MODULE McpClient -----------------------------
(***************************************************************************)
(* One MCP client: StdioMcpClient or SseMcpClient (packages/agent-runtime/ *)
(* src/mcp/).  Requests wait in this.pending for an answer, a timeout, the *)
(* end of the server or a close, and the client connects again on the next *)
(* call.  A server is the number of its connection; it may still be there  *)
(* after the client has turned to the next one.                            *)
(***************************************************************************)
EXTENDS Integers

CONSTANTS MaxServers,    \* bound on the connections made
          MaxRequests    \* bound on the requests sent

ASSUME McpAssumption == MaxServers \in Nat /\ MaxRequests \in Nat

VARIABLES transport,   \* "stdio" or "sse"
          server,      \* this.process, or the connection of this.controller; 0 for none
          servers,     \* connections made
          live,        \* servers whose process or stream has not ended
          initialized, \* this.initialized
          connecting,  \* this.connecting: start() is under way
          stopping,    \* the server stop() waits for, 0 for none (this.closing)
          endpoint,    \* this.endpoint of the SSE client, as the server that gave it
          request,     \* state of every request sent
          owner        \* the server a request was sent to

mcpVars == <<transport, server, servers, live, initialized, connecting, stopping,
             endpoint, request, owner>>

Requests == 1..MaxRequests
Sent == {i \in Requests : request[i] # "unsent"}
Pending == {i \in Requests : request[i] = "pending"}
Waiting == {i \in Requests : request[i] \in {"pending", "stray"}}   \* this.pending

McpInit ==
    /\ transport \in {"stdio", "sse"}
    /\ server = 0 /\ servers = 0 /\ live = {}
    /\ initialized = FALSE /\ connecting = FALSE
    /\ stopping = 0 /\ endpoint = 0
    /\ request = [i \in Requests |-> "unsent"]
    /\ owner = [i \in Requests |-> 0]

-----------------------------------------------------------------------------
(* this.pending.  A stray request is one put there after a stop() has       *)
(* emptied it.                                                              *)

Send(s, how) ==
    \E i \in Requests \ Sent :
        /\ \A k \in Requests \ Sent : i <= k
        /\ request' = [request EXCEPT ![i] = how]
        /\ owner' = [owner EXCEPT ![i] = s]

FailPending == request' = [i \in Requests |-> IF i \in Waiting THEN "failed" ELSE request[i]]

Settle(i, how) == request' = [request EXCEPT ![i] = how]

(* stop(), unless one is under way already: close() then waits for that one *)
(* and leaves the server that is current by now alone.                      *)
Stop ==
    IF stopping # 0
    THEN UNCHANGED <<server, initialized, stopping, request>>
    ELSE /\ initialized' = FALSE
         /\ server' = 0
         /\ stopping' = IF server \in live THEN server ELSE 0
         /\ FailPending

-----------------------------------------------------------------------------
(* Connections.                                                             *)

(* connect() and start(): stdio spawns the server and asks it to initialize *)
(* at once; SSE opens the stream and waits for the endpoint event.          *)
Connect ==
    /\ ~initialized /\ ~connecting /\ servers < MaxServers
    /\ connecting' = TRUE
    /\ servers' = servers + 1
    /\ server' = servers + 1
    /\ live' = live \cup {servers + 1}
    /\ IF transport = "stdio" THEN Send(servers + 1, "pending") ELSE UNCHANGED <<request, owner>>
    /\ UNCHANGED <<transport, initialized, stopping, endpoint>>

(* A server that gives its endpoint again, after the end of an earlier stop *)
(* took it away, is not asked to initialize again.                          *)
EndpointEvent ==
    /\ transport = "sse" /\ server \in live /\ endpoint # server
    /\ endpoint' = server
    /\ IF connecting /\ \A i \in Requests : owner[i] # server
       THEN Send(server, "pending")
       ELSE UNCHANGED <<request, owner>>
    /\ UNCHANGED <<transport, server, servers, live, initialized, connecting, stopping>>

(* A server that has answered initialize.                                   *)
Greeted(s) == \E i \in Sent : owner[i] = s /\ request[i] = "answered"

(* start() ends: initialize has been answered and the server told so, or    *)
(* the client closes.  The endpoint may not have come in time, or be gone   *)
(* when the answer is to be confirmed.                                      *)
Initialized ==
    /\ connecting
    /\ Greeted(server)
    /\ transport = "sse" => endpoint # 0
    /\ connecting' = FALSE
    /\ initialized' = TRUE
    /\ UNCHANGED <<transport, server, servers, live, stopping, endpoint, request, owner>>

StartFails ==
    /\ connecting
    /\ \/ \E i \in Sent : owner[i] = servers /\ request[i] \in {"failed", "timed_out"}
       \/ /\ transport = "sse" /\ endpoint # server
          /\ \A i \in Pending : owner[i] # server
       \/ server = 0
    /\ connecting' = FALSE
    /\ Stop
    /\ UNCHANGED <<transport, servers, live, endpoint, owner>>

(* close(): the manager's, or after an oversized message.                   *)
CloseClient ==
    /\ server # 0
    /\ Stop
    /\ UNCHANGED <<transport, servers, live, connecting, endpoint, owner>>

(* The end of stop(): stdio gives the process a second to exit and kills    *)
(* it; SSE forgets the endpoint, whoever gave it.                           *)
StopEnds ==
    /\ stopping # 0
    /\ stopping' = 0
    /\ IF transport = "sse"
       THEN /\ endpoint' = 0
            /\ live' = live \ {stopping}
       ELSE UNCHANGED <<endpoint, live>>
    /\ UNCHANGED <<transport, server, servers, initialized, connecting, request, owner>>

(* Mutant: the exit of the server leaves its requests waiting.              *)
ServerExitsSilently(s) ==
    /\ transport = "stdio" /\ s \in live
    /\ live' = live \ {s}
    /\ server' = IF server = s THEN 0 ELSE server
    /\ initialized' = (initialized /\ server # s)
    /\ UNCHANGED <<transport, servers, connecting, stopping, endpoint, request, owner>>

(* The exit event of a process: whichever it is, all pending requests fail, *)
(* those sent to its successor included.                                    *)
ServerExits(s) ==
    /\ transport = "stdio" /\ s \in live
    /\ live' = live \ {s}
    /\ server' = IF server = s THEN 0 ELSE server
    /\ initialized' = (initialized /\ server # s)
    /\ FailPending
    /\ UNCHANGED <<transport, servers, connecting, stopping, endpoint, owner>>

(* disconnect(): the stream of the SSE server has ended or failed.          *)
StreamEnds(s) ==
    /\ transport = "sse" /\ s \in live
    /\ live' = live \ {s}
    /\ IF s = server
       THEN /\ initialized' = FALSE
            /\ endpoint' = 0
            /\ FailPending
       ELSE UNCHANGED <<initialized, endpoint, request>>
    /\ UNCHANGED <<transport, server, servers, connecting, stopping, owner>>

-----------------------------------------------------------------------------
(* Requests.                                                                *)

(* callTool and listTools of a connected client.                            *)
CallTool ==
    /\ initialized /\ server # 0
    /\ transport = "sse" => endpoint # 0
    /\ Send(server, "pending")
    /\ UNCHANGED <<transport, server, servers, live, initialized, connecting, stopping, endpoint>>

(* callTool and listTools await connect() before they send.  A close() that *)
(* begins in between has failed what was pending, but the SSE client keeps  *)
(* its endpoint until the stop ends: the call goes there, and no stop will  *)
(* fail it.                                                                 *)
CallSentLate ==
    /\ transport = "sse" /\ stopping # 0 /\ endpoint = stopping
    /\ Greeted(stopping)
    /\ Send(stopping, "stray")
    /\ UNCHANGED <<transport, server, servers, live, initialized, connecting, stopping, endpoint>>

(* An answer, or an error message of the server; late ones find no entry.   *)
(* A stray call can be answered in the response to its POST.                *)
Answer(i) ==
    /\ i \in Waiting /\ (owner[i] \in live \/ request[i] = "stray")
    /\ \E how \in {"answered", "failed"} : Settle(i, how)
    /\ UNCHANGED <<transport, server, servers, live, initialized, connecting, stopping,
                   endpoint, owner>>

(* The timer, a write to a broken pipe, a POST that is refused.             *)
RequestFails(i) ==
    /\ i \in Waiting
    /\ Settle(i, "timed_out")
    /\ UNCHANGED <<transport, server, servers, live, initialized, connecting, stopping,
                   endpoint, owner>>

McpNext ==
    \/ Connect \/ EndpointEvent \/ Initialized \/ StartFails \/ CloseClient \/ StopEnds
    \/ \E s \in 1..MaxServers : ServerExits(s) \/ StreamEnds(s)
    \/ CallTool \/ CallSentLate
    \/ \E i \in Requests : Answer(i) \/ RequestFails(i)

(* Every request and every start has its timer, a stop its second.          *)
McpFairness ==
    /\ \A i \in Requests : WF_mcpVars(RequestFails(i))
    /\ WF_mcpVars(Initialized) /\ WF_mcpVars(StartFails) /\ WF_mcpVars(StopEnds)

-----------------------------------------------------------------------------
(* No request waits on a server the client has already let go: an exit, a   *)
(* close and a broken stream settle what was under way, so that a new       *)
(* connection starts with nothing pending (stdio-mcp-client.ts 79-87,       *)
(* 129-144; sse-mcp-client.ts 117-131, 233-240).  A stray call is the       *)
(* exception: it waits for its own timer.                                   *)
NoOrphanRequest == \A i \in Pending : owner[i] = server

(* A request that has not settled, or a start that has not ended.           *)
RequestWaits == Waiting # {} \/ connecting

=============================================================================
