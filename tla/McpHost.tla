------------------------------- MODULE McpHost -------------------------------
(***************************************************************************)
(* McpExtensionHost and its stdio clients, for one configured server.      *)
(* Lifecycle operations take the lifecycle lock of the server; tool calls  *)
(* and cache refreshes do not, and keep a client another task may be       *)
(* shutting down. A client numbers its requests, a reader task matches the *)
(* answers, and a list_changed notification only raises a generation that  *)
(* the next use of the cache compares.                                     *)
(***************************************************************************)
EXTENDS Naturals, Sequences, FiniteSets

CONSTANTS
  Procs,        \* tasks of the OpenTopia server that use the host
  MaxClients,   \* bound: processes spawned
  MaxOps,       \* bound: operations begun
  MaxChanges,   \* bound: changes of the server's tools
  MaxFaults     \* bound: edits of the configuration, garbled lines and exits

None == [none |-> TRUE]

ASSUME McpAssumption ==
  /\ None \notin Procs
  /\ MaxClients \in Nat /\ MaxOps \in Nat /\ MaxChanges \in Nat /\ MaxFaults \in Nat

VARIABLES
  row,             \* the mcp_servers row: the configuration, or None
  durable,         \* McpToolCatalogStore: the durable mirror of the tools
  lifecycle_lock,
  runtime,         \* inner.servers: McpServerRuntime, or None
  tool_routes,     \* the tools the routing table lists for the server
  persisted_tools,
  status,          \* McpLifecycleStatus
  client,          \* the McpStdioClients spawned so far, in order
  stdout,          \* lines each process wrote and its reader has not read
  asked,           \* requests each process has and has not answered
  catalog,         \* version of the tools the server program offers
  op,              \* what each task is doing
  begun, faults

store == <<row, durable>>
inner == <<runtime, tool_routes, persisted_tools, status>>
processes == <<client, stdout, asked>>
bounds == <<begun, faults>>
vars == <<store, lifecycle_lock, inner, processes, catalog, op, bounds>>

Configs == [updated_at : 0..MaxFaults, enabled : BOOLEAN]
Clients == 1..Len(client)

(* Tools as tools/list answered them: which process said it and the version. *)
Tools == [client : 1..MaxClients, version : 0..MaxChanges]

LifecycleOps == {"ensure", "restart", "stop", "forget"}
LockedSteps ==
  {"take", "kill", "drain", "announce", "spawn", "send", "wait", "install", "error", "forget"}

(* The answer a task waits for.                                              *)
NoReply == [is |-> "none"]
ErrorReply == [is |-> "error"]

(* A task that does nothing; what a step does not need stays as it is here.  *)
Idle ==
  [at |-> "idle", kind |-> "none", config |-> None, client |-> 0, next |-> "none",
   method |-> "none", id |-> 0, reply |-> NoReply, tools |-> None, invalidated |-> 0]

(* Clients whose child runs.                                                 *)
Alive == {c \in Clients : client[c].child}

(* The shape of the state, and the parts that only one task at a time has:   *)
(* the steps under the lifecycle lock belong to its holder.                  *)
TypeOK ==
  /\ row \in Configs \cup {None}
  /\ durable \in Tools \cup {None} /\ persisted_tools \in Tools \cup {None}
  /\ tool_routes \in Tools \cup {None}
  /\ runtime = None \/
       (/\ runtime.config \in Configs /\ runtime.client \in Clients
        /\ runtime.tools \in Tools /\ runtime.generation \in 0..MaxChanges)
  /\ status \in {"unknown", "starting", "ready", "error", "disabled"}
  /\ Len(client) <= MaxClients
  /\ \A c \in Clients :
       /\ client[c].base \in 0..MaxChanges /\ client[c].generation \in 0..MaxChanges
       /\ \A r \in client[c].pending : r.proc \in Procs /\ r.id < client[c].next_id
       /\ asked[c] \subseteq 1..client[c].next_id - 1
  /\ lifecycle_lock \in Procs \cup {None}
  /\ catalog \in 0..MaxChanges
  /\ \A p \in Procs :
       op[p].at \in LockedSteps /\ op[p].kind \in LifecycleOps => lifecycle_lock = p
  /\ begun \in 0..MaxOps /\ faults \in 0..MaxFaults

(* At start warm_tool_cache reads the mirror the last process left behind.   *)
Init ==
  /\ row = [updated_at |-> 0, enabled |-> TRUE]
  /\ durable = None /\ persisted_tools = durable
  /\ lifecycle_lock = None
  /\ runtime = None /\ tool_routes = None
  /\ status = "unknown"
  /\ client = <<>> /\ stdout = <<>> /\ asked = <<>>
  /\ catalog = 0
  /\ op = [p \in Procs |-> Idle]
  /\ begun = 0 /\ faults = 0

At(p, step) == op[p].at = step
GoTo(p, step) == op' = [op EXCEPT ![p].at = step]

-----------------------------------------------------------------------------
(* The operations, as their callers begin them *)

(* A caller reads the configuration and then asks for the lock.              *)
BeginLifecycle(p) ==
  /\ At(p, "idle") /\ begun < MaxOps /\ begun' = begun + 1
  /\ row # None
  /\ \E kind \in LifecycleOps :
       op' = [op EXCEPT ![p] = [Idle EXCEPT !.at = "lock", !.kind = kind, !.config = row]]
  /\ UNCHANGED <<store, lifecycle_lock, inner, processes, catalog, faults>>

(* upsert_mcp_server saves the new configuration and ensures it.             *)
Configure(p) ==
  /\ At(p, "idle") /\ begun < MaxOps /\ begun' = begun + 1
  /\ row # None /\ faults < MaxFaults /\ faults' = faults + 1
  /\ \E enabled \in BOOLEAN : row' = [updated_at |-> row.updated_at + 1, enabled |-> enabled]
  /\ op' = [op EXCEPT ![p] = [Idle EXCEPT !.at = "lock", !.kind = "ensure", !.config = row']]
  /\ UNCHANGED <<durable, lifecycle_lock, inner, processes, catalog>>

(* list_tools and cached_tools, or call_tool and call_server_tool; a call of *)
(* a public name that has no route ends here and changes nothing.            *)
BeginUse(p) ==
  /\ At(p, "idle") /\ begun < MaxOps /\ begun' = begun + 1
  /\ \E kind \in {"list", "call"} :
       op' = [op EXCEPT ![p] = [Idle EXCEPT !.at = "compare", !.kind = kind]]
  /\ UNCHANGED <<store, lifecycle_lock, inner, processes, catalog, faults>>

(* The guard of the lock is dropped as the operation returns.                *)
Return(p) ==
  /\ At(p, "return")
  /\ op' = [op EXCEPT ![p] = Idle]
  /\ lifecycle_lock' = None
  /\ UNCHANGED <<store, inner, processes, catalog, bounds>>

-----------------------------------------------------------------------------
(* Lifecycle *)

(* ensure_server keeps a runtime of the same configuration that is Ready.    *)
Kept(p) ==
  /\ op[p].kind = "ensure"
  /\ runtime # None /\ runtime.config.updated_at = op[p].config.updated_at
  /\ status \in {"ready", "disabled"}

Lock(p) ==
  /\ At(p, "lock")
  /\ lifecycle_lock = None /\ lifecycle_lock' = p
  /\ GoTo(p, IF Kept(p) THEN "return" ELSE "take")
  /\ UNCHANGED <<store, inner, processes, catalog, bounds>>

(* What follows once the old runtime is gone.                                *)
AfterStop(kind) ==
  CASE kind = "stop" -> "return"
    [] kind = "forget" -> "forget"
    [] OTHER -> "announce"

(* stop_server_locked: the runtime leaves the map before it is shut down.    *)
TakeRuntime(p) ==
  /\ At(p, "take")
  /\ op' = [op EXCEPT ![p] =
       IF runtime = None THEN [op[p] EXCEPT !.at = AfterStop(op[p].kind)]
       ELSE [op[p] EXCEPT !.at = "kill", !.client = runtime.client,
                          !.next = AfterStop(op[p].kind)]]
  /\ runtime' = None /\ tool_routes' = None
  /\ UNCHANGED <<store, lifecycle_lock, persisted_tools, status, processes, catalog, bounds>>

(* McpStdioClient::shutdown: the reader is aborted and the child killed.     *)
Killed(c) == [client EXCEPT ![c] = [client[c] EXCEPT !.reader = FALSE, !.child = FALSE]]

Kill(p) ==
  /\ At(p, "kill")
  /\ client' = Killed(op[p].client)
  /\ stdout' = [stdout EXCEPT ![op[p].client] = <<>>]
  /\ asked' = [asked EXCEPT ![op[p].client] = {}]
  /\ GoTo(p, "drain")
  /\ UNCHANGED <<store, lifecycle_lock, inner, catalog, bounds>>

(* fail_all_pending: every waiting request is answered with an error.        *)
Failed(c, ops) ==
  [q \in Procs |-> IF \E r \in client[c].pending : r.proc = q
                   THEN [ops[q] EXCEPT !.reply = ErrorReply] ELSE ops[q]]

Drain(p) ==
  /\ At(p, "drain")
  /\ LET c == op[p].client IN
       /\ client' = [client EXCEPT ![c].pending = {}]
       /\ op' = Failed(c, [op EXCEPT ![p].at = op[p].next])
  /\ UNCHANGED <<store, lifecycle_lock, inner, stdout, asked, catalog, bounds>>

(* forget_server drops the cached tools; delete_mcp_server then deletes the  *)
(* row, and its tools with it, after the lock is released.                   *)
Forget(p) ==
  /\ At(p, "forget")
  /\ persisted_tools' = None
  /\ lifecycle_lock' = None
  /\ GoTo(p, "unlist")
  /\ UNCHANGED <<store, runtime, tool_routes, status, processes, catalog, bounds>>

DeleteRow(p) ==
  /\ At(p, "unlist")
  /\ row' = None /\ durable' = None
  /\ op' = [op EXCEPT ![p] = Idle]
  /\ UNCHANGED <<lifecycle_lock, inner, processes, catalog, bounds>>

Announce(p) ==
  /\ At(p, "announce")
  /\ IF op[p].config.enabled
     THEN status' = "starting" /\ GoTo(p, "spawn")
     ELSE status' = "disabled" /\ GoTo(p, "return")
  /\ UNCHANGED <<store, lifecycle_lock, runtime, tool_routes, persisted_tools, processes, catalog, bounds>>

NewClient ==
  [child |-> TRUE, reader |-> TRUE, generation |-> 0, next_id |-> 1, pending |-> {},
   base |-> catalog]

(* The new client is asked to initialize and then for its tools. Both fail   *)
(* alike, and one request stands for the two.                                *)
FirstRequest(p, c) ==
  [Idle EXCEPT !.at = "send", !.kind = op[p].kind, !.config = op[p].config, !.client = c,
               !.method = "tools/list", !.next = "error"]

Spawn(p) ==
  /\ At(p, "spawn")
  /\ \/ /\ Len(client) < MaxClients
        /\ client' = Append(client, NewClient)
        /\ stdout' = Append(stdout, <<>>) /\ asked' = Append(asked, {})
        /\ op' = [op EXCEPT ![p] = FirstRequest(p, Len(client) + 1)]
     \/ /\ GoTo(p, "error")
        /\ UNCHANGED processes
  /\ UNCHANGED <<store, lifecycle_lock, inner, catalog, bounds>>

SetErrorStatus(p) ==
  /\ At(p, "error")
  /\ status' = "error"
  /\ GoTo(p, "return")
  /\ UNCHANGED <<store, lifecycle_lock, runtime, tool_routes, persisted_tools, processes, catalog, bounds>>

(* persist_tools, right after the lock of inner is dropped: the write fails  *)
(* for a server that is no longer configured, which is only logged. Nothing  *)
(* in a running host reads the mirror.                                       *)
PersistTools(tools) == durable' = IF row = None THEN durable ELSE tools

(* install_ready_client: the generation is read here, after tools/list.      *)
InstallReadyClient(p) ==
  /\ At(p, "install")
  /\ runtime' = [config |-> op[p].config, client |-> op[p].client, tools |-> op[p].tools,
                 generation |-> client[op[p].client].generation]
  /\ tool_routes' = op[p].tools /\ persisted_tools' = op[p].tools
  /\ status' = "ready"
  /\ PersistTools(op[p].tools)
  /\ GoTo(p, "return")
  /\ UNCHANGED <<row, lifecycle_lock, processes, catalog, bounds>>

-----------------------------------------------------------------------------
(* The tool cache *)

(* refresh_tools_if_invalidated, first part: the runtime and the generation. *)
CompareGeneration(p) ==
  /\ At(p, "compare")
  /\ op' = [op EXCEPT ![p] =
       IF runtime = None THEN Idle
       ELSE LET c == runtime.client IN
            IF client[c].generation <= runtime.generation THEN [op[p] EXCEPT !.at = "pick"]
            ELSE [op[p] EXCEPT !.at = "send", !.method = "refresh", !.client = c,
                               !.invalidated = client[c].generation]]
  /\ UNCHANGED <<store, lifecycle_lock, inner, processes, catalog, bounds>>

(* Faulty variant: the result of an old client is published all the same.    *)
Superseded_not_compared(p) == runtime.generation >= op[p].invalidated

(* The runtime is another client's, or a refresh as new was published.       *)
Superseded(p) ==
  \/ runtime.client # op[p].client
  \/ runtime.generation >= op[p].invalidated

(* Faulty variant: the generation is read again after tools/list.            *)
ObservedGeneration_reread(p) == client[op[p].client].generation

ObservedGeneration(p) == op[p].invalidated

(* Its second part, once tools/list has answered.                            *)
PublishRefresh(p) ==
  /\ At(p, "publish")
  /\ IF runtime = None \/ Superseded(p)
     THEN /\ op' = [op EXCEPT ![p] = IF runtime = None THEN Idle ELSE [op[p] EXCEPT !.at = "pick"]]
          /\ UNCHANGED <<runtime, tool_routes, persisted_tools, durable>>
     ELSE /\ runtime' = [runtime EXCEPT !.tools = op[p].tools,
                                        !.generation = ObservedGeneration(p)]
          /\ tool_routes' = op[p].tools /\ persisted_tools' = op[p].tools
          /\ PersistTools(op[p].tools)
          /\ GoTo(p, "pick")
  /\ UNCHANGED <<row, lifecycle_lock, status, processes, catalog, bounds>>

(* The tools are returned, or the client of the call is picked, unless the   *)
(* tool is not listed or its fingerprint is not the granted one.             *)
PickClient(p) ==
  /\ At(p, "pick")
  /\ \/ op' = [op EXCEPT ![p] = Idle]
     \/ /\ op[p].kind = "call" /\ runtime # None
        /\ op' = [op EXCEPT ![p] =
             [Idle EXCEPT !.at = "send", !.kind = "call", !.method = "tools/call",
                          !.client = runtime.client]]
  /\ UNCHANGED <<store, lifecycle_lock, inner, processes, catalog, bounds>>

-----------------------------------------------------------------------------
(* One request of a client *)

(* A failed start shuts its client down; any other operation returns.        *)
Abandoned(o) ==
  IF o.method = "tools/list" THEN [o EXCEPT !.at = "kill"] ELSE Idle

(* The request is entered as pending and written; the write may fail or time *)
(* out, as it does when the child is gone, and then the entry is removed.    *)
Send(p) ==
  /\ At(p, "send")
  /\ LET c == op[p].client
         id == client[c].next_id
     IN \/ /\ op' = [op EXCEPT ![p] = [op[p] EXCEPT !.at = "wait", !.id = id]]
           /\ client' = [client EXCEPT ![c] = [client[c] EXCEPT
                !.next_id = id + 1, !.pending = client[c].pending \cup {[id |-> id, proc |-> p]}]]
           /\ asked' = [asked EXCEPT ![c] = IF client[c].child THEN asked[c] \cup {id} ELSE asked[c]]
        \/ /\ op' = [op EXCEPT ![p] = Abandoned(@)]
           /\ client' = [client EXCEPT ![c].next_id = id + 1]
           /\ UNCHANGED asked
  /\ UNCHANGED <<store, lifecycle_lock, inner, stdout, catalog, bounds>>

(* Where a successful answer leads.                                          *)
Continued(o) ==
  LET tools == [client |-> o.client, version |-> o.reply.version] IN
  CASE o.method = "tools/list" ->
         [Idle EXCEPT !.at = "install", !.kind = o.kind, !.config = o.config,
                      !.client = o.client, !.tools = tools]
    [] o.method = "refresh" ->
         [Idle EXCEPT !.at = "publish", !.kind = o.kind, !.client = o.client, !.tools = tools,
                      !.invalidated = o.invalidated]
    [] o.method = "tools/call" -> Idle

(* An error fails the operation, and so does an answer the caller cannot     *)
(* decode.                                                                   *)
Receive(p) ==
  /\ At(p, "wait") /\ op[p].reply.is # "none"
  /\ op' \in {[op EXCEPT ![p] = Abandoned(@)]} \cup
             (IF op[p].reply.is = "answer" THEN {[op EXCEPT ![p] = Continued(@)]} ELSE {})
  /\ UNCHANGED <<store, lifecycle_lock, inner, processes, catalog, bounds>>

(* Faulty variant: a request that is written is waited for without end.      *)
Timeout_write_only(p) == FALSE /\ UNCHANGED vars

(* The request times out: its entry is removed, a late answer finds none.    *)
Timeout(p) ==
  /\ At(p, "wait") /\ op[p].reply.is = "none"
  /\ client' = [client EXCEPT ![op[p].client].pending =
                  {r \in client[op[p].client].pending : r.id # op[p].id}]
  /\ op' = [op EXCEPT ![p] = Abandoned(@)]
  /\ UNCHANGED <<store, lifecycle_lock, inner, stdout, asked, catalog, bounds>>

-----------------------------------------------------------------------------
(* The reader task of a client *)

(* Faulty variant: an answer goes to the request that has waited longest.    *)
Addressee_oldest(c, id) ==
  {r \in client[c].pending : \A q \in client[c].pending : r.id <= q.id}

(* The pending request an answer is for, if it still waits.                  *)
Addressee(c, id) == {r \in client[c].pending : r.id = id}

(* One line: an answer, a list_changed notification, or a line that does not *)
(* parse and fails every pending request. A request of the server is only    *)
(* answered: it changes no state.                                            *)
ReadLine(c) ==
  /\ client[c].reader /\ stdout[c] # <<>>
  /\ stdout' = [stdout EXCEPT ![c] = Tail(@)]
  /\ LET line == Head(stdout[c]) IN
     CASE line.is = "answer" ->
            /\ client' = [client EXCEPT ![c].pending = client[c].pending \ Addressee(c, line.id)]
            /\ op' = [q \in Procs |-> IF \E r \in Addressee(c, line.id) : r.proc = q
                                      THEN [op[q] EXCEPT !.reply = line] ELSE op[q]]
       [] line.is = "list_changed" ->
            /\ client' = [client EXCEPT ![c].generation = client[c].generation + 1]
            /\ UNCHANGED op
       [] line.is = "garbage" ->
            /\ client' = [client EXCEPT ![c].pending = {}]
            /\ op' = Failed(c, op)
  /\ UNCHANGED <<store, lifecycle_lock, inner, asked, catalog, bounds>>

(* The end of stdout fails every pending request; nobody is told.            *)
ReadEnd(c) ==
  /\ client[c].reader /\ stdout[c] = <<>> /\ ~client[c].child
  /\ client' = [client EXCEPT ![c] = [client[c] EXCEPT !.reader = FALSE, !.pending = {}]]
  /\ op' = Failed(c, op)
  /\ UNCHANGED <<store, lifecycle_lock, inner, stdout, asked, catalog, bounds>>

-----------------------------------------------------------------------------
(* The MCP server, which is external *)

(* It answers its requests in any order, with the tools it has then.         *)
ServerAnswers(c) ==
  /\ client[c].child
  /\ \E id \in asked[c] :
       /\ asked' = [asked EXCEPT ![c] = @ \ {id}]
       /\ stdout' = [stdout EXCEPT ![c] =
            Append(@, [is |-> "answer", client |-> c, id |-> id, version |-> catalog])]
  /\ UNCHANGED <<store, lifecycle_lock, inner, client, catalog, op, bounds>>

(* Its tools change and every running process says so; while none runs a     *)
(* change is no more than another first version.                             *)
ServerChangesTools ==
  /\ Alive # {}
  /\ catalog < MaxChanges /\ catalog' = catalog + 1
  /\ stdout' = [c \in Clients |-> IF client[c].child THEN Append(stdout[c], [is |-> "list_changed"])
                                 ELSE stdout[c]]
  /\ UNCHANGED <<store, lifecycle_lock, inner, client, asked, op, bounds>>

(* It writes a line that is no JSON-RPC message, in place of an answer.      *)
ServerWritesGarbage(c) ==
  /\ client[c].child
  /\ faults < MaxFaults /\ faults' = faults + 1
  /\ \E id \in asked[c] : asked' = [asked EXCEPT ![c] = @ \ {id}]
  /\ stdout' = [stdout EXCEPT ![c] = Append(@, [is |-> "garbage"])]
  /\ UNCHANGED <<store, lifecycle_lock, inner, client, catalog, op, begun>>

ServerExits(c) ==
  /\ client[c].child
  /\ faults < MaxFaults /\ faults' = faults + 1
  /\ client' = [client EXCEPT ![c].child = FALSE]
  /\ asked' = [asked EXCEPT ![c] = {}]
  /\ UNCHANGED <<store, lifecycle_lock, inner, stdout, catalog, op, begun>>

-----------------------------------------------------------------------------
Step(p) ==
  \/ Lock(p) \/ TakeRuntime(p) \/ Kill(p) \/ Drain(p) \/ Forget(p) \/ DeleteRow(p)
  \/ Announce(p) \/ Spawn(p) \/ SetErrorStatus(p) \/ InstallReadyClient(p)
  \/ CompareGeneration(p) \/ PublishRefresh(p) \/ PickClient(p)
  \/ Send(p) \/ Receive(p) \/ Timeout(p) \/ Return(p)

Next ==
  \/ \E p \in Procs : BeginLifecycle(p) \/ Configure(p) \/ BeginUse(p) \/ Step(p)
  \/ \E c \in Clients : ReadLine(c) \/ ReadEnd(c) \/ ServerAnswers(c)
                        \/ ServerWritesGarbage(c) \/ ServerExits(c)
  \/ ServerChangesTools

Spec == Init /\ [][Next]_vars

(* A task that can go on does; a timer that is due fires. Nothing is assumed *)
(* of the MCP server, or of the reader of a process that says nothing.       *)
FairSpec == Spec /\ \A p \in Procs : WF_vars(Step(p))

-----------------------------------------------------------------------------
(* However starts, stops and failed starts race, at most one process of the  *)
(* server runs: the lifecycle lock spans the shutdown of the old process and *)
(* the start of the new one, and every failed start shuts its client down.   *)
OneLiveProcess == Cardinality(Alive) <= 1

(* A task is only ever given the answer to its own request, of its own       *)
(* client, however late or out of order the server answers and however many  *)
(* requests were given up in between.                                        *)
AnswerMatches ==
  \A p \in Procs : At(p, "wait") /\ op[p].reply.is = "answer" =>
    op[p].reply.id = op[p].id /\ op[p].reply.client = op[p].client

(* The routes and the cached tools are those its own process listed for the  *)
(* runtime in the map, and a server without a runtime has no route: a refresh *)
(* that began before a restart or a stop never publishes what it learnt.     *)
RoutesOfLiveRuntime ==
  IF runtime = None THEN tool_routes = None
  ELSE /\ runtime.tools.client = runtime.client
       /\ tool_routes = runtime.tools /\ persisted_tools = runtime.tools

(* What the host lists is what runs (restart_server_locked, stop_server,     *)
(* refresh_tools_if_invalidated): one process, and the tools it listed.      *)
ListedIsRunning == TypeOK /\ OneLiveProcess /\ RoutesOfLiveRuntime

(* A refresh never marks the cache as newer than the tools it holds: changes *)
(* the generation counts are in the tools, so that a change announced while  *)
(* tools/list was under way is fetched by the next use.                      *)
RefreshAbsorbsNothing ==
  [][ \A p \in Procs : PublishRefresh(p) /\ runtime' # runtime =>
        runtime'.tools.version >= client[runtime'.client].base + runtime'.generation ]_vars

(* Every operation returns, whether or not the server answers, dies or is    *)
(* shut down meanwhile, and the lifecycle lock is free again.                *)
OperationsReturn ==
  \A p \in Procs : op[p].at # "idle" ~> op[p].at = "idle"

=============================================================================
