------------------------------ MODULE Lifespan ------------------------------
(* Start and stop of the process: lifespan() in main.py, the checkpointer and
   the graphs compiled with it, and the tools of the MCP servers.  Nothing here
   outlives the process.  The import of a router module happens before
   lifespan() runs; the BM25 index it also builds is in CatalogIndex. *)
EXTENDS ConnectionPool

CONSTANTS
    RedisConfigured,    \* REDIS_URL
    McpEnabled,         \* MCP_ENABLED
    MaxStarts,          \* bound on starts of the process
    Boot                \* the coroutine of lifespan()

ASSUME LifespanAssumption ==
    /\ RedisConfigured \in BOOLEAN /\ McpEnabled \in BOOLEAN
    /\ MaxStarts \in Nat /\ Boot \notin Worker

VARIABLES
    phase,      \* where lifespan() is
    starts,
    saver,      \* builder._checkpointer
    saverOpen,  \* whether its connection is open
    bound,      \* bound[a]: the checkpointer the graph of app a was compiled with
    tools,      \* mcp_tools._cached_tools
    mcpTools,   \* the tools _mcp_agent_app was built with
    asking      \* coroutines suspended in client.get_tools()

bootVars == <<phase, starts, saver, saverOpen, bound, tools, mcpTools, asking>>
memoryVars == <<saver, saverOpen, bound>>
toolVars == <<tools, mcpTools, asking>>

App == {"chat", "agent", "multi", "mcp"}
Saver == {"redis", "memory", "spare"}       \* spare: the net of get_checkpointer
ToolList == {"loaded", "empty"}

ASSUME NoneAssumption == None \notin Saver \cup ToolList

Phase == {"down", "checkpointer", "tools", "serving", "draining", "closing",
          "forgetting", "exiting"}

Up == phase \in {"serving", "draining"}

BootTypeOK ==
    /\ phase \in Phase /\ starts \in 0 .. MaxStarts
    /\ saver \in Saver \cup {None} /\ saverOpen \in BOOLEAN
    /\ bound \in [App -> Saver \cup {None}]
    /\ tools \in ToolList \cup {None} /\ mcpTools \in ToolList \cup {None}
    /\ asking \subseteq Worker \cup {Boot}

BootInit ==
    /\ phase = "down" /\ starts = 0
    /\ saver = None /\ saverOpen = FALSE /\ bound = [a \in App |-> None]
    /\ tools = None /\ mcpTools = None /\ asking = {}

\* The process is gone, and with it everything it remembered.
ProcessLost ==
    /\ phase' = "down"
    /\ saver' = None /\ saverOpen' = FALSE /\ bound' = [a \in App |-> None]
    /\ tools' = None /\ mcpTools' = None /\ asking' = {}
    /\ UNCHANGED starts
    /\ PoolLost

-----------------------------------------------------------------------------
(* The checkpointer and the graphs *)

\* get_checkpointer(): an injected one, or a MemorySaver of its own.
SafeSaver == IF saver = None THEN "spare" ELSE saver

\* _get_graph, _get_agent_app, _get_multi_app: compiled at the first use.
Compiled(a) == [bound EXCEPT ![a] = IF @ = None THEN SafeSaver ELSE @]

AgentAtImport == {"agent"}
AppsAtImport == {}

ConfiguredSaver == IF RedisConfigured THEN "redis" ELSE "memory"

\* A router module that compiled its graph when imported would do so before
\* set_checkpointer.  Then lifespan() begins with init_pool().
StartProcess ==
    /\ phase = "down" /\ starts < MaxStarts
    /\ starts' = starts + 1
    /\ phase' = "checkpointer"
    /\ bound' = [a \in App |-> IF a \in AppsAtImport THEN "spare" ELSE None]
    /\ saver' = IF AppsAtImport = {} THEN None ELSE "spare"
    /\ InitPool
    /\ UNCHANGED <<saverOpen, toolVars>>

NeverPrefetches == FALSE
Prefetches == McpEnabled

\* open_checkpointer, set_checkpointer, build_graph.
OpenCheckpointer ==
    /\ phase = "checkpointer"
    /\ saver' = ConfiguredSaver /\ saverOpen' = TRUE
    /\ bound' = [bound EXCEPT !["chat"] = IF @ = None THEN ConfiguredSaver ELSE @]
    /\ phase' = IF Prefetches THEN "tools" ELSE "serving"
    /\ UNCHANGED <<starts, toolVars, poolVars>>

\* asetup() fails: the exception ends the start of the process.
CheckpointerFails ==
    /\ phase = "checkpointer" /\ RedisConfigured
    /\ ProcessLost

-----------------------------------------------------------------------------
(* get_mcp_tools: answered at once, or suspended in client.get_tools() *)

ToolsAtOnce == IF McpEnabled THEN tools ELSE "empty"

\* c is the coroutine of lifespan() (prefetch_mcp_tools) or of a request.
AskServers(c) ==
    /\ ToolsAtOnce = None /\ c \notin asking
    /\ asking' = asking \cup {c}
    /\ UNCHANGED <<phase, starts, memoryVars, tools, mcpTools, poolVars>>

\* _mcp_agent_app = build_agent(extra_tools=list, force_rebuild=True)
BuildMcpAgent(list) ==
    /\ mcpTools' = list
    /\ bound' = [bound EXCEPT !["mcp"] = SafeSaver]
    /\ saver' = SafeSaver
    /\ UNCHANGED saverOpen

\* The tools arrive, or the failure is cached as no tools; the coroutine goes on.
ServersAnswer(c) ==
    /\ c \in asking
    /\ asking' = asking \ {c}
    /\ \E list \in ToolList :
          /\ tools' = list
          /\ IF c = Boot THEN phase' = "serving" /\ UNCHANGED <<mcpTools, memoryVars>>
                         ELSE BuildMcpAgent(list) /\ UNCHANGED phase
    /\ UNCHANGED <<starts, poolVars>>

-----------------------------------------------------------------------------
(* The end of lifespan(); the web server calls it once no request is left *)

Stop ==
    /\ phase = "serving" /\ phase' = "draining"
    /\ UNCHANGED <<starts, memoryVars, toolVars, poolVars>>

CloseCheckpointer ==
    /\ phase = "draining"
    /\ saverOpen' = FALSE
    /\ phase' = "closing"
    /\ UNCHANGED <<starts, saver, bound, toolVars, poolVars>>

ClosePool ==
    /\ \/ phase = "closing" /\ ShutPool /\ phase' = "forgetting"
       \/ phase = "forgetting" /\ ForgetPool /\ phase' = "exiting"
    /\ UNCHANGED <<starts, memoryVars, toolVars>>

\* The interpreter waits for the threads of the executor.
ProcessEnds ==
    /\ phase = "exiting" /\ \A w \in Worker : ~Active(w)
    /\ ProcessLost

-----------------------------------------------------------------------------
\* The MCP agent that answers in one life of the process has one set of tools:
\* neither a late answer of a server nor a failed second load replaces it
\* (get_mcp_tools, _get_mcp_agent; prefetch_mcp_tools is what makes it so).
OneToolSet ==
    [][phase' # "down" => /\ mcpTools # None => mcpTools' = mcpTools
                          /\ tools # None => tools' = tools]_bootVars
=============================================================================
