--------------------------- MODULE McpConnections ---------------------------
(***************************************************************************)
(* The connections to MCP servers: McpConnectionManager                     *)
(* (integrations/mcp/manager.py) with its registries and settings, as the   *)
(* handlers of the stdio server (server/stdio_server.py), the agent's       *)
(* marketplace and Jira calls (core/agent.py), and the task that connects   *)
(* everything when the server starts drive it.                              *)
(*                                                                          *)
(* Two coroutines: the receive loop, which runs one handler at a time, and  *)
(* that task.  Each keeps the event loop until it awaits a client: while it *)
(* opens one (handshake and list of tools) or closes one.  An operation     *)
(* drops some connections and then opens some, in this order.               *)
(*                                                                          *)
(* A server's tools are Tools, whatever its prefix; names, transports,      *)
(* scopes and the errors that are only shown are left out.  A definition    *)
(* named Bug... is the mutant of the definition after it.                   *)
(***************************************************************************)
EXTENDS Naturals, FiniteSets

CONSTANTS
  Servers,     \* servers that can be in the settings
  Jira,        \* the connection the Jira handlers make, which is in no settings
  Tools,       \* names of tools
  Listed,      \* servers in the settings file at first
  MaxClients,  \* bound: clients created
  MaxOps       \* bound: requests of the user

ASSUME ConstantsAssumption ==
  /\ Jira \notin Servers /\ Listed \subseteq Servers
  /\ MaxClients \in Nat /\ MaxOps \in Nat

Names   == Servers \cup {Jira}
Clients == 1 .. MaxClients   \* in the order they are created
Nobody  == 0

VARIABLES
  disk,        \* the settings files
  settings,    \* two settings managers: that of the task, that of the handlers
  pointer,     \* agent._mcp_settings
  connections, \* _connections: the client of each name
  reg,         \* the tools a client's registry has registered
  live,        \* clients whose process or session exists
  executor,    \* the client a tool in the ToolExecutor calls
  cache,       \* _tools_cache: the tools offered, or not built
  frame,       \* what the two coroutines are doing
  ops, made,   \* requests and clients so far
  overlap,     \* history: a request came while the task was running
  failed,      \* history: clients that could not be opened
  stale,       \* history: a connection has gone, and the cache is as it was before
  wish         \* history: the settings as the user's requests leave them

managerVars == <<connections, reg, live, executor, made>>
settingVars == <<disk, settings, pointer>>
historyVars == <<overlap, wish>>
vars == <<settingVars, managerVars, cache, frame, ops, historyVars, failed, stale>>

Coros == {"handler", "task"}
Kinds == {"none", "connectAll", "toggle", "save", "reconnect", "reload", "install", "uninstall", "jira"}

\* drop and open: names the operation has still to drop and to open.
Rest    == [kind |-> "none", at |-> "idle", obj |-> "own", drop |-> {}, open |-> {},
            name |-> Jira, client |-> Nobody, hide |-> {}]
NotBuilt == {<<Nobody, Nobody>>}

Absent     == [listed |-> FALSE, enabled |-> FALSE, known |-> {}, hidden |-> {}]
Unseen     == [listed |-> TRUE, enabled |-> TRUE, known |-> {}, hidden |-> {}]
Defaults   == [s \in Servers |-> IF s \in Listed THEN Unseen ELSE Absent]

\* The task is created before the receive loop, and runs before it.
Init ==
  /\ disk = Defaults /\ settings = [o \in {"task", "own"} |-> Defaults] /\ pointer = "none"
  /\ connections = [n \in Names |-> Nobody]
  /\ reg = [c \in Clients |-> {}] /\ live = {}
  /\ executor = [x \in Names \X Tools |-> Nobody]
  /\ cache = NotBuilt
  /\ frame = [co \in Coros |-> IF co = "task" THEN [Rest EXCEPT !.kind = "connectAll", !.at = "drop", !.obj = "task"]
                                              ELSE Rest]
  /\ ops = 0 /\ made = 0 /\ overlap = FALSE /\ failed = {} /\ stale = FALSE /\ wish = Defaults

-----------------------------------------------------------------------------
Awaits(co)  == frame[co].at \in {"idle", "opening", "closing"}
CanRun(co)  == \A o \in Coros \ {co} : Awaits(o)
Go(co, f)   == frame' = [frame EXCEPT ![co] = f]

Connected(n)   == connections[n] # Nobody
Enabled(st)    == {s \in Servers : st[s].enabled}
Definitions    == {x \in Names \X Tools : Connected(x[1]) /\ x[2] \in reg[connections[x[1]]]}

\* The turn asks for its tools: _get_tools.
GetTools ==
  /\ \A co \in Coros : Awaits(co)
  /\ cache = NotBuilt /\ cache' = Definitions /\ stale' = FALSE
  /\ UNCHANGED <<settingVars, managerVars, frame, ops, historyVars, failed>>

-----------------------------------------------------------------------------
(* The handlers.  The operator reads the settings, changes and saves them,  *)
(* and says what there is to drop and to open.                              *)

\* The settings manager a handler uses: the agent's, or one it creates.
Obj == IF pointer = "none" THEN "own" ELSE pointer

\* The one it reads: a manager just created loads the files.
Current == IF pointer = "none" THEN disk ELSE settings[pointer]

Begin(kind, obj, drop, open) ==
  /\ frame["handler"].at = "idle" /\ CanRun("handler")
  /\ ops < MaxOps /\ ops' = ops + 1
  /\ overlap' = (overlap \/ frame["task"].at # "idle")
  /\ Go("handler", [Rest EXCEPT !.kind = kind, !.at = "drop", !.obj = obj, !.drop = drop, !.open = open])
  /\ UNCHANGED <<managerVars, cache, failed, stale>>

If(n, cond) == IF cond THEN {n} ELSE {}

Put(obj, st) == settings' = [settings EXCEPT ![obj] = st] /\ pointer' = obj
Save(obj, st) == Put(obj, st) /\ disk' = st

\* _handle_mcp_toggle_server loads the files first.
Toggled(s, on) == IF disk[s].listed THEN [disk EXCEPT ![s].enabled = on] ELSE disk

ToggleServer(s, on) ==
  /\ Begin("toggle", Obj, If(s, ~on /\ Connected(s)), If(s, on /\ ~Connected(s) /\ disk[s].listed))
  /\ Save(Obj, Toggled(s, on))
  /\ wish' = [wish EXCEPT ![s].enabled = on /\ wish[s].listed]

\* _handle_mcp_save_tools; update_mcp_tool_visibility
SaveTools(s, hidden) ==
  LET st == IF Current[s].listed
            THEN [Current EXCEPT ![s].hidden = hidden, ![s].known = Tools] ELSE Current
  IN /\ Begin("save", Obj, If(s, Connected(s)), If(s, Connected(s) /\ st[s].enabled))
     /\ Save(Obj, st)
     /\ wish' = [wish EXCEPT ![s].hidden = IF wish[s].listed THEN hidden ELSE {}]

Reconnect(s) ==
  /\ Begin("reconnect", Obj, If(s, Connected(s)), If(s, Current[s].enabled))
  /\ Put(Obj, Current)
  /\ UNCHANGED <<disk, wish>>

\* _handle_mcp_reload drops every connection the settings do not enable, Jira's too.
Reload ==
  /\ Begin("reload", "own", {n \in Names : Connected(n)} \ Enabled(disk), {})
  /\ Put("own", disk)
  /\ UNCHANGED <<disk, wish>>

\* mcp_marketplace_install, which the panel offers for a server that is in no settings;
\* without the variables it needs, it is not connected.
Install(s, complete) ==
  /\ ~Current[s].listed
  /\ Begin("install", Obj, {}, If(s, complete))
  /\ Save(Obj, [Current EXCEPT ![s] = Unseen])
  /\ wish' = [wish EXCEPT ![s] = Unseen]

\* mcp_marketplace_uninstall: the settings are changed when the connection is gone.
Uninstall(s) ==
  /\ Begin("uninstall", Obj, If(s, Connected(s)), {s})
  /\ Put(Obj, Current)
  /\ wish' = [wish EXCEPT ![s] = Absent]
  /\ UNCHANGED disk

JiraConnect ==
  /\ Begin("jira", "own", If(Jira, Connected(Jira)), {Jira})
  /\ UNCHANGED <<settingVars, wish>>

JiraDisconnect ==
  /\ Begin("jira", "own", If(Jira, Connected(Jira)), {})
  /\ UNCHANGED <<settingVars, wish>>

-----------------------------------------------------------------------------
(* Dropping: McpConnectionManager.disconnect.                               *)

\* The connection is popped and its tools unregistered before the client is awaited.
\* The mutant leaves the tools in the executor.
BugForget(n) ==
  /\ connections' = [connections EXCEPT ![n] = Nobody]
  /\ UNCHANGED executor

Forget(n) ==
  /\ connections' = [connections EXCEPT ![n] = Nobody]
  /\ executor' = [x \in DOMAIN executor |->
                    IF x[1] = n /\ x[2] \in reg[connections[n]] THEN Nobody ELSE executor[x]]

Drop(co) ==
  LET f == frame[co] IN
  /\ f.at = "drop" /\ CanRun(co)
  /\ \E n \in f.drop :
       IF Connected(n)
       THEN /\ Forget(n)
            /\ reg' = [reg EXCEPT ![connections[n]] = {}]
            /\ Go(co, [f EXCEPT !.drop = @ \ {n}, !.at = "closing", !.client = connections[n]])
       ELSE Go(co, [f EXCEPT !.drop = @ \ {n}]) /\ UNCHANGED <<connections, executor, reg>>
  /\ UNCHANGED <<settingVars, live, made, cache, ops, historyVars, failed, stale>>

\* Only some callers invalidate the tools cache when the client is closed; the others
\* when they have opened the next one.  The mutant forgets the uninstalled server.
Keeps(kind)          == kind \in {"save", "reconnect", "reload"}
BugInvalidates(kind) == kind \in {"toggle", "jira"}
Invalidates(kind)    == kind \in {"toggle", "uninstall", "jira"}

\* client.disconnect has returned.  The mutant leaves the process running.
BugClosed(co) ==
  LET f == frame[co] IN
  /\ f.at = "closing" /\ CanRun(co)
  /\ cache' = IF Invalidates(f.kind) THEN NotBuilt ELSE cache
  /\ stale' = (~Invalidates(f.kind) /\ (stale \/ Keeps(f.kind)))
  /\ Go(co, [f EXCEPT !.at = "drop", !.client = Nobody])
  /\ UNCHANGED <<settingVars, managerVars, ops, historyVars, failed>>

Closed(co) ==
  LET f == frame[co] IN
  /\ f.at = "closing" /\ CanRun(co)
  /\ live' = live \ {f.client}
  /\ cache' = IF Invalidates(f.kind) THEN NotBuilt ELSE cache
  /\ stale' = (~Invalidates(f.kind) /\ (stale \/ Keeps(f.kind)))
  /\ Go(co, [f EXCEPT !.at = "drop", !.client = Nobody])
  /\ UNCHANGED <<settingVars, connections, reg, executor, made, ops, historyVars, failed>>

\* client.disconnect raises: terminate() of a process that has ended by itself, or
\* aclose() of the session.  The connection and its tools are gone, and nobody
\* invalidates the cache.  Only two handlers catch that and go on.
Catches(kind) == kind \in {"reload", "uninstall"}

CloseFails(co) ==
  LET f == frame[co] IN
  /\ f.at = "closing" /\ CanRun(co)
  /\ live' = live \ {f.client}
  /\ stale' = TRUE
  /\ Go(co, IF Catches(f.kind) THEN [f EXCEPT !.at = "drop", !.client = Nobody] ELSE Rest)
  /\ UNCHANGED <<settingVars, connections, reg, executor, made, cache, ops, historyVars, failed>>

\* Nothing more to drop.  connect_from_settings then lists what there is to open,
\* of the files it has loaded; an uninstalled server leaves the settings.
StartOpening(co) ==
  LET f == frame[co]  st == settings[f.obj] IN
  /\ f.at = "drop" /\ f.drop = {} /\ CanRun(co)
  /\ IF f.kind = "uninstall"
     THEN /\ settings' = [settings EXCEPT ![f.obj] = [s \in Servers |-> IF s \in f.open THEN Absent ELSE st[s]]]
          /\ disk' = IF \E s \in f.open : st[s].listed THEN settings'[f.obj] ELSE disk
     ELSE UNCHANGED <<disk, settings>>
  /\ Go(co, [f EXCEPT !.at = "open",
               !.open = CASE f.kind = "uninstall" -> {}
                          [] f.kind \in {"connectAll", "reload"} -> {s \in Enabled(st) : ~Connected(s)}
                          [] OTHER -> @])
  /\ UNCHANGED <<pointer, managerVars, cache, ops, historyVars, failed, stale>>

-----------------------------------------------------------------------------
(* Opening: McpConnectionManager.connect.                                   *)

\* connect_from_settings goes on with the next server when one fails.
GoesOn(kind) == kind \in {"connectAll", "reload"}

\* The tools of n the user has hidden; a server just installed has none.  The mutant
\* shows them all.
BugFilter(f, n) == {}
Filter(f, n) == IF n = Jira \/ f.kind = "install" THEN {} ELSE settings[f.obj][n].hidden

\* The name is looked up before the first await only.
Open(co) ==
  LET f == frame[co] IN
  /\ f.at = "open" /\ CanRun(co)
  /\ \E n \in f.open :
       LET others == IF GoesOn(f.kind) THEN f.open \ {n} ELSE {} IN
       IF Connected(n)
       THEN Go(co, [f EXCEPT !.open = others]) /\ UNCHANGED <<made, live>>
       ELSE LET c == made + 1 IN
              /\ c \in Clients /\ made' = c
              /\ live' = live \cup {c}
              /\ Go(co, [f EXCEPT !.open = others, !.at = "opening", !.name = n, !.client = c,
                           !.hide = Filter(f, n)])
  /\ UNCHANGED <<settingVars, connections, reg, executor, cache, ops, historyVars, failed, stale>>

\* discover_and_register, the merge of new tools into the settings, the connection.
Opened(co) ==
  LET f == frame[co]  n == f.name  st == settings[f.obj] IN
  /\ f.at = "opening" /\ CanRun(co)
  /\ reg' = [reg EXCEPT ![f.client] = Tools \ f.hide]
  /\ executor' = [x \in DOMAIN executor |->
                    IF x[1] = n /\ x[2] \notin f.hide THEN f.client ELSE executor[x]]
  /\ connections' = [connections EXCEPT ![n] = f.client]
  /\ IF n # Jira /\ st[n].listed /\ st[n].known # Tools
     THEN /\ settings' = [settings EXCEPT ![f.obj][n].known = Tools]
          /\ disk' = settings'[f.obj]
     ELSE UNCHANGED <<settings, disk>>
  /\ IF GoesOn(f.kind) THEN UNCHANGED <<cache, stale>> ELSE cache' = NotBuilt /\ stale' = FALSE
  /\ Go(co, [f EXCEPT !.at = "open", !.client = Nobody])
  /\ UNCHANGED <<pointer, live, made, ops, historyVars, failed>>

\* The process cannot be started, or its handshake or its list of tools fails, or
\* Jira's time is up: nothing disconnects the client.
OpenFails(co) ==
  LET f == frame[co] IN
  /\ f.at = "opening" /\ CanRun(co)
  /\ live' \in {live, live \ {f.client}}
  /\ failed' = failed \cup {f.client}
  /\ Go(co, [f EXCEPT !.at = "open", !.client = Nobody])
  /\ UNCHANGED <<settingVars, connections, reg, executor, made, cache, ops, historyVars, stale>>

\* The task leaves its settings to the agent, those it loaded when it began.
Finish(co) ==
  LET f == frame[co] IN
  /\ f.at = "open" /\ f.open = {} /\ CanRun(co)
  /\ pointer' = IF f.kind = "connectAll" /\ Enabled(settings["task"]) # {} THEN "task" ELSE pointer
  /\ IF GoesOn(f.kind) THEN cache' = NotBuilt /\ stale' = FALSE ELSE UNCHANGED <<cache, stale>>
  /\ Go(co, Rest)
  /\ UNCHANGED <<disk, settings, managerVars, ops, historyVars, failed>>

-----------------------------------------------------------------------------
Request ==
  \/ \E s \in Servers : Reconnect(s) \/ Uninstall(s)
  \/ \E s \in Servers, b \in BOOLEAN : ToggleServer(s, b) \/ Install(s, b)
  \/ \E s \in Servers, h \in SUBSET Tools : SaveTools(s, h)
  \/ Reload \/ JiraConnect \/ JiraDisconnect

Next ==
  \/ Request \/ GetTools
  \/ \E co \in Coros :
       \/ Drop(co) \/ Closed(co) \/ CloseFails(co) \/ StartOpening(co)
       \/ Open(co) \/ Opened(co) \/ OpenFails(co) \/ Finish(co)

Spec == Init /\ [][Next]_vars

-----------------------------------------------------------------------------
ServerSettings == [listed : BOOLEAN, enabled : BOOLEAN, known : SUBSET Tools, hidden : SUBSET Tools]
Frames ==
  [kind : Kinds, at : {"idle", "drop", "closing", "open", "opening"}, obj : {"task", "own"},
   drop : SUBSET Names, open : SUBSET Names, name : Names, client : Clients \cup {Nobody}, hide : SUBSET Tools]

TypeOK ==
  /\ disk \in [Servers -> ServerSettings]
  /\ settings \in [{"task", "own"} -> [Servers -> ServerSettings]]
  /\ pointer \in {"none", "task", "own"}
  /\ connections \in [Names -> Clients \cup {Nobody}]
  /\ reg \in [Clients -> SUBSET Tools]
  /\ live \in SUBSET Clients /\ failed \in SUBSET Clients
  /\ executor \in [Names \X Tools -> Clients \cup {Nobody}]
  /\ cache = NotBuilt \/ cache \in SUBSET (Names \X Tools)
  /\ frame \in [Coros -> Frames]
  /\ ops \in 0 .. MaxOps /\ made \in 0 .. MaxClients /\ overlap \in BOOLEAN /\ stale \in BOOLEAN
  /\ wish \in [Servers -> ServerSettings]

Quiet == \A co \in Coros : frame[co].at = "idle"

\* A tool of the executor never leads to a client that has been closed, nor does a
\* connection: however the task and a handler overlap, a client's tools go with it.
NothingDead ==
  /\ \A n \in Names : connections[n] # Nobody => connections[n] \in live
  /\ \A x \in Names \X Tools : executor[x] # Nobody => executor[x] \in live

\* When nothing is under way, the settings file says what the user last asked for,
\* only enabled servers are connected, and the executor has just the tools that are
\* not hidden; unless a request came while the task was connecting.
Settled ==
  Quiet /\ ~overlap =>
    /\ \A s \in Servers :
         /\ disk[s].listed = wish[s].listed /\ disk[s].enabled = wish[s].enabled
         /\ disk[s].hidden = wish[s].hidden
         /\ Connected(s) => disk[s].enabled
         /\ Connected(s) => reg[connections[s]] = Tools \ wish[s].hidden
    /\ \A x \in Names \X Tools : executor[x] # Nobody <=> x \in Definitions

\* A client is a connection, or being opened or closed, or was never opened; another
\* one is left running only when a request overlapped the task.
ClientsOwned ==
  \A c \in live :
    \/ \E n \in Names : connections[n] = c
    \/ \E co \in Coros : frame[co].client = c
    \/ c \in failed \/ overlap

\* When nothing is under way the turn is offered every tool there is, however the task
\* and the handlers overlapped; and no other tool, unless the cache outlived a
\* connection: one whose client failed to close, or one dropped by a handler that
\* invalidates the cache only when it has opened the next, and that one failed.
ToolsFresh ==
  Quiet /\ cache # NotBuilt => Definitions \subseteq cache /\ (cache # Definitions => stale)

\* "Results are cached; call _invalidate_tools_cache() when tools change"
\* (core/agent.py:1025).  Not so: see the README.
CacheInvalidated == Quiet => cache \in {NotBuilt, Definitions}

=============================================================================
