# ClarAIty in TLA+

TLA+ specifications of ClarAIty (`src/src/`, a Python coding agent with a
Textual UI and a stdio/TCP server for VS Code), of the parts where
interleavings, failures and restarts decide what is correct. TLC checks them on
small instances, TLAPS proves the main invariants for every value of the
constants.

    tlc -workers 2 -config UIParallel.cfg MCUIProtocol.tla
    tlapm UIProtocol_proofs.tla

`PROJECT.json` lists the components, runs, mutants, hazards and theorems, and maps each definition to the lines it stands for.

## The system

One process runs one agent. Almost everything happens on one asyncio event
loop; tools and the plan tools run in worker threads; commands, subagents and
MCP servers are child processes. Paths below are relative to `src/src/`.

| Part | State | Operations | Talks to |
|---|---|---|---|
| Stdio server `server/stdio_server.py` | stdin and chat queues, streaming task, pending background batch and its timer, session id | receive loop (chat, approvals, Stop, mode, sessions, configuration), one turn after the other | VS Code (stdin, TCP), everything below |
| Tool loop `core/agent.py` | context of the turn, iteration and pause counters, current response's calls | `stream_response`: call the LLM; gate (A), interactive calls (B1), parallel run (B2), merge | memory, UIProtocol, gating, tools |
| UIProtocol `core/protocol.py` | registered futures, auto-approve set, interrupt flag | `wait_for_*`, `submit_action`, `reset`, `request_pause` | tool loop, delegations; server or TUI on the other side |
| Delegation `tools/delegation.py`, `subagents/` | the child process, its event stream | run a subagent in a process, relay its approvals, clarifications and pauses | UIProtocol, pipes |
| Background tasks `core/background_tasks.py` | task records, completed queue | launch, run, time out, cancel, drain, cleanup | server callback, tool loop |
| Plan and permission modes `core/plan_mode.py`, `core/permission_mode.py`, `core/tool_gating.py` | plan state, mode, mode of each session's store | enter, submit, approve, reject, gate, switch, synchronize | tool loop, store |
| Memory and store `memory/memory_manager.py`, `session/store/` | messages, deletion flags, compaction boundaries | add, compact (across an await), delete and restore turns, build the context | tool loop, writer |
| Ledger `session/persistence/`, `session/manager/hydrator.py` | JSONL files, scheduled writes | write and flush, drain and close, parse, hydrate | store |
| LLM backends `llm/` | none that lasts | stream a reply; classify errors and retry | tool loop |
| MCP `integrations/mcp/` | pipes; connections, registries, settings files, tools cache | connect, discover, invoke with a timeout, disconnect; toggle, hide, reload, install | tool executor, server, start-up task |
| Jira `integrations/jira/` | one connection of MCP's | connect, disconnect | MCP, server |
| Beads `claraity/claraity_beads.py` | tasks, claims, dependencies in SQLite | claim, close, defer, reopen, release, export and import | task tools, touch and release by the agent, several sessions in one database |
| Agent connection `claraity-vscode/src/stdio-connection.ts` | agent process, data socket, restart counter, flags, timers | connect, send, restart, disconnect, dispose; callbacks of process, socket and timers | the server |
| Rest of the VS Code extension | undo checkpoints, webview state | snapshot, undo, reduce | agent connection |
| Others | | hooks, execution checkpoints, knowledge base, skills, prompts, observability, validation harness, TUI | see "Not modelled" |

What is hard here:

* a coroutine that waits for the user shares slots with other coroutines, and
  Stop reaches it twice, through its future and through the task;
* callbacks (`asyncio` done callbacks, store notifications, task updates) run
  between the steps of those who caused them;
* a handler of the receive loop may replace the session, the mode or the store
  while a turn is suspended in an await;
* a response's calls are gated, asked about, run and stored in separate phases;
* the process may die between two lines of the ledger, or within one;
* timeouts race with late answers, and cancellation does not stop threads or
  processes;
* a request to an MCP server is matched to its answer by position in a pipe;
* two queues with a bound lie between the extension and a turn, and the loop
  that empties the first waits for room in the second;
* several processes share the task database, and each reads before it writes;
* a callback of the extension acts on the current agent process, which may not
  be the one it was set up for.

And what makes each part correct, in a sentence: nobody waits for an answer that
cannot come, and no call runs that the user did not approve (UIProtocol); a
stopped turn stops, and leaves nothing running (tool loop, delegation); each
result is reported, once (background tasks); what was flushed is what a resume
gives back, and memory is what the ledger says (ledger, store); plan mode changes nothing
but the plan, and the plan that is approved is the one that is carried out
(plan mode); each call has one result, a true one, next to it in every request, and a turn
ends (tool loop);
an answer belongs to its question, and a tool leads to a live client (MCP); a
task has one owner, and its history is true (Beads); messages keep their order,
an answered prompt is released, and a server without an extension ends (server);
starts are counted, and a live agent is not let go of (agent connection).

## The modules

| Module | Models | Composed of |
|---|---|---|
| `UIProtocol` | rendezvous, waits of the tool loop and of delegations, Stop | `MCUIProtocol` (instances), `UIProtocol_proofs` |
| `TaskLife` | abstract: the stages of a background command | |
| `BackgroundTasks` | registry, server's delivery, drain | refines `TaskLife`; `MCBackgroundTasks`, `BackgroundTasks_proofs` |
| `TranscriptLog` | abstract: an append-only log with a durable prefix | |
| `SessionLedger` | store, writer, file, parser, session switches | refines `TranscriptLog`; `MCSessionLedger`, `SessionLedger_proofs` |
| `PlanMode` | plan state, permission manager, store's mode, gate and phases | `MCPlanMode`, `PlanMode_proofs` |
| `ToolLoop` | budgets and phases of a turn, results in the context and in the store, compaction | `MCToolLoop`, `ToolLoop_proofs` |
| `McpTransport` | one MCP server over a pipe, calls of worker threads, timeouts | `MCMcpTransport`, `Mcp_proofs` |
| `McpConnections` | connections, registries, settings and tools cache; requests of the user and the start-up task | `MCMcpConnections`, `Mcp_proofs` |
| `ServerLoop` | stdin thread, receive loop, chat queue, main loop | `MCServerLoop`, `Stdio_proofs` |
| `Beads` | tasks, claims and releases of several sessions | `MCBeads`, `Beads_proofs` |
| `AgentConnection` | agent processes and what starts them | `MCAgentConnection`, `Stdio_proofs` |

In every module a definition `BugX` is a plausible wrong version of the
definition `X` after it. `Spec` does not use it; `PROJECT.json` names the property that
each one violates when it replaces `X`.

### UIProtocol

An action is what a coroutine does between two awaits. `at[c]` says where
coroutine `c` is: not running, running, gathering delegations, or in a slot of
`registry`, which stands for the dicts `_pending_approvals`,
`_pending_clarify`, `_pending_plan_approval` and the single `_pending_pause`.
`fut[c]` is the future it awaits. `WaitFor...` and `RequestPause` register,
`Submit...` are the branches of `submit_action`, `Wake...` are what a coroutine
does when it runs again: the `finally` that empties the slot by key and the
handler's reaction. Between the resolution and the wake-up anything may happen.

Stop is `UIProtocol.submit_action(InterruptSignal)` followed by the server's
`task.cancel()`. `CancelTask` and `cancelReq` follow asyncio: the
cancellation reaches a waiting coroutine in its future, a gathering one in the
coroutines it gathers, a running one at its next await. Some handlers turn it
into an answer, others let it pass; that difference is what the properties are about.

The parent's side of a delegation is here: a subagent asks for approvals,
clarifications and pauses, ends, is polled for the interrupt flag, or is
aborted. What the child does in between is any sequence of those.

### BackgroundTasks

`loc[t]` is the await at which `_run_command` is suspended; a cancellation is
met at the next one, or swallowed there. `completed` is the registry's queue,
`pending` with `timer` the server's debounced batch, `chatQueue` the queue of
turns. A result reaches the model as a notification or through `Drain`; `told`
counts. `TaskLife` is what that should amount to for each task: idle, running,
finished, and then told or dropped, in that order.

### SessionLedger

`store` is what memory holds, `pending` the writes that are scheduled, `file`
the lines on disk, `flushed` what `flush()` has promised, `tears` where in `flushed` a
crash has cut a line. `Write` is one line
and its flush; a crash may leave half a line (`partial`), and the next line is
then glued to it. `Loaded` and `DeletedIn` are the parser and the store's
replay. A session is switched in two steps, since the old writer is drained
across an await (`SwitchTo`, `Bind`). `TornWrites` and `SwitchMidTurn` switch
those behaviours of the environment on: with them the program violates the
properties named under "What disagrees", without them it has them. Resuming the session
that is already open is left out.

### PlanMode

The plan state, the permission manager and the store's mode are three copies of
one fact. `SetMode` is the user's switch, `BeginTurn` the synchronization from
the store, `Request`, `Submitted`, `ApprovePlan`, `RejectPlan`, `DismissPlan`
the submission of a plan and the answer to it. Phase A gates a response's calls
one by one (`Refuse`, `Pass`, `Ask`), B1 runs the plan requests, B2 the
others in any order; `Stop` leaves calls in their threads (`strays`), which take
effect later. A plan file is a version number. `Refuse` may refuse
anything: the repeat tracker and the command safety check are not modelled.

### ToolLoop

`store` is the message store, `context` what `stream_response` sends to the LLM;
a message is a role, the calls it makes (or the one it answers) and, as an
abstract value, the result. `at` is where the turn is: at the top of the loop,
at a prompt, in the request, between reply and Phase A (`replied`, `compact`,
`proceed`), in Phase A (`gate`, `approval`), B1 (`interact`), B2 (`tools`).
`Request` contains `_fix_orphaned_tool_calls` (`Fixed`, and what it adds to
the store). Each way a call can end is an action with its own writes:
`RefuseRepeat`, `Deny`, `RejectedWithFeedback`, `Rejected`, `StopApproval`,
`Interacted`, `StopClarify`, `PlanRejected`, `StopPlan`, `ToolSucceeds`,
`ToolFails` and `Collect`. `EndRejected` is the exit with `fill_skipped_tool_results`.
Stop is one action for each kind of handler it meets. `ArgumentsRaise` and
`CollectRaises` are the exceptions that only the `except` around the loop catches:
arguments that are valid JSON and not what the code takes them for raise in the gate,
in the clarify handler, or when a failed call is recorded. A reply's calls have ids
not used before; their arguments are `Sig`. Messages that touch no call and the
preprocessing of skills are left out. It shares no variable with `UIProtocol`, which
has the futures and the order of cancellations that this module abstracts
into the outcome of a wait.

### McpTransport

`call[r]` is where the coroutine of a request is in `send()`: scheduled, in the
queue of the lock, reading a line, or over; `worker[c]` is the thread that waits
for it with a timeout, and `cancelling` what a thread has cancelled and the
loop has not yet run. `pipe` holds the lines the server wrote, `taken[r]` the
line a request took for its answer. The ids in the lines are never compared, so
none appear. A read that is cancelled leaves its line to the next request: from
then on the connection is out of step (`InStep`), and stays so. The server is
external: it answers in any order or not at all, writes lines of its own, exits.

### McpConnections

Two coroutines change the connections: the receive loop, one request at a time,
and the task that connects everything when the server starts. Each keeps the
event loop until it awaits a client, so an operation is a frame with names to
drop and names to open: `Drop` and `Closed` are the two halves of `disconnect`,
`Open`, `Opened` and `OpenFails` those of `connect`. `CloseFails` is the `disconnect`
that raises, of a process that has ended by itself: `Catches` says which operations
go on after it, and the others end there, their settings saved, the tools cache as it
was and nothing opened again. The requests differ in what
they drop and open, in the settings they read (`Obj`, `Current`: the agent's, or
a manager just created from the files) and in whether they invalidate the tools
cache when something is gone or only when something has come. `wish` is what the
user's requests amount to, `overlap` that a request came while the task ran.

### ServerLoop

`pipe` is what the extension wrote, `stdinQ` and `chatQ` the two queues,
`putting` the message whose handler waits for room in the second. `Enqueue` is
`put_nowait` as the event loop runs it; a line for a full queue is lost, for the
exception is raised where nobody catches it. `TakeMessage` and `StartTurn` are
two steps, since `wait_for` wraps the `get()` in a task: a Stop between them is
wiped by `reset()`. `Refused` is a chat message that is empty or too large: it takes
its place in the stdin queue, and `RefuseChat` drops it. A turn here only runs, waits for an answer, or is cancelled.

### Beads

An operation that writes reads first, outside of a transaction (`Select`), and
then writes the row and its event (`Update`, `Claim`). `told[s]` are the tasks a
session has been told it claimed, `said[b]` what the last event tells; both are
history. `Shutdown` and `Release` are the two halves of `release_session`;
`raced` marks the tasks whose events such a release got wrong.

### AgentConnection

The fields of `StdioConnection`, the timers and listening sockets that may still
start an agent, and the life of each agent. A callback (`Exit`, `WriteError`,
`Listening`, `AutoTimer`, `ManualTimer`) acts on the fields as it finds them.
`starts` and `due` count starts since the restart count was last reset, and
those that were under way then.

## The runs

All bounds are constants in the `.cfg`. `CHECK_DEADLOCK FALSE` stands where the
system idles once its bounded messages or turns are used up; the runs of
`PlanMode`, which has none to use up, check deadlock.

| Run | Instance | States | Shows |
|---|---|---|---|
| `ui_parallel` | 2 delegations, 3 calls of 2 tools, 2 turns of 2 LLM calls, no iteration limit | 281 K | `WaitersRegistered`, `ApprovalsAreTheUsers`, `TurnLeavesNothingBehind`, `NoLLMCallAfterStop`, `StopEndsTurn` |
| `ui_pauses` | 1 delegation at a time, iteration limit, pauses with and without a timeout | 177 K | `NoPromptHangs` |
| `bg_delivery` | 2 commands for 1 slot, queue of 1, 2 messages | 33 K | `NothingLost`, `ReportedOnce`, `ImplementsTaskLife`, `LaunchedIsTold` |
| `ledger_whole` | 2 sessions, 5 messages, crashes between lines | 147 K | `StoreIsLedger`, `ReplayAgrees`, `ImplementsTranscriptLog` |
| `ledger_torn` | 2 sessions, 4 messages, torn lines, switches in a turn | 31 K | `LoadedIsPrefix`, `FlushedSurvives` |
| `plan_mode` | 2 sessions, 2 calls per response, started in auto mode | 1.48 M | `PlanTurnWritesNothing`, `PlanStateFollowsStore`, `AutoWasChosen` |
| `tool_loop` | 3 calls (2 the same, 1 interactive), replies of 2, 2 turns, limit 1, 1 Continue, compaction above 4 messages | 373 K | `RequestWellFormed`, `OneResultPerCall`, `ResultTrue`, `OrphansExplained`, `NoRepeat`, `TurnEnds` |
| `mcp_transport` | 3 calls on one pipe, 1 line of noise | 230 K | `OwnAnswer`, `LockFreed` |
| `mcp_connections` | 1 server in the settings and 1 to install, Jira, 1 tool, 5 clients, 3 requests | 405 K | `NothingDead`, `Settled`, `ClientsOwned`, `ToolsFresh` |
| `server_loop` | queues of 2, 3 chat messages (good or refused), 2 prompts, 1 Stop, 1 notification | 439 K | `AcceptedInOrder`, `PromptReleased`, `ServerStops` |
| `beads` | a task and an epic, 2 sessions, 5 writes | 683 K | `ClaimExclusive`, `NotOfferedTwice`, `AuditTruth` |
| `agent_connection` | 4 agents, a budget of 2, 1 manual restart, 1 message | 469 K | `StartsBudgeted`, `LiveAgentKept`, `Recovers` |

The `TypeOK` of every module is a theorem and no run checks it again.

Why the bounds are enough to see what matters:

* two delegations are the fewest that share a slot, three call ids let one of
  them be asked while two wait; a second turn meets what the first left behind,
  a second LLM call can follow Stop;
* two commands for one slot compete for it and for the batch; a queue of one is
  full after one message;
* five messages are a user message, a reply, a compaction (two) and one more, or
  a turn, its deletion, its restoration and its next message; two sessions are
  what a switch needs, and a third would only repeat the second;
* two calls per response give every order of an edit and a plan tool; the
  modes of a second session and of the program's start are the ones that could
  leak. `plan_mode` has one version of a plan because its properties do not
  look at versions;
* `tool_loop`: two calls of a reply are a rejected one and a skipped, answered
  or classified one; a second round (after the Continue) meets a repeat and a
  context with results, a second turn the repair of what the first left; four
  messages is the code's own minimum for a compaction, and a turn's repair and
  results come after one;
* `mcp_transport`: the handshake and three calls are a request that reads, one
  that waits for the lock and one that is cancelled; out of step needs two, and
  that the connection stays so a third. One line of noise is what breaks the step
  without a timeout;
* `mcp_connections`: three requests are a change of the settings, a reconnect and
  one that finds what they left, and one of them can overlap the task; five
  clients let one of them fail and its name be opened again;
* `server_loop`: a turn, the chat queue of two and the `put()` that waits are filled
  by three messages and the notification, the stdin queue behind it by answers and Stop;
* `beads`: a claim by one session against whatever another can do to the task in
  four more writes (close, reopen, start, defer, claim); only the task can be claimed
  and the epic is what blocks it;
* `agent_connection`: the agent there is, the one a restart starts, and one for each
  attempt of the budget.

Symmetry is used for sessions of the ledger and of plan mode, whose names
nothing looks at; the refinement and liveness runs have none.

### Fairness

`FairSpec` of `UIProtocol` lets the event loop run what can run and
subprocesses end or report (weak fairness of `MainProgress` and of each
`DelegateProgress`); Stop, timeouts, provider errors and the user's questions
are never promised. `AttentiveSpec` adds that the user answers a prompt which
stays on the screen; `StopEndsTurn` needs that because a clarify or plan prompt
cancelled by Stop may be followed by another prompt. `FairSpec` of
`BackgroundTasks` has each task's coroutine and its timeout go on, the debounce
timer fire, and turns begin and end; a command need not end by itself, its
timeout sees to that.
`AttentiveSpec` of `ToolLoop` has the loop, the LLM and the tools go on (a tool
has a timeout) and the user answer the prompts, whatever the answer: `TurnEnds`
says that retries and Continues cannot keep a turn alive. Stop and new messages
are never promised. `TransportFairSpec` of `McpTransport` lets the event loop run the
coroutines and the threads' timeouts run out, and promises nothing of the server:
a lock that is given back does not need an answer. `FairSpec` of `ServerLoop` has
the event loop run callbacks, handlers and turns; the user owes nothing, so that
`ServerStops` has to exempt a prompt that waits. `AgentFairSpec` of `AgentConnection`
has Node run its callbacks and an agent that was told to end do so; an agent's
first message is not promised. `SessionLedger`, `PlanMode`, `McpConnections` and
`Beads` have safety properties only.

## What disagrees with the documentation

Each of these is a definition that TLC refutes; no run keeps it. To see the
trace, give the `.cfg` the constants named and check that property alone.

1. `OnePauseActive` (`UIPauses.cfg` with `Delegates = {d1, d2}`,
   `CallIds = {k1, k2}`, `MaxTurns = 2`, `SPECIFICATION Spec`): two parallel
   delegations at their iteration limit are both in the one pause slot. The first
   one's future is never resolved. "Only one pause can be active at a time"
   (`core/protocol.py:180`); `wait_for_pause_response` overwrites the slot (288).
2. `NoRedelivery` (`BGDelivery.cfg`): a cancel between a task's timeout and the end of
   `communicate()` is swallowed at `core/background_tasks.py:366`, the task is
   queued again, and `_on_bg_task_update` returns before it removes the entry:
   the tool loop reports it a second time, which
   `server/stdio_server.py:2871` says cannot be.
3. `FlushedIsLoaded` (`LedgerTorn.cfg`): a write cut short leaves half a line; the
   next append is glued to it (`session/persistence/writer.py:319`), and what was
   flushed since is lost at the resume after the next, though "after flush()
   returns, data survives PROCESS CRASH" (`writer.py:10`). `FlushedSurvives`,
   which is checked and proved, says that nothing else that was flushed is lost.
4. `SessionsSeparate` (`LedgerTorn.cfg`, also with `TornWrites = FALSE`): a turn that
   runs when the user opens another session goes on in that session's transcript
   (`server/stdio_server.py:935`). No handler looks at whether a turn runs, so
   that no property is checked of this hazard.
5. `ApprovedPlanIsSaved` (`PlanMode.cfg` with 1 session, 2 versions, `Spec`): of a
   response that edits the plan and requests its approval the old plan is
   approved and the edit runs after (`core/agent.py:2699`).
6. `OpensFromJsonl` (`Beads.cfg` with `MaxOps = 1`): a clone has the exported file and
   no database; `BeadStore()` calls `import_jsonl`, which calls `BeadStore()` for
   the same path (`claraity/claraity_beads.py:200`, 875), until Python stops it.
7. `NoDoubleRestart` (`AgentConnection.cfg`): `restart()` sets the flag for the exit
   of the agent it kills ("Don't double-restart", `stdio-connection.ts:323`) and
   resets it before that exit is reported (340). The exit uses up an attempt and
   tears down the agent that was started meanwhile.
8. `CacheInvalidated` (`McpConnections.cfg`): `terminate()` of an MCP server that has
   ended by itself raises out of `disconnect()` (`integrations/mcp/client.py:294`), after
   its tools are unregistered and before the caller's `_invalidate_tools_cache()`
   (`server/stdio_server.py:1529`, `core/agent.py:1095`, 1339). The tools stay in the
   cache and are offered, though it says "call _invalidate_tools_cache() when tools
   change" (`core/agent.py:1025`). A dropped connection that cannot be opened again does
   the same. `ToolsFresh`, which is checked and proved, says that nothing else does,
   and that no tool there is is missing.

Met while modelling, and not stated as properties of their own:

* Stop while a subagent's pause prompt waits becomes an answer, and
  `_handle_pause_request` clears the interrupt flag: the turn goes on
  (`NoLLMCallAfterStop` fails with the iteration limit; the comment at
  `server/stdio_server.py:351` promises immediate interruption).
* A call refused as a repeat has its result in the turn's context only; the
  next turn says "Tool call was interrupted." `OrphansExplained` exempts exactly
  those calls.
* An exception that malformed arguments raise ends the turn after its reply is
  stored: `[1]` for an object at `core/error_recovery.py:125`, `{"command": null}`
  at 166 when the call has failed, a list of questions that is a number in the
  clarify handler. The calls of the reply that have no result yet get none, those that
  ran included, and the next turn says "Tool call was interrupted." (`cut`, in
  `OrphansExplained` and `ResultTrue`).
* Stop in `_execute_tools_parallel` loses the results of the tools that had
  finished; the next turn calls them interrupted (`cut`, in `ResultTrue`).
* Compaction runs between a reply and the results of its calls: the summarizer
  sees them as interrupted, the results come after the boundary without their
  reply, and the next turn drops them.
* Unreachable code: storing a partial reply after a provider error
  (`response_content` is still empty), the timeout of an approval (it waits with
  none), the error budget pause (`should_allow_retry` always allows).
* Stop at a clarify or plan prompt ends the prompt, but the other tools of the
  same response still run; `reset()` keeps the auto-approve set.
* A cancelled background command's process is not killed and gives its slot free.
* Messages added between `set_message_store` and the binding of the new writer
  are in the store only (`StoreIsLedger` fails when `SwitchMidTurn` is TRUE).
* A session resumed in plan mode before its plan was submitted has no plan path:
  `request_plan_approval` answers "Not in plan mode", `enter_plan_mode`
  "Already in plan mode". Resuming another session while both are in
  plan mode keeps the first one's path.
* `set_permission_mode` to the mode the manager already has is not stored, so
  the next turn takes the store's mode; the mode the program was started with
  is overridden in the same way at the first turn.
* The refusal of `approve()` is ignored; `enter()` keeps a pending approval;
  rejecting a plan after a mode switch at its prompt undoes the switch.
* An edit gated before an `enter_plan_mode` or a mode switch at a later call's
  prompt still runs: `bound`, in `PlanMode`, begins with the next response.
* A line written while a turn was deleted carries `meta.deleted` and the event
  comes later (`writer.py:209`): a crash between them leaves a turn half deleted.
  `delete_turn` on the running turn flags only the messages it has so far.
* MCP: the id of an answer is never compared, so that after one timeout each call
  gets the answer of the one before (`client.py:247`), until the process is replaced.
* MCP connections: a request that overlaps the start-up task loses its settings
  when the task leaves its own to the agent, may open a name the task is opening
  and lose a client that runs, and may leave hidden tools in the executor
  (`Settled` and `ClientsOwned` exempt `overlap`). A failed reconnect or change of
  tools keeps the cache of tools that are gone (`stale`, in `ToolsFresh`); one that meets
  a server that has ended never opens it again until the next request. A handshake
  that fails leaves its process (`failed`). Reload drops Jira, which is in no settings.
  A stdio server that does not answer the handshake blocks the receive loop, which
  awaits it without a timeout. `manager.shutdown()` is not called when the server ends.
* Server: a Stop before the streaming task exists is wiped by `reset()` (2933), and
  one that is read late may cancel the next turn. A line for a full stdin queue is
  lost, the end of file included. A `put()` into a full chat queue keeps the receive
  loop from the answer the running turn waits for: nothing goes on (`Jammed`). A
  prompt has no timeout (`agent.py:2565`), so that a server whose window is closed
  while one waits never ends; chats queued before still run.
* Beads: a stale claim is offered by `task_list` and refused by `task_update claim`;
  a claim as "agent", the default, claims nothing; a claimed task that was closed and
  reopened stays its owner's, is not offered, and cannot be claimed, not even by the
  owner. Nothing
  makes a deferred task open again when its date comes, though `defer_until` is
  described so (`knowledge_tools.py:815`). `touch` keeps the first task in progress
  fresh, whoever has it. Cycles of dependencies are not looked for. A release that
  races with a tool call of the same session writes events that are not true. The
  export reads its tables one after the other.
* Agent connection: the exit of an old agent tears down the connection to the
  current one; two overlapping `connect()` calls start two agents and keep one; a
  failed write and the exit of one agent use up two attempts; `restart()` followed
  by `dispose()` within half a second starts an agent; the flag of `disconnect()` stays
  until a restart; a `spawn` that raises schedules nothing; `socketBuffer` is not
  cleared between agents. No test covers this file.

## What is proved

All 25 invariants and all action properties and refinements that the runs check are
theorems; what is left to TLC alone is liveness. Every theorem is of the form
`Spec => ...` and rests on the `ASSUME` of its module only: types of constants,
`Main` and `Nobody` outside `Delegates`, `NoSession` outside `Sessions`, `Agent` and
`None` outside sessions and tasks, `Jira` not among the servers, calls distinct from
the handshake and from noise. `UIProtocol_proofs` states two further assumptions in
the theorems themselves; the calls of a `ToolLoop` are any set.

Two proof modules are about two components each: `Mcp_proofs` extends
`McpConnections` and `McpTransport`, `Stdio_proofs` extends `ServerLoop` and
`AgentConnection`, the two ends of the connection. The second of each pair names its
specification for that: `TransportInit`, `TransportNext`, `TransportSpec` and
`AgentInit`, `AgentNext`, `AgentSpec`.

| Module | Theorem | For every |
|---|---|---|
| `UIProtocol_proofs` | `TypeCorrect`, `TurnEndsClean`, `NoForgedApproval` | set of delegations, calls, tools; any limits |
| | `WaitersAnswerable` | the same, if at most one delegation can pause (`OnePauser`) |
| | `StopPreventsLLMCalls` | the same, without an iteration limit |
| `BackgroundTasks_proofs` | `TypeCorrect`, `ResultsDelivered`, `NoOrphanProcess`, `NoDoubleReport`, `TasksHaveTheirLife` (refinement of `TaskLife`) | set of commands, slots, queue size |
| `SessionLedger_proofs` | `TypeCorrect`, `LoadsAPrefix`, `FlushSurvivesCrash` | sessions, messages, torn lines and switches included |
| | `ImplementsLog` (refinement of `TranscriptLog`) | without torn lines |
| | `StoreFollowsLedger`, `ResumeTellsTheSame` | without torn lines and without switches in a turn |
| `PlanMode_proofs` | `TypeCorrect`, `PlanTurnHarmless`, `PlanStateStored`, `AutoIsChosen` | sessions, calls per response, versions |
| `ToolLoop_proofs` | `TypeCorrect`, `RequestsWellFormed`, `NoSecondResult`, `ResultsTrue`, `NothingElseOrphaned`, `BudgetHolds`, `FailuresStayBlocked` | set of calls, limits, number of turns |
| `Mcp_proofs` | `ConnectionTypes`, `NothingDeadFound`, `NoClientLost`, `ToolsOffered`, `EverythingSettles` | servers, tools, clients, requests |
| | `TransportTypes`, `OneReaderCorrect`, `OwnAnswerCorrect`, `StaysOutOfStepCorrect` | set of calls, lines of noise |
| `Beads_proofs` | `TypeCorrect`, `ClaimExclusiveCorrect`, `NotOfferedTwiceCorrect`, `AuditTruthCorrect` | tasks, epics, sessions, number of operations |
| `Stdio_proofs` | `LoopsTyped`, `MessagesInOrder` | sizes of the queues, messages, prompts, Stops |
| | `AgentTypes`, `StartsBudgetedCorrect`, `LiveAgentKeptCorrect` | agents, budget, restarts, messages |

The conditions of the ledger's theorems and `OnePauser` are those without which
TLC refutes the properties (1, 3 and 4 above).

`OnlyFinishedReported`, `NoProcessLeft`, `RequestsBounded`, `OneReader` and
`StaysOutOfStep` are stated by theorems and checked by no run.

The arguments, and why the invariants need strengthening:

* *UIProtocol.* A slot is emptied by key, so `WaitersRegistered` alone is not
  inductive: nothing says that the waker owns the slot. `RegisteredWaits` (who
  is registered waits there), `KeysAsked` (a key in use was asked) and
  `OneWaiterPerSlot` give that; the fresh call id of each question keeps a new
  waiter out of an old slot, and `OnePauser` does the same for the slot without a
  key. `TurnEndsClean` follows from `DelegatesGathered`: a delegation that runs
  has Main gathering it. `NoForgedApproval` adds `YesIsTheUsers`, that a future
  resolved with yes was resolved by the user. `StopPreventsLLMCalls` is an
  action property from the invariant that a turn with `stop` set still has
  the flag.
* *BackgroundTasks.* `ResultsDelivered` is inductive as one conjunction: what is
  reported has finished, and what has finished is somewhere. The refinement goes
  task by task: each step leaves a task's stage or moves it to a later one;
  the order of awaits in `_run_command` (`Coroutines`) is the invariant behind
  it and behind `NoOrphanProcess`. `ReportedOnce` counts reports in four places;
  `Once` says besides that a task has its verdict exactly when it is in
  `delivered`, and that a coroutine that goes on after the verdict was cancelled
  and can only meet its `CancelledError` or the timeout it had already hit, which
  is the one second report that is allowed.
* *SessionLedger.* `LInv` is the type invariant, that the good lines of a file
  are a prefix of `flushed` (`FileInv`), and that ids are bounded. `FileInv` also
  says where the good lines end: at the end of the file, and then all that was flushed is
  there and the last line is whole, or at one of the `tears`; only so is
  `FlushedSurvives` inductive through a write that is glued to half a line. `Whole` adds
  that no file has a bad line, from which `Loaded = flushed`; `StoreInv` says
  that the store is the loaded lines followed by the pending ones also while
  a switch waits. The refinement follows from those: `Transcript` grows only at its end.
  `ReplayAgrees` compares flags that are set as turns are undone with flags that
  are replayed from the lines, in which a later message may flip an earlier one.
  Neither determines the other state by state, so the invariant is about each
  message (`FlagInv`): the last flip after it in the store decides its flag in memory, and without one
  the flag its line was written with. `IdsInv`, that ids are given out once
  over all transcripts, keeps a flip from hitting another message; where nothing
  is pending, the two contexts are then the same function of the same store.
* *PlanMode.* `TInv` and `Flags` are the types and the shape of a turn (in which
  phase which sequences are empty). `BoundInv`: in a turn that is bound, an edit
  that passed the gate cannot be left among the executable calls. `StoreInv`
  relates plan state and store in each phase, with the submission in between;
  `AutoInv` says that a store in auto mode belongs to a session whose user chose it.

* *ToolLoop.* `RequestsBounded` says nothing of how requests come about:
  `Counted` adds that those since the last Continue are among the iterations,
  and that a pause is reached below the cap only. `Screened` is what `NoRepeat`
  needs: failures are in the tracker, and what Phase A let through is not, up to
  the run, since failures are recorded only after it.
  What the conversations say is one invariant, `IInv`, since none of its parts is
  inductive alone. That no call gets a second result (`StoreSound`) needs to know
  which calls of the round have one: those with an entry in `resolved` other than
  a repeat (`RoundSound`), and that a call of the round is in one of the phases'
  lists or resolved, never both (`RoundShape`). Compaction and the next turn
  rebuild the context from the store, so `ContextSound` says that the context knows no call the store
  does not, and lacks no result the store has of a call it knows: only so is an
  "interrupted" that `_fix_orphaned_tool_calls` adds never told of a call that
  ran, but for those a Stop or an exception has cut (`ResultTrue`). An exception while
  outcomes are stored leaves a prefix of them, of which injectivity and `Told` say what
  they say of the whole (`PrefixProperties`). `RequestWellFormed` holds of
  whatever context there is: it is proved of the repair itself, by lemmas about what `Those`,
  `FlattenSeq` and `Fixed` return.
* *McpConnections.* `NothingDead` needs to know where clients in transit are:
  one that is being opened or closed is nowhere to be found (`Apart`), has one
  coroutine (`Clear`), and a connected one is the connection of one name, with
  the tools it has registered (`OneName`), so that dropping a name takes away all
  that leads to its client. `ClientsOwned` adds `Sole`: without overlap one
  coroutine works at a time and opens only what is not connected. `ToolsFresh` is
  about rest; in between, a cache that is behind belongs to an operation
  that will yet invalidate it (`Pending` in `FreshInv`), for which `Doing` says which kinds of operation
  there are and that the ones that never invalidate drop nothing; and a cache that lacks a
  tool belongs to one that has opened a connection and not come to its end (`Adding` in
  `CoverInv`). An operation that a failing close ends must have nothing left to drop:
  only a reload drops more than one name, and goes on (`OneDrop`). `Settled` is
  the longest: `SettingsInv` (whoever holds settings holds those of the files),
  `WishInv` (the files say what the user asked for, or will when an uninstallation
  has dropped the connection), `OpenInv` (what an operation is still to open is
  enabled, and the tools it hides are those the user hid) and `ToolsInv` (what is connected and not
  to be dropped has the tools that are not hidden), all only as long as no request overlaps the task.
* *McpTransport.* `OneReader` needs that nothing is asked before the process is
  there (`NotStarted`). `OwnAnswer` is about steps: `Once` says that each request
  is in at most one of the places where its answer can be (outstanding, or once in the pipe),
  so that in step the first line of the pipe is the reader's.
* *Beads.* `ClaimExclusive` becomes inductive with the types: only `Claim` and
  `Release` change an assignee, the first from "agent" and the second for a session
  that has ended and is told nothing. `NotOfferedTwice` follows from it, since an open
  task is offered only when nobody has it. `AuditTruth` goes with the transaction of
  row and event, and with `raced` for a release.
* *ServerLoop.* `AcceptedInOrder` lets the message that waits in `put()` be
  anywhere or nowhere; `InOrder` says that it is one and where: behind the
  chat queue and before the stdin queue. That a stopped main loop stays stopped needs
  `TaskInv`: there is a task only during a turn. The rest is algebra of sequences:
  what `ChatsOf` gives for a queue that grew at its end or lost its head.
* *AgentConnection.* `StartsBudgeted` is inductive once the handle of `dispose()` is
  known to be one of the timers (`HandleIsATimer`): taking one away keeps the balance.
  `LiveAgentKept` needs that a failed write was to an agent that has died
  (`UnsentIsDead`) and that the current one was born.

Each step of these proofs is one action of `Next`; type correctness is proved
in groups of variables.

Out of the prover's reach and left to TLC: liveness under fairness
(`StopEndsTurn`, `NoPromptHangs`, `LaunchedIsTold`, `TurnEnds`, `LockFreed`,
`PromptReleased`, `ServerStops`, `Recovers`) and anything with ENABLED.

Recursion and induction: no module uses RECURSIVE. What a recursive function
computes (`Those` and `FlattenSeq` in `ToolLoop`, `ChatsOf` in `ServerLoop`) is proved
by an induction over sets: the library's induction theorems take an operator
as a parameter and cannot be instantiated, but the set of lengths for which a
claim holds contains 0 and with each number the next, and so is `Nat`
(`Induction`, `AllNaturals`, from the well-foundedness of `<`). The same argument
shows first that the recursive definition defines a function.

## Not modelled, and why

* External: the LLM, the user, commands, subprocesses and the file system are
  nondeterministic actions. Threads are atomic but for what Stop leaves behind.
* In the modelled parts: auto-approve categories, edits of a plan file by hand,
  the drain timeout of the writer, failing writes, snapshots, rewinding, the TUI's
  own delivery of background results. A plan session is resumed only between turns.
  The SSE and SDK transports of MCP, its policy gate and OAuth tokens; installing a
  server again that is in the settings, which the panel does not offer. Notes,
  references, metadata and parents of tasks. The response timer of the extension.
* Sequential translation of data: providers, streaming pipeline, context builder,
  prompts, skills, serializers, formatters, parsers of tool output.
* Plain storage or I/O: knowledge base, listing of session files, execution checkpoints, credentials,
  configuration, observability, individual tools.
* Harnesses: orchestration, validation, testing.
* Hooks: user callbacks run around one call, without state between calls.

## Plan

What is left, in order of what matters most to a user of the agent:

1. `ToolLoop` further: an abstract `Transcript` of calls and results that the
   store refines.
2. `SubagentIPC`: the two halves of the pipe between a delegation and its child;
   blocking reads, EOF as rejection, limits, SIGTERM. Every request gets one
   answer, a child ends when its parent does. Composed with the delegation's
   states of `UIProtocol`.
3. `TurnUndo` of the extension: an undone turn restores what was there before it.
4. More proofs: action properties that no run states yet, as that the user's
   requests alone change `wish`, and that a served message is never served again.

A run is spent on each distinct question; a property that TLC refutes stays a
definition, with its trace described above.
