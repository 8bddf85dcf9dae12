--------------------------- MODULE AgentConnection ---------------------------
(***************************************************************************)
(* The extension's end of the connection                                    *)
(* (claraity-vscode/src/stdio-connection.ts): one object that starts agent  *)
(* processes, notices that they end, and starts the next one.               *)
(*                                                                          *)
(* The extension host runs one callback at a time, but a callback belongs   *)
(* to the agent that was current when it was set up and is not told whether *)
(* that agent still is: a timer, the listening socket, the exit of a        *)
(* process and a failed write each act on this.process as they find it.     *)
(*                                                                          *)
(* Of an agent's messages the first one matters, which ends a series of     *)
(* failed starts.  The response timer, which only shows a message, is left  *)
(* out.                                                                     *)
(* A definition named Bug... is the mutant of the definition after it.      *)
(***************************************************************************)
EXTENDS Naturals, FiniteSets

CONSTANTS
  MaxRestarts,  \* MAX_RESTART_ATTEMPTS
  MaxAgents,    \* bound: processes started
  MaxManual,    \* bound: manual restarts
  MaxMessages   \* bound: messages sent

ASSUME AgentAssumption ==
  /\ MaxRestarts \in Nat /\ MaxAgents \in Nat /\ MaxManual \in Nat /\ MaxMessages \in Nat

Agents == 1 .. MaxAgents   \* in the order they are started
Nobody == 0

VARIABLES
  process,      \* this.process
  server,       \* this.tcpServer is not null
  dataSocket,   \* the agent this.dataSocket leads to
  listening,    \* calls of connect() whose server does not listen yet
  autoTimers,   \* timers of maybeAutoRestart that run
  handle,       \* _restartTimer is not null: it is the newest of these
  manualTimers, \* timers of restart() that run
  count,        \* _restartCount
  intentional,  \* _intentionalDisconnect
  disposed,     \* _disposed
  offered,      \* a message offers to restart
  life,         \* an agent: unborn, unfit (it cannot be started), quiet, ready, dead, over
  online,       \* agents whose data socket is open
  told,         \* agents told to end: killed, or their stdin closed
  unsent,       \* failed writes to an agent whose callback has yet to run
  broken,       \* history: a start failed and nothing was set up to retry it
  starts,       \* history: agents started since the count was last reset
  due,          \* history: starts that were under way then
  manual, messages \* how many so far

timerVars   == <<listening, autoTimers, handle, manualTimers, count, offered>>
flagVars    == <<intentional, disposed>>
socketVars  == <<process, server, dataSocket, online>>
historyVars == <<broken, starts, due>>
boundVars   == <<manual, messages>>
agentVars   == <<timerVars, flagVars, socketVars, historyVars, boundVars, life, told, unsent>>

Alive(a) == life[a] \in {"quiet", "ready"}

\* What may still start an agent.
UnderWay == autoTimers + manualTimers + listening

\* The extension is activated: connect() has been called.
AgentInit ==
  /\ process = Nobody /\ server = TRUE /\ dataSocket = Nobody /\ online = {}
  /\ listening = 1 /\ autoTimers = 0 /\ handle = FALSE /\ manualTimers = 0
  /\ count = 0 /\ offered = FALSE
  /\ intentional = FALSE /\ disposed = FALSE
  /\ life = [a \in Agents |-> "unborn"] /\ told = {} /\ unsent = [a \in Agents |-> 0]
  /\ broken = FALSE /\ starts = 0 /\ due = 1
  /\ manual = 0 /\ messages = 0

-----------------------------------------------------------------------------
\* cleanup(): whatever the fields hold by now.
Cleanup ==
  /\ process' = Nobody /\ server' = FALSE /\ dataSocket' = Nobody
  /\ online' = online \ {dataSocket}

\* maybeAutoRestart().  The mutant forgets to count the attempt.
BugMaybeAutoRestart ==
  /\ autoTimers' = IF disposed \/ intentional \/ count >= MaxRestarts THEN autoTimers ELSE autoTimers + 1
  /\ UNCHANGED <<listening, manualTimers, handle, count, offered>>

MaybeAutoRestart ==
  /\ IF disposed \/ intentional
     THEN UNCHANGED <<autoTimers, handle, count, offered>>
     ELSE IF count >= MaxRestarts
     THEN offered' = TRUE /\ UNCHANGED <<autoTimers, handle, count>>
     ELSE /\ count' = count + 1 /\ autoTimers' = autoTimers + 1 /\ handle' = TRUE
          /\ UNCHANGED offered
  /\ UNCHANGED <<listening, manualTimers>>

\* connect()
Connect ==
  IF process # Nobody
  THEN UNCHANGED <<listening, server>>
  ELSE listening' = listening + 1 /\ server' = TRUE

AutoTimer ==
  /\ autoTimers > 0 /\ autoTimers' = autoTimers - 1 /\ handle' = FALSE
  /\ IF disposed THEN UNCHANGED <<listening, server>> ELSE Connect
  /\ UNCHANGED <<manualTimers, count, offered, flagVars, process, dataSocket, online,
                 historyVars, boundVars, life, told, unsent>>

\* The timer of restart() asks nothing.
ManualTimer ==
  /\ manualTimers > 0 /\ manualTimers' = manualTimers - 1
  /\ Connect
  /\ UNCHANGED <<autoTimers, handle, count, offered, flagVars, process, dataSocket, online,
                 historyVars, boundVars, life, told, unsent>>

Unborn == {a \in Agents : life[a] = "unborn"}

\* The callback of listen(): a process is started, or spawn() raises, or cleanup()
\* has come between, and reading the port of no server raises.
Listening ==
  /\ listening > 0 /\ listening' = listening - 1
  /\ \/ /\ server
        /\ \E a \in Unborn, fit \in {"quiet", "unfit"} :
             /\ \A b \in Unborn : a <= b
             /\ process' = a /\ life' = [life EXCEPT ![a] = fit]
        /\ starts' = starts + 1
        /\ UNCHANGED broken
     \/ broken' = TRUE /\ UNCHANGED <<process, life, starts>>
  /\ UNCHANGED <<autoTimers, handle, manualTimers, count, offered, flagVars, server, dataSocket,
                 online, due, boundVars, told, unsent>>

-----------------------------------------------------------------------------
(* The agent processes (server/stdio_server.py).                            *)

\* It connects to the port it was given, or ends when nobody listens there.
Online(a) ==
  /\ life[a] = "quiet" /\ a \notin online /\ server
  /\ online' = online \cup {a} /\ dataSocket' = a
  /\ UNCHANGED <<timerVars, flagVars, process, server, historyVars, boundVars, life, told, unsent>>

\* It ends: by itself, at any time, or because it was told to.  Its socket closes.
Die(a) ==
  /\ Alive(a)
  /\ life' = [life EXCEPT ![a] = "dead"]
  /\ online' = online \ {a}
  /\ dataSocket' = IF a \in online THEN Nobody ELSE dataSocket
  /\ UNCHANGED <<timerVars, flagVars, process, server, historyVars, boundVars, told, unsent>>

\* It has been told to, or found nobody to connect to.
Leaves(a) == (a \in told \/ (life[a] = "quiet" /\ a \notin online /\ ~server)) /\ Die(a)

\* The first message of an agent.
FirstMessage(a) ==
  /\ life[a] = "quiet" /\ a \in online
  /\ life' = [life EXCEPT ![a] = "ready"]
  /\ count' = 0 /\ starts' = 0 /\ due' = UnderWay
  /\ UNCHANGED <<listening, autoTimers, handle, manualTimers, offered, flagVars, socketVars,
                 broken, boundVars, told, unsent>>

-----------------------------------------------------------------------------
(* What the extension is told of an agent, current or not.                  *)

\* 'exit'; or 'error', of a process that could not be started.  The mutant does not
\* try again.
BugExit(a) ==
  /\ life[a] \in {"dead", "unfit"}
  /\ life' = [life EXCEPT ![a] = "over"]
  /\ Cleanup
  /\ UNCHANGED <<timerVars, intentional, disposed, historyVars, boundVars, told, unsent>>

Exit(a) ==
  /\ life[a] \in {"dead", "unfit"}
  /\ life' = [life EXCEPT ![a] = "over"]
  /\ Cleanup /\ MaybeAutoRestart
  /\ UNCHANGED <<flagVars, historyVars, boundVars, told, unsent>>

\* The callback of stdin.write() with an error.
WriteError(a) ==
  /\ unsent[a] > 0 /\ unsent' = [unsent EXCEPT ![a] = @ - 1]
  /\ Cleanup /\ MaybeAutoRestart
  /\ UNCHANGED <<flagVars, historyVars, boundVars, life, told>>

-----------------------------------------------------------------------------
(* The user, and VS Code.                                                   *)

\* send() of a chat message; one to a process that has died fails later.
Send ==
  /\ messages < MaxMessages /\ messages' = messages + 1 /\ ~disposed
  /\ IF process = Nobody
     THEN MaybeAutoRestart /\ UNCHANGED unsent
     ELSE /\ unsent' = IF Alive(process) THEN unsent ELSE [unsent EXCEPT ![process] = @ + 1]
          /\ UNCHANGED timerVars
  /\ UNCHANGED <<flagVars, socketVars, historyVars, manual, life, told>>

Tell == told' = told \cup ({process} \ {Nobody})

\* disconnect(): the flag stays until a manual restart.
Disconnect ==
  /\ process # Nobody /\ ~disposed
  /\ intentional' = TRUE /\ Tell
  /\ UNCHANGED <<timerVars, disposed, socketVars, historyVars, boundVars, life, unsent>>

\* restart(): "Don't double-restart" is set, and reset before the exit it is for.  The
\* mutant does not kill the process it lets go of.
BugRestart ==
  /\ manual < MaxManual /\ manual' = manual + 1 /\ ~disposed
  /\ count' = 0 /\ intentional' = FALSE
  /\ IF process # Nobody THEN Cleanup ELSE UNCHANGED socketVars
  /\ manualTimers' = manualTimers + 1
  /\ offered' = FALSE
  /\ starts' = 0 /\ due' = UnderWay + 1
  /\ UNCHANGED <<listening, autoTimers, handle, disposed, broken, messages, life, told, unsent>>

Restart ==
  /\ manual < MaxManual /\ manual' = manual + 1 /\ ~disposed
  /\ count' = 0 /\ intentional' = FALSE
  /\ Tell
  /\ IF process # Nobody THEN Cleanup ELSE UNCHANGED socketVars
  /\ manualTimers' = manualTimers + 1
  /\ offered' = FALSE
  /\ starts' = 0 /\ due' = UnderWay + 1
  /\ UNCHANGED <<listening, autoTimers, handle, disposed, broken, messages, life, unsent>>

\* dispose(): it clears the timer it has the handle of.
Dispose ==
  /\ ~disposed /\ disposed' = TRUE /\ intentional' = TRUE
  /\ autoTimers' = IF handle THEN autoTimers - 1 ELSE autoTimers
  /\ handle' = FALSE
  /\ Tell /\ Cleanup
  /\ UNCHANGED <<listening, manualTimers, count, offered, historyVars, boundVars, life, unsent>>

-----------------------------------------------------------------------------
Callback ==
  \/ AutoTimer \/ ManualTimer \/ Listening
  \/ \E a \in Agents : Exit(a) \/ WriteError(a)

AgentNext ==
  \/ Callback
  \/ \E a \in Agents : Online(a) \/ Die(a) \/ FirstMessage(a)
  \/ Send \/ Disconnect \/ Restart \/ Dispose

AgentSpec == AgentInit /\ [][AgentNext]_agentVars

\* Node runs its callbacks, and an agent that was told to end does.
AgentFairSpec ==
  /\ AgentSpec
  /\ WF_agentVars(AutoTimer) /\ WF_agentVars(ManualTimer) /\ WF_agentVars(Listening)
  /\ \A a \in Agents : WF_agentVars(Exit(a)) /\ WF_agentVars(WriteError(a)) /\ WF_agentVars(Leaves(a))

-----------------------------------------------------------------------------
AgentTypeOK ==
  /\ process \in Agents \cup {Nobody} /\ dataSocket \in Agents \cup {Nobody}
  /\ server \in BOOLEAN /\ handle \in BOOLEAN /\ offered \in BOOLEAN /\ broken \in BOOLEAN
  /\ intentional \in BOOLEAN /\ disposed \in BOOLEAN
  /\ listening \in Nat /\ autoTimers \in Nat /\ manualTimers \in Nat
  /\ count \in 0 .. MaxRestarts
  /\ life \in [Agents -> {"unborn", "unfit", "quiet", "ready", "dead", "over"}]
  /\ online \in SUBSET Agents /\ told \in SUBSET Agents
  /\ unsent \in [Agents -> Nat]
  /\ starts \in Nat /\ due \in Nat /\ manual \in Nat /\ messages \in Nat

\* Agents that fail before their first message are not started for ever: each start
\* since the count was reset was under way then or is one of the attempts counted
\* since ("Max auto-restart attempts before giving up", stdio-connection.ts:33),
\* however exits, write errors, timers and manual restarts follow each other.
StartsBudgeted == starts + UnderWay <= due + count

\* An agent the connection has lost is started again, or the user is offered to, or
\* has disconnected himself; but for a start that raised.
Recovers ==
  (process = Nobody) ~> (process # Nobody \/ offered \/ intentional \/ broken \/ Unborn = {})

\* A live agent is let go of when it was told to end, and otherwise only for what is
\* reported of another agent or because two calls of connect() overlap: the late exit
\* of the one before.  Nothing else leaves an agent running that nobody can reach.
LiveAgentKept ==
  [][process # Nobody /\ Alive(process) /\ process' # process
       => \/ process \in told'
          \/ \E b \in Agents \ {process} : life'[b] # life[b] \/ unsent'[b] # unsent[b]
    ]_agentVars

\* "Don't double-restart" (stdio-connection.ts:323): the exit of an agent that was
\* killed for a manual restart is not taken for a failure of the next one.
NoDoubleRestart ==
  [][\A a \in told : (life[a] = "dead" /\ life'[a] = "over") => autoTimers' = autoTimers]_agentVars

=============================================================================
