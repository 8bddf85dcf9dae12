---------------------------- MODULE McpTransport ----------------------------
(***************************************************************************)
(* One MCP server over a stdio pipe: StdioTransport and McpClient           *)
(* (integrations/mcp/client.py), the discovery of its tools (registry.py)   *)
(* and the tool calls the agent's worker threads make through it            *)
(* (bridge.py).  Requests of all of them share one pipe, one after another  *)
(* under _send_lock; the line a request reads is taken for its answer       *)
(* whatever id it bears.  A worker that has waited invoke_timeout cancels   *)
(* its coroutine, which may be waiting for the lock or for the line.  The   *)
(* server is external: it answers what it was asked in any order, or never, *)
(* writes lines nobody asked for, and may exit.                             *)
(*                                                                          *)
(* A definition named Bug... is the mutant of the definition after it.      *)
(***************************************************************************)
EXTENDS Naturals, SequencesExt

CONSTANTS
  Calls,    \* tool calls, each made once by a worker thread
  MaxNoise  \* bound: lines the server writes that answer nothing

Handshake == {"initialize", "tools/list"}
Requests  == Handshake \cup Calls
Noise     == {"notification", "log"}

\* No answer yet.
None == "none"

ASSUME TransportAssumption ==
  /\ MaxNoise \in Nat
  /\ Calls \cap (Handshake \cup Noise \cup {None}) = {}

VARIABLES
  process,     \* the server: not started, running, exited, or disconnected from
  call,        \* the coroutine of a request: where it is in send()
  worker,      \* the thread of a call
  cancelling,  \* calls whose cancellation the loop has yet to run
  queue,       \* _send_lock._waiters
  outstanding, \* what the server has been asked and not answered
  pipe,        \* lines written by the server and not read: requests or noise
  taken,       \* the line a request read as its answer
  noise        \* lines of noise so far

transportVars == <<process, call, worker, cancelling, queue, outstanding, pipe, taken, noise>>

CallStates == {"idle", "scheduled", "queued", "reading", "answered", "failed", "cancelled"}

\* The request that holds _send_lock, if any.
Reading == {r \in Requests : call[r] = "reading"}

TransportInit ==
  /\ process = "none"
  /\ call = [r \in Requests |-> "idle"]
  /\ worker = [c \in Calls |-> "idle"]
  /\ cancelling = {}
  /\ queue = <<>> /\ outstanding = {} /\ pipe = <<>>
  /\ taken = [r \in Requests |-> None]
  /\ noise = 0

\* A request ends in state s: its coroutine is over and the lock released.
Ends(r, s) == call' = [call EXCEPT ![r] = s]

-----------------------------------------------------------------------------
(* McpClient.connect and list_tools: no timeout on either request.          *)

Launch ==
  /\ process = "none"
  /\ process' = "running"
  /\ call' = [call EXCEPT !["initialize"] = "scheduled"]
  /\ UNCHANGED <<worker, cancelling, queue, outstanding, pipe, taken, noise>>

\* The answer to initialize is not looked at but for the log; the notification
\* that follows has no answer.
Initialized ==
  /\ call["initialize"] = "answered" /\ call["tools/list"] = "idle"
  /\ call' = [call EXCEPT !["tools/list"] = "scheduled"]
  /\ UNCHANGED <<process, worker, cancelling, queue, outstanding, pipe, taken, noise>>

\* The tools are registered: an answer to anything else has no "tools" in it.
Registered == taken["tools/list"] = "tools/list"

\* McpBridgeTool.execute in a worker thread.
Invoke(c) ==
  /\ Registered
  /\ worker[c] = "idle"
  /\ worker' = [worker EXCEPT ![c] = "waiting"]
  /\ call' = [call EXCEPT ![c] = "scheduled"]
  /\ UNCHANGED <<process, cancelling, queue, outstanding, pipe, taken, noise>>

-----------------------------------------------------------------------------
(* StdioTransport.send.                                                     *)

\* The request is written and its answer awaited; a server that has exited
\* never sees it.
Write(r) ==
  /\ call' = [call EXCEPT ![r] = "reading"]
  /\ outstanding' = IF process = "running" THEN outstanding \cup {r} ELSE outstanding

\* The lock is taken if it is free and nobody waits for it.
BeginSend(r) ==
  /\ call[r] = "scheduled"
  /\ process \in {"running", "exited"}
  /\ \/ Reading = {} /\ queue = <<>> /\ Write(r) /\ UNCHANGED queue
     \/ /\ Reading # {} \/ queue # <<>>
        /\ call' = [call EXCEPT ![r] = "queued"]
        /\ queue' = Append(queue, r)
        /\ UNCHANGED outstanding
  /\ UNCHANGED <<process, worker, cancelling, pipe, taken, noise>>

\* The first waiter is woken when the lock is released.
BugAcquire ==
  /\ queue # <<>>
  /\ process \in {"running", "exited"}
  /\ Write(Head(queue))
  /\ queue' = Tail(queue)
  /\ UNCHANGED <<process, worker, cancelling, pipe, taken, noise>>

Acquire ==
  /\ queue # <<>> /\ Reading = {}
  /\ process \in {"running", "exited"}
  /\ Write(Head(queue))
  /\ queue' = Tail(queue)
  /\ UNCHANGED <<process, worker, cancelling, pipe, taken, noise>>

\* After disconnect() there is no process to write to, for a request that
\* begins and for one that has waited for the lock.
NotConnected(r) ==
  /\ process = "closed"
  /\ \/ call[r] = "scheduled" /\ UNCHANGED queue
     \/ queue # <<>> /\ r = Head(queue) /\ Reading = {} /\ queue' = Tail(queue)
  /\ Ends(r, "failed")
  /\ UNCHANGED <<process, worker, cancelling, outstanding, pipe, taken, noise>>

\* readline() returns: the line is the answer, its id is not compared.  A line
\* that is not JSON is an error, and is gone too.
Take(r) ==
  /\ call[r] = "reading" /\ pipe # <<>>
  /\ taken' = [taken EXCEPT ![r] = Head(pipe)]
  /\ Ends(r, IF Head(pipe) = "log" THEN "failed" ELSE "answered")
  /\ pipe' = Tail(pipe)
  /\ UNCHANGED <<process, worker, cancelling, queue, outstanding, noise>>

\* End of file.
NoResponse(r) ==
  /\ call[r] = "reading" /\ pipe = <<>> /\ process # "running"
  /\ Ends(r, "failed")
  /\ UNCHANGED <<process, worker, cancelling, queue, outstanding, pipe, taken, noise>>

-----------------------------------------------------------------------------
(* McpBridgeTool._invoke_on_loop: the thread waits, then gives up.          *)

Return(c) ==
  /\ worker[c] = "waiting" /\ call[c] \in {"answered", "failed"}
  /\ worker' = [worker EXCEPT ![c] = "done"]
  /\ UNCHANGED <<process, call, cancelling, queue, outstanding, pipe, taken, noise>>

\* future.cancel() has no effect on a coroutine that is over.
BugTimeOut(c) ==
  /\ worker[c] = "waiting"
  /\ worker' = [worker EXCEPT ![c] = "timed out"]
  /\ UNCHANGED <<process, call, cancelling, queue, outstanding, pipe, taken, noise>>

TimeOut(c) ==
  /\ worker[c] = "waiting"
  /\ worker' = [worker EXCEPT ![c] = "timed out"]
  /\ cancelling' = cancelling \cup {c}
  /\ UNCHANGED <<process, call, queue, outstanding, pipe, taken, noise>>

\* CancelledError is raised in the coroutine, in whatever await it is; what it
\* wrote is not taken back.
Cancel(c) ==
  /\ c \in cancelling
  /\ cancelling' = cancelling \ {c}
  /\ \/ call[c] \in {"scheduled", "reading"} /\ Ends(c, "cancelled") /\ UNCHANGED queue
     \/ \E i \in DOMAIN queue :
          queue[i] = c /\ queue' = RemoveAt(queue, i) /\ Ends(c, "cancelled")
     \/ call[c] \in {"answered", "failed"} /\ UNCHANGED <<call, queue>>
  /\ UNCHANGED <<process, worker, outstanding, pipe, taken, noise>>

\* StdioTransport.disconnect: the server is terminated, lines it had written can
\* still be read.
Disconnect ==
  /\ Registered /\ process \in {"running", "exited"}
  /\ process' = "closed"
  /\ outstanding' = {}
  /\ UNCHANGED <<call, worker, cancelling, queue, pipe, taken, noise>>

-----------------------------------------------------------------------------
(* The server.                                                              *)

Answer(r) ==
  /\ process = "running" /\ r \in outstanding
  /\ outstanding' = outstanding \ {r}
  /\ pipe' = Append(pipe, r)
  /\ UNCHANGED <<process, call, worker, cancelling, queue, taken, noise>>

Say(n) ==
  /\ process = "running" /\ noise < MaxNoise
  /\ pipe' = Append(pipe, n)
  /\ noise' = noise + 1
  /\ UNCHANGED <<process, call, worker, cancelling, queue, outstanding, taken>>

Exit ==
  /\ process = "running"
  /\ process' = "exited"
  /\ outstanding' = {}
  /\ UNCHANGED <<call, worker, cancelling, queue, pipe, taken, noise>>

-----------------------------------------------------------------------------
TransportNext ==
  \/ Launch \/ Initialized \/ Acquire \/ Disconnect \/ Exit
  \/ \E c \in Calls : Invoke(c) \/ Return(c) \/ TimeOut(c) \/ Cancel(c)
  \/ \E r \in Requests : BeginSend(r) \/ NotConnected(r) \/ Take(r) \/ NoResponse(r) \/ Answer(r)
  \/ \E n \in Noise : Say(n)

TransportSpec == TransportInit /\ [][TransportNext]_transportVars

\* The event loop runs what is ready and the clock of a waiting thread goes on;
\* nothing is asked of the server.
TransportFairness ==
  /\ WF_transportVars(Acquire)
  /\ \A c \in Calls : WF_transportVars(TimeOut(c)) /\ WF_transportVars(Cancel(c))
  /\ \A r \in Requests :
       WF_transportVars(BeginSend(r)) /\ WF_transportVars(NotConnected(r)) /\ WF_transportVars(Take(r)) /\ WF_transportVars(NoResponse(r))

TransportFairSpec == TransportSpec /\ TransportFairness

-----------------------------------------------------------------------------
TransportTypeOK ==
  /\ process \in {"none", "running", "exited", "closed"}
  /\ call \in [Requests -> CallStates]
  /\ worker \in [Calls -> {"idle", "waiting", "done", "timed out"}]
  /\ cancelling \in SUBSET Calls
  /\ queue \in Seq(Requests)
  /\ outstanding \in SUBSET Requests
  /\ pipe \in Seq(Requests \cup Noise)
  /\ taken \in [Requests -> Requests \cup Noise \cup {None}]
  /\ noise \in Nat

\* At most one request reads the pipe, and one whose answer is still to come
\* finds it either asked for or in the pipe, whoever was cancelled, timed out or
\* disconnected before ("readuntil() called while another coroutine is already
\* waiting", bridge.py:123).
OneReader ==
  \A r \in Reading :
    /\ Reading = {r}
    /\ process = "running" => r \in outstanding \cup ToSet(pipe)

\* The pipe holds nothing but what the present reader asked for.
InStep == outstanding \cup ToSet(pipe) \subseteq Reading

\* A reader is cancelled, or the server writes what nobody asked for.
Disturbed ==
  \/ \E c \in Calls : call[c] = "reading" /\ call'[c] = "cancelled"
  \/ noise' # noise

\* A call is answered with its own answer, and the pipe remains in step, as long
\* as no call is cancelled after it was written and the server keeps to answers:
\* nothing else, queued calls that are cancelled and disconnection included, makes
\* a call take another's answer (the id of the answer is never compared,
\* client.py:234).
OwnAnswer ==
  [][InStep => /\ \A r \in Requests : taken'[r] # taken[r] => taken'[r] = r
               /\ InStep' \/ Disturbed]_transportVars

\* A connection that is out of step, by a timeout or a line of noise, stays so
\* until it is closed or the server exits: every later answer is suspect.
StaysOutOfStep ==
  [][~InStep /\ process' = "running" => ~InStep']_transportVars

\* The lock is given back and the queue moves, however silent the server is: the
\* timeout of the reader's thread cancels it (bridge.py:138).
LockFreed ==
  \A c \in Calls : call[c] \in {"queued", "reading"} ~> call[c] \notin {"queued", "reading"}

=============================================================================
