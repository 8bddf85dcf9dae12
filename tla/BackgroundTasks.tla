-------------------------- MODULE BackgroundTasks --------------------------
(***************************************************************************)
(* Background commands: the registry that runs them as asyncio tasks       *)
(* (core/background_tasks.py) and the stdio server's delivery of their     *)
(* results to the model (server/stdio_server.py), which competes with the  *)
(* tool loop that drains the registry's queue (core/agent.py).             *)
(*                                                                         *)
(* A result reaches the model by one of two ways: a notification put on    *)
(* the chat queue after a debounce, or drain_completed() between two LLM   *)
(* calls of a turn.  cancel() marks the task and reports it at once; the   *)
(* coroutine of the task meets the CancelledError only later, and by then  *)
(* it may be anywhere.                                                     *)
(*                                                                         *)
(* A definition named Bug... is the mutant of the definition after it.     *)
(***************************************************************************)
EXTENDS Naturals, Sequences, FiniteSets

CONSTANTS
  Tasks,          \* the commands a session may launch
  MaxConcurrent,  \* MAX_CONCURRENT_TASKS
  QueueSize,      \* _MAX_CHAT_QUEUE
  MaxMessages     \* bound: chat messages of the user

ASSUME ConstantsAssumption ==
  MaxConcurrent \in Nat /\ QueueSize \in Nat \ {0} /\ MaxMessages \in Nat

Verdicts == {"COMPLETED", "FAILED", "TIMED_OUT", "CANCELLED"}

VARIABLES
  status,     \* BackgroundTaskInfo.status; "NONE" before the launch
  loc,        \* where _run_command is
  cancelReq,  \* tasks with a CancelledError to meet at their next await
  proc,       \* the command's process
  completed,  \* _completed_queue: how often each task is in it
  delivered,  \* _bg_delivered
  pending,    \* _bg_pending
  timer,      \* is the debounce timer set?
  chatQueue,  \* _chat_queue: {} for a message of the user, else a notification
  turn,       \* is a turn running?
  messages,   \* messages sent by the user so far
  told,       \* history: how often the model was told about each task
  dropped,    \* history: tasks whose notification met a full chat queue
  userCancel, \* history: tasks cancel() was called for
  down        \* agent.shutdown() was called

deliveryVars == <<delivered, pending, timer>>
serverVars   == <<chatQueue, turn, messages, told, dropped, down>>
vars == <<status, loc, cancelReq, proc, completed, deliveryVars, serverVars, userCancel>>

Locs  == {"none", "created", "spawning", "waiting", "killing", "reaping", "done"}
Procs == {"none", "alive", "exited"}
Statuses == Verdicts \cup {"NONE", "RUNNING"}

TypeOK ==
  /\ status \in [Tasks -> Statuses]
  /\ loc \in [Tasks -> Locs]
  /\ proc \in [Tasks -> Procs]
  /\ cancelReq \in SUBSET Tasks /\ userCancel \in SUBSET Tasks
  /\ completed \in [Tasks -> Nat] /\ told \in [Tasks -> Nat]
  /\ delivered \in SUBSET Tasks /\ pending \in SUBSET Tasks
  /\ timer \in BOOLEAN /\ down \in BOOLEAN
  /\ chatQueue \in Seq(SUBSET Tasks) /\ Len(chatQueue) <= QueueSize
  /\ turn \in {"idle", "busy"}
  /\ messages \in Nat
  /\ dropped \in SUBSET Tasks

Init ==
  /\ status = [t \in Tasks |-> "NONE"]
  /\ loc = [t \in Tasks |-> "none"]
  /\ proc = [t \in Tasks |-> "none"]
  /\ cancelReq = {} /\ userCancel = {}
  /\ completed = [t \in Tasks |-> 0] /\ told = [t \in Tasks |-> 0]
  /\ delivered = {} /\ pending = {} /\ timer = FALSE
  /\ chatQueue = <<>> /\ turn = "idle" /\ messages = 0
  /\ dropped = {} /\ down = FALSE

Active == {t \in Tasks : status[t] = "RUNNING"}

-----------------------------------------------------------------------------
(* The completion callback *)

\* _on_bg_task_update for task t, with q the registry's queue: one that still runs is
\* not delivered, and none is delivered twice; it leaves the queue for the pending
\* batch, and the debounce timer starts anew.  The mutant leaves the task in the queue.
BugOnTaskUpdate(t, q) ==
  IF status'[t] = "RUNNING" \/ t \in delivered
    THEN completed' = q /\ UNCHANGED deliveryVars
    ELSE /\ delivered' = delivered \cup {t}
         /\ pending' = pending \cup {t}
         /\ completed' = q
         /\ timer' = TRUE

OnTaskUpdate(t, q) ==
  IF status'[t] = "RUNNING" \/ t \in delivered
    THEN completed' = q /\ UNCHANGED deliveryVars
    ELSE /\ delivered' = delivered \cup {t}
         /\ pending' = pending \cup {t}
         /\ completed' = [q EXCEPT ![t] = 0]
         /\ timer' = TRUE

Enqueue(t) == [completed EXCEPT ![t] = @ + 1]

\* The finally block of _run_command: a task that was not cancelled is queued;
\* the callback fires in any case.
Finish(t, verdict) ==
  /\ status' = [status EXCEPT ![t] = verdict]
  /\ loc' = [loc EXCEPT ![t] = "done"]
  /\ cancelReq' = cancelReq \ {t}
  /\ OnTaskUpdate(t, IF verdict = "CANCELLED" THEN completed ELSE Enqueue(t))
  /\ UNCHANGED <<serverVars, userCancel>>

-----------------------------------------------------------------------------
(* The registry *)

\* launch(): only a turn's tool call gets here.  The callback is fired without a task.
Launch(t) ==
  /\ turn = "busy" /\ status[t] = "NONE"
  /\ Cardinality(Active) < MaxConcurrent
  /\ status' = [status EXCEPT ![t] = "RUNNING"]
  /\ loc' = [loc EXCEPT ![t] = "created"]
  /\ UNCHANGED <<cancelReq, proc, completed, deliveryVars, serverVars, userCancel>>

\* cancel(): mark, queue and report; the coroutine is only asked to stop.  The
\* mutants leave the report, or the mark, to the coroutine.
BugCancel(t) ==
  /\ ~down /\ status[t] = "RUNNING"
  /\ status' = [status EXCEPT ![t] = "CANCELLED"]
  /\ cancelReq' = cancelReq \cup {t}
  /\ userCancel' = userCancel \cup {t}
  /\ UNCHANGED <<loc, proc, completed, deliveryVars, serverVars>>

BugCancelUnmarked(t) ==
  /\ ~down /\ status[t] = "RUNNING"
  /\ cancelReq' = cancelReq \cup {t}
  /\ userCancel' = userCancel \cup {t}
  /\ UNCHANGED <<status, loc, proc, serverVars>>
  /\ OnTaskUpdate(t, Enqueue(t))

Cancel(t) ==
  /\ ~down /\ status[t] = "RUNNING"
  /\ status' = [status EXCEPT ![t] = "CANCELLED"]
  /\ cancelReq' = cancelReq \cup {t}
  /\ userCancel' = userCancel \cup {t}
  /\ OnTaskUpdate(t, Enqueue(t))
  /\ UNCHANGED <<loc, proc, serverVars>>

\* agent.shutdown() -> cleanup(), after the last turn.
Shutdown ==
  /\ ~down /\ turn = "idle"
  /\ down' = TRUE
  /\ cancelReq' = cancelReq \cup {t \in Tasks : loc[t] \notin {"none", "done"}}
  /\ UNCHANGED <<status, loc, proc, completed, deliveryVars, chatQueue, turn, messages,
                 told, dropped, userCancel>>

-----------------------------------------------------------------------------
(* _run_command, from await to await *)

\* The coroutine runs up to create_subprocess_*; if it was cancelled before its
\* first step it never runs, and neither does its finally block.
Start(t) ==
  /\ loc[t] = "created"
  /\ IF t \in cancelReq
       THEN loc' = [loc EXCEPT ![t] = "done"] /\ cancelReq' = cancelReq \ {t}
       ELSE loc' = [loc EXCEPT ![t] = "spawning"] /\ UNCHANGED cancelReq
  /\ UNCHANGED <<status, proc, completed, deliveryVars, serverVars, userCancel>>

Spawned(t) ==
  /\ loc[t] = "spawning" /\ t \notin cancelReq
  /\ loc' = [loc EXCEPT ![t] = "waiting"]
  /\ proc' = [proc EXCEPT ![t] = "alive"]
  /\ UNCHANGED <<status, cancelReq, completed, deliveryVars, serverVars, userCancel>>

SpawnFailed(t) ==
  /\ loc[t] = "spawning" /\ t \notin cancelReq
  /\ Finish(t, "FAILED")
  /\ UNCHANGED proc

\* The command ends by itself.
Exit(t) ==
  /\ proc[t] = "alive"
  /\ proc' = [proc EXCEPT ![t] = "exited"]
  /\ UNCHANGED <<status, loc, cancelReq, completed, deliveryVars, serverVars, userCancel>>

\* communicate() returned before the timeout.
CommandDone(t) ==
  /\ loc[t] = "waiting" /\ proc[t] = "exited" /\ t \notin cancelReq
  /\ \E v \in {"COMPLETED", "FAILED"} : Finish(t, v)
  /\ UNCHANGED proc

\* The timeout: kill the process and wait for it,
Timeout(t) ==
  /\ loc[t] = "waiting" /\ t \notin cancelReq
  /\ loc' = [loc EXCEPT ![t] = "killing"]
  /\ proc' = [proc EXCEPT ![t] = "exited"]
  /\ UNCHANGED <<status, cancelReq, completed, deliveryVars, serverVars, userCancel>>

\* cancel communicate() and wait for it,
Killed(t) ==
  /\ loc[t] = "killing" /\ t \notin cancelReq
  /\ loc' = [loc EXCEPT ![t] = "reaping"]
  /\ UNCHANGED <<status, cancelReq, proc, completed, deliveryVars, serverVars, userCancel>>

\* with an except clause that also swallows a CancelledError of this task.
Reaped(t) ==
  /\ loc[t] = "reaping"
  /\ Finish(t, "TIMED_OUT")
  /\ UNCHANGED proc

\* CancelledError at any other await: the process, if there is one, is left alone
\* (asyncio itself closes one that was still being created).
CancelCaught(t) ==
  /\ loc[t] \in {"spawning", "waiting", "killing"} /\ t \in cancelReq
  /\ Finish(t, "CANCELLED")
  /\ UNCHANGED proc

-----------------------------------------------------------------------------
(* The server and the tool loop *)

\* _flush_bg_pending: one notification for the batch; a full chat queue drops it,
\* and says so in the log.  The mutant throws the batch away without a trace.
BugFlush ==
  /\ timer /\ ~down
  /\ timer' = FALSE
  /\ pending' = {}
  /\ chatQueue' = IF Len(chatQueue) < QueueSize THEN Append(chatQueue, pending) ELSE chatQueue
  /\ UNCHANGED <<status, loc, cancelReq, proc, completed, delivered, turn, messages, told,
                 dropped, userCancel, down>>

Flush ==
  /\ timer /\ ~down
  /\ timer' = FALSE
  /\ pending' = {}
  /\ IF Len(chatQueue) < QueueSize
       THEN chatQueue' = Append(chatQueue, pending) /\ UNCHANGED dropped
       ELSE dropped' = dropped \cup pending /\ UNCHANGED chatQueue
  /\ UNCHANGED <<status, loc, cancelReq, proc, completed, delivered, turn, messages, told,
                 userCancel, down>>

\* _handle_chat_message: put() waits while the queue is full.
UserMessage ==
  /\ ~down /\ messages < MaxMessages /\ Len(chatQueue) < QueueSize
  /\ chatQueue' = Append(chatQueue, {})
  /\ messages' = messages + 1
  /\ UNCHANGED <<status, loc, cancelReq, proc, completed, deliveryVars, turn, told, dropped,
                 userCancel, down>>

\* The main loop takes the next message; a notification tells the model.
BeginTurn ==
  /\ ~down /\ turn = "idle" /\ chatQueue # <<>>
  /\ told' = [t \in Tasks |-> told[t] + IF t \in Head(chatQueue) THEN 1 ELSE 0]
  /\ chatQueue' = Tail(chatQueue)
  /\ turn' = "busy"
  /\ UNCHANGED <<status, loc, cancelReq, proc, completed, deliveryVars, messages, dropped,
                 userCancel, down>>

\* The end of a tool round: drain_completed() into the context.
Drain ==
  /\ turn = "busy"
  /\ told' = [t \in Tasks |-> told[t] + completed[t]]
  /\ completed' = [t \in Tasks |-> 0]
  /\ UNCHANGED <<status, loc, cancelReq, proc, deliveryVars, chatQueue, turn, messages, dropped,
                 userCancel, down>>

EndTurn ==
  /\ turn = "busy"
  /\ turn' = "idle"
  /\ UNCHANGED <<status, loc, cancelReq, proc, completed, deliveryVars, chatQueue, messages, told,
                 dropped, userCancel, down>>

-----------------------------------------------------------------------------
TaskStep(t) ==
  \/ Start(t) \/ Spawned(t) \/ SpawnFailed(t) \/ CommandDone(t) \/ Timeout(t)
  \/ Killed(t) \/ Reaped(t) \/ CancelCaught(t)

Next ==
  \/ \E t \in Tasks : Launch(t) \/ Cancel(t) \/ TaskStep(t) \/ Exit(t)
  \/ Flush \/ UserMessage \/ BeginTurn \/ Drain \/ EndTurn \/ Shutdown

Spec == Init /\ [][Next]_vars

\* The event loop runs what is ready, timers fire, and a turn ends.  A command
\* need not end by itself: its timeout does.
FairSpec ==
  /\ Spec
  /\ \A t \in Tasks : WF_vars(TaskStep(t))
  /\ WF_vars(Flush) /\ WF_vars(BeginTurn) /\ WF_vars(EndTurn)

-----------------------------------------------------------------------------
(* Properties *)

Finished(t) == status[t] \in Verdicts

InChatQueue(t) == \E i \in 1 .. Len(chatQueue) : t \in chatQueue[i]

\* The result of a finished task is somewhere on its way to the model, was told,
\* or is on record as dropped: cancel(), the finally block, the callback and the
\* two ways of delivery never lose it between them.
NothingLost ==
  \A t \in Tasks : Finished(t) =>
    completed[t] > 0 \/ t \in pending \/ InChatQueue(t) \/ told[t] > 0 \/ t \in dropped

\* A task that is reported to the model, about to be, or given up, has finished.
OnlyFinishedReported ==
  \A t \in Tasks :
    \/ completed[t] > 0
    \/ t \in delivered \cup pending \cup dropped
    \/ InChatQueue(t)
    \/ told[t] > 0
    => Finished(t)

\* How many reports on t the model got or may still get.
Reports(t) ==
  told[t] + completed[t] + (IF t \in pending THEN 1 ELSE 0)
    + Cardinality({i \in 1 .. Len(chatQueue) : t \in chatQueue[i]})

\* Both ways of delivery together report a task at most once, unless cancel() hit
\* the task between its timeout and the end of communicate().
ReportedOnce ==
  \A t \in Tasks : Reports(t) <= IF t \in userCancel /\ status[t] = "TIMED_OUT" THEN 2 ELSE 1

\* A command that ended, failed or timed out leaves no process behind.
NoProcessLeft ==
  \A t \in Tasks : loc[t] = "done" /\ status[t] # "CANCELLED" => proc[t] # "alive"

\* What the machinery promises, task by task.
Stage(t) ==
  IF told[t] > 0 THEN "told"
  ELSE IF t \in dropped THEN "dropped"
  ELSE IF Finished(t) THEN "finished"
  ELSE IF status[t] = "RUNNING" THEN "running" ELSE "idle"

Life == INSTANCE TaskLife WITH stage <- [t \in Tasks |-> Stage(t)]

\* Every task goes through the stages of TaskLife and never back.
ImplementsTaskLife == Life!Spec

\* Every launched task comes to an end, whether its command does or not, and its
\* result reaches the model, is dropped by a full chat queue, or the server goes down.
LaunchedIsTold ==
  \A t \in Tasks : status[t] = "RUNNING" ~> told[t] > 0 \/ t \in dropped \/ down

\* The comments of stdio_server.py on _bg_delivered: a duplicate delivery is
\* dropped, and drain_completed() cannot deliver again.
NoRedelivery == \A t \in Tasks : told[t] <= 1

=============================================================================
