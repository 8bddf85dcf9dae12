----------------------- MODULE BackgroundTasks_proofs -----------------------
(***************************************************************************)
(* Proofs about BackgroundTasks, for any set of commands and any bounds.   *)
(***************************************************************************)
EXTENDS BackgroundTasks, FiniteSetTheorems, FunctionTheorems, TLAPS

\* The callback touches only its own task, which is pending or was delivered.
LEMMA CallbackType ==
  ASSUME TypeOK, NEW t \in Tasks, NEW q \in [Tasks -> Nat], OnTaskUpdate(t, q)
  PROVE  /\ completed' \in [Tasks -> Nat] /\ delivered' \in SUBSET Tasks
         /\ pending' \in SUBSET Tasks /\ timer' \in BOOLEAN
<1>1. CASE status'[t] = "RUNNING" \/ t \in delivered
  BY <1>1 DEF TypeOK, OnTaskUpdate, deliveryVars
<1>2. CASE ~(status'[t] = "RUNNING" \/ t \in delivered)
  <2>1. /\ delivered' = delivered \cup {t} /\ pending' = pending \cup {t}
        /\ completed' = [q EXCEPT ![t] = 0] /\ timer' = TRUE
    BY <1>2 DEF OnTaskUpdate
  <2>2. completed' \in [Tasks -> Nat]
    BY <2>1
  <2>3. timer' \in BOOLEAN
    BY <2>1
  <2> QED BY <2>1, <2>2, <2>3 DEF TypeOK
<1> QED BY <1>1, <1>2

\* A task can be queued.
LEMMA EnqueueType ==
  ASSUME TypeOK, NEW t \in Tasks
  PROVE  /\ Enqueue(t) \in [Tasks -> Nat] /\ Enqueue(t)[t] > 0
         /\ \A u \in Tasks : u # t => Enqueue(t)[u] = completed[u]
BY DEF TypeOK, Enqueue

\* Finishing a task keeps the types.
LEMMA FinishType ==
  ASSUME TypeOK, NEW t \in Tasks, NEW v \in Verdicts, Finish(t, v), proc' = proc
  PROVE  TypeOK'
<1>1. /\ completed' \in [Tasks -> Nat] /\ delivered' \in SUBSET Tasks
      /\ pending' \in SUBSET Tasks /\ timer' \in BOOLEAN
  <2>1. completed \in [Tasks -> Nat]
    BY DEF TypeOK
  <2> QED BY <2>1, EnqueueType, CallbackType DEF Finish
<1>2. status' \in [Tasks -> Statuses]
  BY DEF Finish, TypeOK, Statuses
<1>3. loc' \in [Tasks -> Locs]
  BY DEF Finish, TypeOK, Locs
<1>4. cancelReq' \in SUBSET Tasks
  BY DEF Finish, TypeOK
<1> QED BY <1>1, <1>2, <1>3, <1>4 DEF Finish, serverVars, TypeOK

\* What can happen to the tasks that do not finish in a step: the coroutine moves.
Moves ==
  /\ UNCHANGED <<status, completed, deliveryVars, serverVars, userCancel>>
  /\ loc' \in [Tasks -> Locs] /\ proc' \in [Tasks -> Procs] /\ cancelReq' \in SUBSET Tasks

\* A step of a coroutine moves it or finishes its task.
LEMMA TaskSteps ==
  ASSUME TypeOK, NEW t \in Tasks, TaskStep(t) \/ Exit(t)
  PROVE  Moves \/ \E v \in Verdicts : Finish(t, v) /\ proc' = proc
<1>1. CASE Start(t)
  <2>1. loc' \in [Tasks -> Locs]
    BY <1>1 DEF Start, TypeOK, Locs
  <2> QED BY <1>1, <2>1 DEF Start, Moves, TypeOK
<1>2. CASE Spawned(t)
  <2>1. loc' \in [Tasks -> Locs]
    BY <1>2 DEF Spawned, TypeOK, Locs
  <2>2. proc' \in [Tasks -> Procs]
    BY <1>2 DEF Spawned, TypeOK, Procs
  <2> QED BY <1>2, <2>1, <2>2 DEF Spawned, Moves, TypeOK
<1>3. CASE Timeout(t)
  <2>1. loc' \in [Tasks -> Locs]
    BY <1>3 DEF Timeout, TypeOK, Locs
  <2>2. proc' \in [Tasks -> Procs]
    BY <1>3 DEF Timeout, TypeOK, Procs
  <2> QED BY <1>3, <2>1, <2>2 DEF Timeout, Moves, TypeOK
<1>4. CASE Killed(t)
  <2>1. loc' \in [Tasks -> Locs]
    BY <1>4 DEF Killed, TypeOK, Locs
  <2> QED BY <1>4, <2>1 DEF Killed, Moves, TypeOK
<1>5. CASE Exit(t)
  <2>1. proc' \in [Tasks -> Procs]
    BY <1>5 DEF Exit, TypeOK, Procs
  <2> QED BY <1>5, <2>1 DEF Exit, Moves, TypeOK
<1>6. CASE SpawnFailed(t) \/ CommandDone(t) \/ Reaped(t) \/ CancelCaught(t)
  BY <1>6 DEF SpawnFailed, CommandDone, Reaped, CancelCaught, Verdicts
<1> QED BY <1>1, <1>2, <1>3, <1>4, <1>5, <1>6 DEF TaskStep

\* The initial values have their types.
LEMMA InitType == Init => TypeOK
<1> SUFFICES ASSUME Init PROVE TypeOK
  OBVIOUS
<1>1. status \in [Tasks -> Statuses] /\ loc \in [Tasks -> Locs] /\ proc \in [Tasks -> Procs]
  BY DEF Init, Statuses, Locs, Procs
<1>2. completed \in [Tasks -> Nat] /\ told \in [Tasks -> Nat]
  BY DEF Init
<1>3. chatQueue \in Seq(SUBSET Tasks) /\ Len(chatQueue) <= QueueSize
  BY ConstantsAssumption DEF Init
<1> QED BY <1>1, <1>2, <1>3 DEF Init, TypeOK

\* Every variable keeps its type; the chat queue never holds more than its size.
THEOREM TypeCorrect == Spec => []TypeOK
<1>1. ASSUME TypeOK, [Next]_vars PROVE TypeOK'
  <2> USE DEF deliveryVars, serverVars
  <2>1. ASSUME NEW t \in Tasks, Launch(t) PROVE TypeOK'
    <3>1. status' \in [Tasks -> Statuses] /\ loc' \in [Tasks -> Locs]
      BY <1>1, <2>1 DEF Launch, TypeOK, Statuses, Locs
    <3> QED BY <1>1, <2>1, <3>1 DEF Launch, TypeOK
  <2>2. ASSUME NEW t \in Tasks, Cancel(t) PROVE TypeOK'
    <3>1. status' \in [Tasks -> Statuses]
      BY <1>1, <2>2 DEF Cancel, TypeOK, Statuses, Verdicts
    <3>2. /\ completed' \in [Tasks -> Nat] /\ delivered' \in SUBSET Tasks
          /\ pending' \in SUBSET Tasks /\ timer' \in BOOLEAN
      <4>1. OnTaskUpdate(t, Enqueue(t))
        BY <2>2 DEF Cancel
      <4> QED BY <1>1, <2>2, <4>1, EnqueueType, CallbackType
    <3> QED BY <1>1, <2>2, <3>1, <3>2 DEF Cancel, TypeOK
  <2>3. ASSUME NEW t \in Tasks, TaskStep(t) \/ Exit(t) PROVE TypeOK'
    <3>1. CASE Moves
      BY <1>1, <3>1 DEF Moves, TypeOK
    <3> QED BY <1>1, <2>3, <3>1, TaskSteps, FinishType
  <2>4. CASE Flush
    <3>1. chatQueue' \in Seq(SUBSET Tasks) /\ Len(chatQueue') <= QueueSize
      <4>1. CASE Len(chatQueue) < QueueSize
        <5>1. chatQueue' = Append(chatQueue, pending)
          BY <2>4, <4>1 DEF Flush
        <5> QED BY <1>1, <4>1, <5>1, ConstantsAssumption DEF TypeOK
      <4>2. CASE ~(Len(chatQueue) < QueueSize)
        <5>1. chatQueue' = chatQueue
          BY <2>4, <4>2 DEF Flush
        <5> QED BY <1>1, <5>1 DEF TypeOK
      <4> QED BY <4>1, <4>2
    <3>2. dropped' \in SUBSET Tasks
      BY <1>1, <2>4 DEF Flush, TypeOK
    <3>3. pending' = {} /\ timer' \in BOOLEAN
      BY <2>4 DEF Flush
    <3> QED BY <1>1, <2>4, <3>1, <3>2, <3>3 DEF Flush, TypeOK
  <2>5. CASE UserMessage
    <3>1. chatQueue' \in Seq(SUBSET Tasks) /\ Len(chatQueue') <= QueueSize
      BY <1>1, <2>5, ConstantsAssumption DEF UserMessage, TypeOK
    <3> QED BY <1>1, <2>5, <3>1 DEF UserMessage, TypeOK
  <2>6. CASE BeginTurn
    <3>1. chatQueue' \in Seq(SUBSET Tasks) /\ Len(chatQueue') <= QueueSize
      BY <1>1, <2>6, ConstantsAssumption DEF BeginTurn, TypeOK
    <3>2. told' \in [Tasks -> Nat]
      BY <1>1, <2>6 DEF BeginTurn, TypeOK
    <3> QED BY <1>1, <2>6, <3>1, <3>2 DEF BeginTurn, TypeOK
  <2>7. CASE Drain
    <3>1. told' \in [Tasks -> Nat] /\ completed' \in [Tasks -> Nat]
      BY <1>1, <2>7 DEF Drain, TypeOK
    <3> QED BY <1>1, <2>7, <3>1 DEF Drain, TypeOK
  <2>8. CASE EndTurn \/ Shutdown
    BY <1>1, <2>8 DEF EndTurn, Shutdown, TypeOK
  <2>9. CASE UNCHANGED vars
    BY <1>1, <2>9 DEF vars, TypeOK
  <2> QED BY <1>1, <2>1, <2>2, <2>3, <2>4, <2>5, <2>6, <2>7, <2>8, <2>9 DEF Next
<1> QED BY InitType, <1>1, PTL DEF Spec

-----------------------------------------------------------------------------
(* Delivery: the result of a finished task is never lost *)

Delivery == NothingLost /\ OnlyFinishedReported

\* A notification put on the chat queue reports its batch.
LEMMA Sent ==
  ASSUME TypeOK, NEW B \in SUBSET Tasks, chatQueue' = Append(chatQueue, B), NEW u \in Tasks
  PROVE  InChatQueue(u)' <=> InChatQueue(u) \/ u \in B
<1>1. /\ Len(chatQueue') = Len(chatQueue) + 1 /\ Len(chatQueue) \in Nat
      /\ chatQueue'[Len(chatQueue) + 1] = B
      /\ \A i \in 1 .. Len(chatQueue) : chatQueue'[i] = chatQueue[i]
  BY DEF TypeOK
<1>2. ASSUME InChatQueue(u)' PROVE InChatQueue(u) \/ u \in B
  BY <1>1, <1>2 DEF InChatQueue
<1>3. ASSUME InChatQueue(u) \/ u \in B PROVE InChatQueue(u)'
  BY <1>1, <1>3 DEF InChatQueue
<1> QED BY <1>2, <1>3

\* What leaves the chat queue is its head, and the rest stays.
LEMMA Received ==
  ASSUME TypeOK, chatQueue # <<>>, chatQueue' = Tail(chatQueue), NEW u \in Tasks
  PROVE  InChatQueue(u) <=> u \in Head(chatQueue) \/ InChatQueue(u)'
<1>1. /\ Len(chatQueue') = Len(chatQueue) - 1 /\ Len(chatQueue) \in Nat \ {0}
      /\ Head(chatQueue) = chatQueue[1]
      /\ \A i \in 1 .. Len(chatQueue) - 1 : chatQueue'[i] = chatQueue[i + 1]
  BY DEF TypeOK
<1>2. ASSUME InChatQueue(u) PROVE u \in Head(chatQueue) \/ InChatQueue(u)'
  <2>1. PICK i \in 1 .. Len(chatQueue) : u \in chatQueue[i]
    BY <1>2 DEF InChatQueue
  <2>2. CASE i = 1
    BY <1>1, <2>1, <2>2
  <2>3. CASE i # 1
    <3>1. i - 1 \in 1 .. Len(chatQueue') /\ chatQueue'[i - 1] = chatQueue[i]
      BY <1>1, <2>3
    <3> QED BY <2>1, <3>1 DEF InChatQueue
  <2> QED BY <2>2, <2>3
<1>3. ASSUME u \in Head(chatQueue) \/ InChatQueue(u)' PROVE InChatQueue(u)
  BY <1>1, <1>3 DEF InChatQueue
<1> QED BY <1>2, <1>3

\* Nothing that Delivery looks at changes.
LEMMA DeliveryUnchanged ==
  ASSUME Delivery,
         UNCHANGED <<status, completed, delivered, pending, chatQueue, told, dropped>>
  PROVE  Delivery'
BY DEF Delivery, NothingLost, OnlyFinishedReported, Finished, InChatQueue

\* A task that reaches a verdict is queued first, or, when cancelled, reported
\* whatever the queue holds: the callback leaves it pending, or finds it delivered
\* and leaves what there is of it where it is.
LEMMA VerdictDelivered ==
  ASSUME TypeOK, Delivery, NEW t \in Tasks, NEW v \in Verdicts, NEW q \in [Tasks -> Nat],
         \A u \in Tasks \ {t} : q[u] = completed[u],
         q[t] > 0 \/ q = completed,
         status' = [status EXCEPT ![t] = v],
         OnTaskUpdate(t, q), UNCHANGED <<chatQueue, told, dropped>>
  PROVE  Delivery'
<1>1. \A u \in Tasks : InChatQueue(u)' <=> InChatQueue(u)
  BY DEF InChatQueue
<1>2. /\ Finished(t)' /\ status'[t] # "RUNNING"
      /\ \A u \in Tasks \ {t} : Finished(u)' <=> Finished(u)
  BY DEF Finished, TypeOK, Verdicts
<1>3. CASE t \in delivered
  <2>1. completed' = q /\ UNCHANGED <<delivered, pending>>
    BY <1>3 DEF OnTaskUpdate, deliveryVars
  <2>2. Finished(t)
    BY <1>3 DEF Delivery, OnlyFinishedReported
  <2> QED BY <1>1, <1>2, <2>1, <2>2 DEF Delivery, NothingLost, OnlyFinishedReported
<1>4. CASE t \notin delivered
  <2>1. /\ delivered' = delivered \cup {t} /\ pending' = pending \cup {t}
        /\ \A u \in Tasks \ {t} : completed'[u] = completed[u]
    BY <1>2, <1>4 DEF OnTaskUpdate
  <2> QED BY <1>1, <1>2, <2>1 DEF Delivery, NothingLost, OnlyFinishedReported
<1> QED BY <1>3, <1>4

\* cancel() and the finally block deliver.
LEMMA FinishDelivers ==
  ASSUME TypeOK, Delivery, NEW t \in Tasks,
         Cancel(t) \/ \E v \in Verdicts : Finish(t, v)
  PROVE  Delivery'
<1>1. completed \in [Tasks -> Nat]
  BY DEF TypeOK
<1>2. CASE Cancel(t)
  <2>1. /\ status' = [status EXCEPT ![t] = "CANCELLED"] /\ OnTaskUpdate(t, Enqueue(t))
        /\ UNCHANGED <<chatQueue, told, dropped>>
    BY <1>2 DEF Cancel, serverVars
  <2> QED BY <2>1, EnqueueType, VerdictDelivered DEF Verdicts
<1>3. CASE \E v \in Verdicts : Finish(t, v)
  <2>1. PICK v \in Verdicts : Finish(t, v)
    BY <1>3
  <2>2. /\ status' = [status EXCEPT ![t] = v]
        /\ OnTaskUpdate(t, IF v = "CANCELLED" THEN completed ELSE Enqueue(t))
        /\ UNCHANGED <<chatQueue, told, dropped>>
    BY <2>1 DEF Finish, serverVars
  <2>3. CASE v = "CANCELLED"
    BY <1>1, <2>2, <2>3, VerdictDelivered
  <2>4. CASE v # "CANCELLED"
    BY <2>2, <2>4, EnqueueType, VerdictDelivered
  <2> QED BY <2>3, <2>4
<1> QED BY <1>2, <1>3

\* The debounce timer moves the pending batch on, or drops it for the record.
LEMMA FlushDelivers ==
  ASSUME TypeOK, Delivery, Flush
  PROVE  Delivery'
<1>1. UNCHANGED <<status, completed, delivered, told>> /\ pending' = {}
  BY DEF Flush
<1>2. CASE Len(chatQueue) < QueueSize
  <2>1. chatQueue' = Append(chatQueue, pending) /\ dropped' = dropped
    BY <1>2 DEF Flush
  <2>2. \A u \in Tasks : InChatQueue(u)' <=> InChatQueue(u) \/ u \in pending
    BY <2>1, Sent DEF TypeOK
  <2> QED BY <1>1, <2>1, <2>2 DEF Delivery, NothingLost, OnlyFinishedReported, Finished
<1>3. CASE ~(Len(chatQueue) < QueueSize)
  <2>1. chatQueue' = chatQueue /\ dropped' = dropped \cup pending
    BY <1>3 DEF Flush
  <2>2. \A u \in Tasks : InChatQueue(u)' <=> InChatQueue(u)
    BY <2>1 DEF InChatQueue
  <2> QED BY <1>1, <2>1, <2>2 DEF Delivery, NothingLost, OnlyFinishedReported, Finished
<1> QED BY <1>2, <1>3

\* A message of the user, or the start of a turn, moves the chat queue on.
LEMMA QueueDelivers ==
  ASSUME TypeOK, Delivery, UserMessage \/ BeginTurn
  PROVE  Delivery'
<1>1. UNCHANGED <<status, completed, delivered, pending, dropped>>
  BY DEF UserMessage, BeginTurn, deliveryVars
<1>2. CASE UserMessage
  <2>1. chatQueue' = Append(chatQueue, {}) /\ told' = told
    BY <1>2 DEF UserMessage
  <2>2. \A u \in Tasks : InChatQueue(u)' <=> InChatQueue(u)
    BY <2>1, Sent
  <2> QED BY <1>1, <2>1, <2>2 DEF Delivery, NothingLost, OnlyFinishedReported, Finished
<1>3. CASE BeginTurn
  <2>1. /\ chatQueue # <<>> /\ chatQueue' = Tail(chatQueue)
        /\ told' = [t \in Tasks |-> told[t] + IF t \in Head(chatQueue) THEN 1 ELSE 0]
    BY <1>3 DEF BeginTurn
  <2>2. \A u \in Tasks : InChatQueue(u) <=> u \in Head(chatQueue) \/ InChatQueue(u)'
    BY <2>1, Received
  <2>3. \A u \in Tasks : told'[u] > 0 <=> told[u] > 0 \/ u \in Head(chatQueue)
    BY <2>1 DEF TypeOK
  <2> QED BY <1>1, <2>2, <2>3 DEF Delivery, NothingLost, OnlyFinishedReported, Finished
<1> QED BY <1>2, <1>3

\* drain_completed() tells what it takes.
LEMMA DrainDelivers ==
  ASSUME TypeOK, Delivery, Drain
  PROVE  Delivery'
<1>1. /\ UNCHANGED <<status, delivered, pending, dropped, chatQueue>>
      /\ told' = [t \in Tasks |-> told[t] + completed[t]]
      /\ completed' = [t \in Tasks |-> 0]
  BY DEF Drain, deliveryVars
<1>2. \A u \in Tasks : /\ told'[u] > 0 <=> told[u] > 0 \/ completed[u] > 0
                       /\ ~(completed'[u] > 0)
  BY <1>1 DEF TypeOK
<1>3. \A u \in Tasks : InChatQueue(u)' <=> InChatQueue(u)
  BY <1>1 DEF InChatQueue
<1> QED BY <1>1, <1>2, <1>3 DEF Delivery, NothingLost, OnlyFinishedReported, Finished

\* Whatever happens in whatever order, the result of a finished task is queued,
\* pending, in a notification, told, or dropped for the record; and nothing but a
\* finished task is reported.
THEOREM ResultsDelivered == Spec => [](NothingLost /\ OnlyFinishedReported)
<1>1. ASSUME Init PROVE Delivery
  BY <1>1 DEF Init, Delivery, NothingLost, OnlyFinishedReported, Finished, Verdicts, InChatQueue
<1>2. ASSUME TypeOK, Delivery, [Next]_vars PROVE Delivery'
  <2>1. ASSUME NEW t \in Tasks, Launch(t) PROVE Delivery'
    <3>1. /\ status' = [status EXCEPT ![t] = "RUNNING"] /\ status[t] = "NONE"
          /\ UNCHANGED <<completed, delivered, pending, chatQueue, told, dropped>>
      BY <2>1 DEF Launch, deliveryVars, serverVars
    <3>2. \A u \in Tasks : Finished(u)' <=> Finished(u)
      BY <1>2, <3>1 DEF Finished, TypeOK, Verdicts
    <3>3. \A u \in Tasks : InChatQueue(u)' <=> InChatQueue(u)
      BY <3>1 DEF InChatQueue
    <3> QED BY <1>2, <3>1, <3>2, <3>3 DEF Delivery, NothingLost, OnlyFinishedReported
  <2>2. ASSUME NEW t \in Tasks, Cancel(t) PROVE Delivery'
    BY <1>2, <2>2, FinishDelivers
  <2>3. ASSUME NEW t \in Tasks, TaskStep(t) \/ Exit(t) PROVE Delivery'
    <3>1. CASE Moves
      BY <1>2, <3>1, DeliveryUnchanged DEF Moves, deliveryVars, serverVars
    <3> QED BY <1>2, <2>3, <3>1, TaskSteps, FinishDelivers
  <2>4. CASE EndTurn \/ Shutdown \/ UNCHANGED vars
    BY <1>2, <2>4, DeliveryUnchanged DEF EndTurn, Shutdown, vars, deliveryVars, serverVars
  <2> QED BY <1>2, <2>1, <2>2, <2>3, <2>4, FlushDelivers, QueueDelivers, DrainDelivers DEF Next
<1>3. Delivery => NothingLost /\ OnlyFinishedReported
  BY DEF Delivery
<1> QED BY <1>1, <1>2, <1>3, TypeCorrect, PTL DEF Spec

-----------------------------------------------------------------------------
(* The coroutine, its process and the stage of its task *)

\* A task is launched when its coroutine is created; a process belongs to a
\* coroutine that waits for it, and none is alive once it was killed or has ended
\* with a verdict of its own.
Coroutine(t) ==
  /\ status[t] = "NONE" <=> loc[t] = "none"
  /\ loc[t] \in {"none", "created", "spawning"} => proc[t] = "none"
  /\ loc[t] \in {"killing", "reaping"} => proc[t] # "alive"
  /\ loc[t] = "done" /\ status[t] # "CANCELLED" => proc[t] # "alive"

Coroutines == \A t \in Tasks : Coroutine(t)

\* An action of one task: the others keep their coroutine, process and status.
LEMMA OneTask ==
  ASSUME TypeOK, Coroutines, NEW t \in Tasks,
         \A u \in Tasks \ {t} : UNCHANGED <<status[u], loc[u], proc[u]>>,
         Coroutine(t)'
  PROVE  Coroutines'
BY DEF Coroutines, Coroutine

\* A step of one task leaves its coroutine in order.
LEMMA CoroutineStep ==
  ASSUME TypeOK, Coroutines, NEW t \in Tasks,
         Launch(t) \/ Cancel(t) \/ TaskStep(t) \/ Exit(t)
  PROVE  Coroutines'
<1>1. Coroutine(t) /\ t \in DOMAIN status /\ t \in DOMAIN loc /\ t \in DOMAIN proc
  BY DEF Coroutines, TypeOK
<1>2. \A u \in Tasks \ {t} : UNCHANGED <<status[u], loc[u], proc[u]>>
  BY DEF TypeOK, Launch, Cancel, TaskStep, Exit, Start, Spawned, SpawnFailed, CommandDone,
         Timeout, Killed, Reaped, CancelCaught, Finish
<1>3. CASE Launch(t)
  BY <1>1, <1>2, <1>3, OneTask DEF Launch, Coroutine
<1>4. CASE Cancel(t)
  BY <1>1, <1>2, <1>4, OneTask DEF Cancel, Coroutine
<1>5. CASE Start(t)
  BY <1>1, <1>2, <1>5, OneTask DEF Start, Coroutine
<1>6. CASE Spawned(t)
  BY <1>1, <1>2, <1>6, OneTask DEF Spawned, Coroutine
<1>7. CASE SpawnFailed(t)
  BY <1>1, <1>2, <1>7, OneTask DEF SpawnFailed, Finish, Coroutine
<1>8. CASE CommandDone(t)
  BY <1>1, <1>2, <1>8, OneTask DEF CommandDone, Finish, Coroutine
<1>9. CASE Timeout(t)
  BY <1>1, <1>2, <1>9, OneTask DEF Timeout, Coroutine
<1>10. CASE Killed(t)
  BY <1>1, <1>2, <1>10, OneTask DEF Killed, Coroutine
<1>11. CASE Reaped(t)
  BY <1>1, <1>2, <1>11, OneTask DEF Reaped, Finish, Coroutine
<1>12. CASE CancelCaught(t)
  BY <1>1, <1>2, <1>12, OneTask DEF CancelCaught, Finish, Coroutine
<1>13. CASE Exit(t)
  BY <1>1, <1>2, <1>13, OneTask DEF Exit, Coroutine
<1> QED BY <1>3, <1>4, <1>5, <1>6, <1>7, <1>8, <1>9, <1>10, <1>11, <1>12, <1>13 DEF TaskStep

\* The invariant of the coroutines.
LEMMA CoroutinesInOrder == Spec => []Coroutines
<1>1. ASSUME Init PROVE Coroutines
  BY <1>1 DEF Init, Coroutines, Coroutine
<1>2. ASSUME TypeOK, Coroutines, [Next]_vars PROVE Coroutines'
  <2>1. CASE \E t \in Tasks : Launch(t) \/ Cancel(t) \/ TaskStep(t) \/ Exit(t)
    BY <1>2, <2>1, CoroutineStep
  <2>2. CASE UNCHANGED <<status, loc, proc>>
    BY <1>2, <2>2 DEF Coroutines, Coroutine
  <2>3. CASE Flush \/ UserMessage \/ BeginTurn \/ Drain \/ EndTurn \/ Shutdown \/ UNCHANGED vars
    BY <2>2, <2>3 DEF Flush, UserMessage, BeginTurn, Drain, EndTurn, Shutdown, vars
  <2> QED BY <1>2, <2>1, <2>3 DEF Next
<1> QED BY <1>1, <1>2, TypeCorrect, PTL DEF Spec

\* A command that ended, failed or timed out leaves no process behind.
THEOREM NoOrphanProcess == Spec => []NoProcessLeft
<1>1. Coroutines => NoProcessLeft
  BY DEF Coroutines, Coroutine, NoProcessLeft
<1> QED BY <1>1, CoroutinesInOrder, PTL

-----------------------------------------------------------------------------
(* Once: no result is reported by both ways of delivery *)

\* The notifications about t in the chat queue, and how many they are.
Notes(t) == {i \in 1 .. Len(chatQueue) : t \in chatQueue[i]}
Noted(t) == Cardinality(Notes(t))

\* They are finitely many, and none when the task is in no notification.
LEMMA NotesFinite ==
  ASSUME TypeOK, NEW t \in Tasks
  PROVE  /\ IsFiniteSet(Notes(t)) /\ Noted(t) \in Nat
         /\ ~InChatQueue(t) => Noted(t) = 0
<1>1. IsFiniteSet(1 .. Len(chatQueue))
  BY FS_Interval DEF TypeOK
<1>2. IsFiniteSet(Notes(t))
  BY <1>1, FS_Subset DEF Notes
<1>3. Noted(t) \in Nat
  BY <1>2, FS_CardinalityType DEF Noted
<1>4. ASSUME ~InChatQueue(t) PROVE Noted(t) = 0
  <2>1. Notes(t) = {}
    BY <1>4 DEF Notes, InChatQueue
  <2> QED BY <2>1, FS_EmptySet DEF Noted
<1> QED BY <1>2, <1>3, <1>4

\* A notification more about each task of the batch that is put on the queue.
LEMMA NotesSent ==
  ASSUME TypeOK, NEW B \in SUBSET Tasks, chatQueue' = Append(chatQueue, B), NEW t \in Tasks
  PROVE  Noted(t)' = Noted(t) + IF t \in B THEN 1 ELSE 0
<1> DEFINE n == Len(chatQueue)
<1>1. /\ n \in Nat /\ Len(chatQueue') = n + 1 /\ chatQueue'[n + 1] = B
      /\ \A i \in 1 .. n : chatQueue'[i] = chatQueue[i]
  BY DEF TypeOK
<1>2. n + 1 \notin Notes(t)
  BY <1>1 DEF Notes
<1>3. \A i : i \in 1 .. n + 1 <=> i \in 1 .. n \/ i = n + 1
  BY <1>1
<1>4. Notes(t)' = IF t \in B THEN Notes(t) \cup {n + 1} ELSE Notes(t)
  <2> HIDE DEF n
  <2>1. \A i : i \in Notes(t)' <=> i \in 1 .. n + 1 /\ t \in chatQueue'[i]
    BY <1>1 DEF Notes
  <2>2. \A i : i \in Notes(t) <=> i \in 1 .. n /\ t \in chatQueue[i]
    BY DEF Notes, n
  <2>3. \A i : i \in Notes(t)' <=> i \in Notes(t) \/ (i = n + 1 /\ t \in B)
    BY <1>1, <1>3, <2>1, <2>2
  <2> QED BY <2>3
<1> HIDE DEF n
<1>5. IsFiniteSet(Notes(t)) /\ Noted(t) \in Nat
  BY NotesFinite
<1>6. CASE t \in B
  BY <1>2, <1>4, <1>5, <1>6, FS_AddElement DEF Noted
<1>7. CASE t \notin B
  BY <1>4, <1>5, <1>7 DEF Noted
<1> QED BY <1>6, <1>7

\* One less about each task of the notification that is taken.
LEMMA NotesReceived ==
  ASSUME TypeOK, chatQueue # <<>>, chatQueue' = Tail(chatQueue), NEW t \in Tasks
  PROVE  /\ Noted(t) = Noted(t)' + IF t \in Head(chatQueue) THEN 1 ELSE 0
         /\ Noted(t)' \in Nat
<1> DEFINE n == Len(chatQueue)
           S == Notes(t) \ {1}
           T == Notes(t)'
           f == [i \in S |-> i - 1]
<1>1. /\ n \in Nat \ {0} /\ Len(chatQueue') = n - 1 /\ Head(chatQueue) = chatQueue[1]
      /\ \A i \in 1 .. n - 1 : chatQueue'[i] = chatQueue[i + 1]
  BY DEF TypeOK
<1>2. \A i \in S : i \in 2 .. n /\ t \in chatQueue[i]
  BY <1>1 DEF Notes
<1>3. \A i \in T : i \in 1 .. n - 1 /\ t \in chatQueue[i + 1] /\ i + 1 \in S
  BY <1>1 DEF Notes
<1>4. \A i \in S : i - 1 \in T
  BY <1>1, <1>2 DEF Notes
<1> HIDE DEF S, T
<1>5. f \in Bijection(S, T)
  <2>1. f \in [S -> T]
    BY <1>4
  <2>2. \A i, j \in S : f[i] = f[j] => i = j
    BY <1>2
  <2>3. \A k \in T : \E i \in S : f[i] = k
    <3> TAKE k \in T
    <3>1. k + 1 \in S /\ f[k + 1] = k
      BY <1>3
    <3> QED BY <3>1
  <2> HIDE DEF f
  <2> QED BY <2>1, <2>2, <2>3, Fun_IsBij
<1>6. IsFiniteSet(Notes(t)) /\ Noted(t) \in Nat
  BY NotesFinite
<1>7. IsFiniteSet(S) /\ Cardinality(S) = IF 1 \in Notes(t) THEN Noted(t) - 1 ELSE Noted(t)
  BY <1>6, FS_RemoveElement DEF S, Noted
<1>8. Cardinality(T) = Cardinality(S)
  BY <1>5, <1>7, FS_Bijection DEF ExistsBijection
<1>9. 1 \in Notes(t) <=> t \in Head(chatQueue)
  BY <1>1 DEF Notes
<1>10. Noted(t)' = Cardinality(T)
  BY DEF Noted, T
<1>11. Cardinality(S) \in Nat
  BY <1>7, FS_CardinalityType
<1> QED BY <1>6, <1>7, <1>8, <1>9, <1>10, <1>11

\* cancel() before the coroutine has ended may have a timeout report the task again.
Allowed(t) == IF t \in userCancel /\ status[t] = "TIMED_OUT" THEN 2 ELSE 1

\* A task that has its verdict was delivered; if its coroutine has not ended, it was
\* cancelled and will meet the CancelledError, and only an expired timeout can still
\* change the verdict, and queue the result a second time.
Once(t) ==
  /\ Finished(t) <=> t \in delivered
  /\ Finished(t) /\ loc[t] # "done" =>
       t \in cancelReq /\ t \in userCancel /\ status[t] = "CANCELLED"
  /\ Reports(t) <= Allowed(t)

AllOnce == \A t \in Tasks : Once(t)

\* The reports are the sum of four natural numbers.
LEMMA ReportsSum ==
  ASSUME TypeOK, NEW t \in Tasks
  PROVE  /\ Reports(t) = told[t] + completed[t] + (IF t \in pending THEN 1 ELSE 0) + Noted(t)
         /\ told[t] \in Nat /\ completed[t] \in Nat /\ Noted(t) \in Nat /\ Reports(t) \in Nat
<1>1. told[t] \in Nat /\ completed[t] \in Nat
  BY DEF TypeOK
<1>2. Noted(t) \in Nat
  BY NotesFinite
<1>3. Reports(t) = told[t] + completed[t] + (IF t \in pending THEN 1 ELSE 0) + Noted(t)
  BY DEF Reports, Noted, Notes
<1> QED BY <1>1, <1>2, <1>3

\* What is not finished has no report.
LEMMA UnfinishedUnreported ==
  ASSUME TypeOK, OnlyFinishedReported, NEW t \in Tasks, ~Finished(t)
  PROVE  /\ told[t] = 0 /\ completed[t] = 0 /\ t \notin pending /\ Noted(t) = 0
         /\ t \notin delivered /\ Reports(t) = 0
<1>1. /\ ~(told[t] > 0) /\ ~(completed[t] > 0) /\ t \notin pending /\ ~InChatQueue(t)
      /\ t \notin delivered
  BY DEF OnlyFinishedReported
<1>2. told[t] = 0 /\ completed[t] = 0 /\ Noted(t) = 0
  BY <1>1, ReportsSum, NotesFinite
<1> QED BY <1>1, <1>2, ReportsSum

\* Nothing of u that Once looks at changes.
LEMMA OnceKept ==
  ASSUME NEW u \in Tasks, Once(u),
         UNCHANGED <<status[u], loc[u], completed[u], told[u], chatQueue>>,
         u \in delivered' <=> u \in delivered, u \in pending' <=> u \in pending,
         u \in cancelReq => u \in cancelReq' \/ ~Finished(u), u \in userCancel' <=> u \in userCancel
  PROVE  Once(u)'
BY DEF Once, Finished, Reports, Allowed

\* A verdict: the callback reports the task if it was not delivered; if it was, the
\* only report that can join is the one of a timeout after a cancel.
LEMMA OnceVerdict ==
  ASSUME TypeOK, TypeOK', OnlyFinishedReported, AllOnce, NEW t \in Tasks, NEW v \in Verdicts,
         NEW q \in [Tasks -> Nat], status' = [status EXCEPT ![t] = v],
         \A u \in Tasks \ {t} : q[u] = completed[u],
         q[t] \in {completed[t], completed[t] + 1},
         OnTaskUpdate(t, q), UNCHANGED <<chatQueue, told>>,
         \A u \in Tasks \ {t} : /\ loc'[u] = loc[u]
                                /\ u \in cancelReq' <=> u \in cancelReq
                                /\ u \in userCancel' <=> u \in userCancel,
         \/ /\ ~Finished(t) /\ v = "CANCELLED" /\ t \in cancelReq' /\ t \in userCancel'
         \/ /\ loc'[t] = "done" /\ userCancel' = userCancel
            /\ t \in delivered => status[t] = "CANCELLED" /\ t \in userCancel
            /\ t \in delivered /\ q[t] # completed[t] => v = "TIMED_OUT"
  PROVE  AllOnce'
<1>1. ASSUME NEW u \in Tasks \ {t} PROVE Once(u)'
  <2>1. status'[u] = status[u] /\ completed'[u] = completed[u]
    BY DEF TypeOK, OnTaskUpdate
  <2>2. (u \in delivered' <=> u \in delivered) /\ (u \in pending' <=> u \in pending)
    BY DEF OnTaskUpdate, deliveryVars
  <2>3. Once(u) /\ chatQueue' = chatQueue /\ told'[u] = told[u] /\ loc'[u] = loc[u]
    BY DEF AllOnce
  <2>4. (u \in cancelReq' <=> u \in cancelReq) /\ (u \in userCancel' <=> u \in userCancel)
    OBVIOUS
  <2> QED BY <2>1, <2>2, <2>3, <2>4, OnceKept
<1>2. Finished(t)' /\ status'[t] = v /\ status'[t] # "RUNNING" /\ t \in delivered'
  <2>1. status'[t] = v /\ v # "RUNNING"
    BY DEF TypeOK, Verdicts
  <2> QED BY <2>1 DEF Finished, OnTaskUpdate, deliveryVars
<1>3. /\ Reports(t) = told[t] + completed[t] + (IF t \in pending THEN 1 ELSE 0) + Noted(t)
      /\ told[t] \in Nat /\ completed[t] \in Nat /\ Noted(t) \in Nat
  BY ReportsSum
<1>4. Reports(t)' = told'[t] + completed'[t] + (IF t \in pending' THEN 1 ELSE 0) + Noted(t)'
  BY DEF Reports, Noted, Notes
<1>5. told'[t] = told[t] /\ Noted(t)' = Noted(t) /\ completed'[t] \in Nat
  BY DEF Noted, Notes, TypeOK
<1>6. CASE t \notin delivered
  <2>1. ~Finished(t)
    BY <1>6 DEF AllOnce, Once
  <2>2. told[t] = 0 /\ Noted(t) = 0
    BY <2>1, UnfinishedUnreported
  <2>3. completed'[t] = 0
    BY <1>2, <1>6 DEF OnTaskUpdate
  <2>4. Reports(t)' \in {0, 1}
    BY <1>4, <1>5, <2>2, <2>3
  <2>5. Finished(t)' /\ loc'[t] # "done" =>
          t \in cancelReq' /\ t \in userCancel' /\ status'[t] = "CANCELLED"
    BY <1>2
  <2>6. Once(t)'
    BY <1>2, <2>4, <2>5 DEF Once, Allowed
  <2> QED BY <1>1, <2>6 DEF AllOnce
<1>7. CASE t \in delivered
  <2>1. Finished(t) /\ Reports(t) <= Allowed(t)
    BY <1>7 DEF AllOnce, Once
  <2>2. /\ loc'[t] = "done" /\ t \in userCancel' /\ Allowed(t) = 1
        /\ q[t] # completed[t] => v = "TIMED_OUT"
    BY <1>7, <2>1 DEF Allowed
  <2>3. completed'[t] = q[t] /\ pending' = pending
    BY <1>7 DEF OnTaskUpdate, deliveryVars
  <2>4. Reports(t)' = Reports(t) + (q[t] - completed[t])
    BY <1>3, <1>4, <1>5, <2>3
  <2>5. Reports(t)' <= Allowed(t)'
    <3>1. CASE q[t] = completed[t]
      <4>1. Reports(t)' \in {0, 1}
        BY <1>3, <2>1, <2>2, <2>4, <3>1
      <4> QED BY <4>1 DEF Allowed
    <3>2. CASE q[t] # completed[t]
      <4>1. Reports(t)' <= 2
        BY <1>3, <2>1, <2>2, <2>4, <3>2
      <4>2. Allowed(t)' = 2
        BY <1>2, <2>2, <3>2 DEF Allowed
      <4> QED BY <4>1, <4>2
    <3> QED BY <3>1, <3>2
  <2>6. Once(t)'
    BY <1>2, <2>2, <2>5 DEF Once
  <2> QED BY <1>1, <2>6 DEF AllOnce
<1> QED BY <1>6, <1>7

\* cancel() and the end of the coroutine give a verdict; the other steps of a coroutine
\* change nothing that is reported, and take no CancelledError from one that has to end.
LEMMA OnceTask ==
  ASSUME TypeOK, TypeOK', OnlyFinishedReported, Coroutines, AllOnce, NEW t \in Tasks,
         Launch(t) \/ Cancel(t) \/ TaskStep(t) \/ Exit(t)
  PROVE  AllOnce'
<1>0. /\ completed \in [Tasks -> Nat] /\ Enqueue(t) \in [Tasks -> Nat]
      /\ Enqueue(t)[t] = completed[t] + 1
      /\ \A u \in Tasks \ {t} : Enqueue(t)[u] = completed[u]
  BY DEF TypeOK, Enqueue
<1>1. CASE Launch(t)
  <2>1. /\ status[t] = "NONE" /\ status' = [status EXCEPT ![t] = "RUNNING"]
        /\ loc' = [loc EXCEPT ![t] = "created"]
        /\ UNCHANGED <<completed, told, chatQueue, delivered, pending, cancelReq, userCancel>>
    BY <1>1 DEF Launch, deliveryVars, serverVars
  <2>2. ASSUME NEW u \in Tasks \ {t} PROVE Once(u)'
    <3>1. status'[u] = status[u] /\ loc'[u] = loc[u] /\ Once(u)
      BY <2>1 DEF TypeOK, AllOnce
    <3> QED BY <2>1, <3>1, OnceKept
  <2>3. ~Finished(t) /\ ~Finished(t)'
    BY <2>1 DEF Finished, Verdicts, TypeOK
  <2>4. t \notin delivered' /\ Reports(t)' = 0
    <3>1. t \notin delivered /\ Reports(t) = 0
      BY <2>3, UnfinishedUnreported
    <3>2. Reports(t)' = Reports(t)
      BY <2>1 DEF Reports
    <3> QED BY <2>1, <3>1, <3>2
  <2>5. Once(t)'
    BY <2>3, <2>4 DEF Once, Allowed
  <2> QED BY <2>2, <2>5 DEF AllOnce
<1>2. CASE Cancel(t)
  <2>1. /\ status[t] = "RUNNING" /\ status' = [status EXCEPT ![t] = "CANCELLED"]
        /\ cancelReq' = cancelReq \cup {t} /\ userCancel' = userCancel \cup {t}
        /\ OnTaskUpdate(t, Enqueue(t)) /\ UNCHANGED <<loc, chatQueue, told>>
    BY <1>2 DEF Cancel, serverVars
  <2>2. ~Finished(t)
    BY <2>1 DEF Finished, Verdicts
  <2> QED BY <1>0, <2>1, <2>2, OnceVerdict DEF Verdicts
<1>3. ASSUME NEW v \in Verdicts, Finish(t, v),
             v \in {"COMPLETED", "FAILED"} => t \notin cancelReq, loc[t] # "done"
      PROVE  AllOnce'
  <2> DEFINE q == IF v = "CANCELLED" THEN completed ELSE Enqueue(t)
  <2>1. /\ status' = [status EXCEPT ![t] = v] /\ loc' = [loc EXCEPT ![t] = "done"]
        /\ cancelReq' = cancelReq \ {t} /\ OnTaskUpdate(t, q)
        /\ UNCHANGED <<chatQueue, told, userCancel>>
    BY <1>3 DEF Finish, serverVars
  <2>2. /\ q \in [Tasks -> Nat] /\ \A u \in Tasks \ {t} : q[u] = completed[u]
        /\ q[t] \in {completed[t], completed[t] + 1}
        /\ q[t] # completed[t] => v # "CANCELLED"
    BY <1>0
  <2>3. loc'[t] = "done" /\ \A u \in Tasks \ {t} : loc'[u] = loc[u]
    BY <2>1 DEF TypeOK
  <2>4. ASSUME t \in delivered
        PROVE  status[t] = "CANCELLED" /\ t \in userCancel /\ t \in cancelReq
    BY <1>3, <2>4 DEF AllOnce, Once
  <2>5. t \in delivered /\ q[t] # completed[t] => v = "TIMED_OUT"
    BY <1>3, <2>2, <2>4 DEF Verdicts
  <2> HIDE DEF q
  <2> QED BY <2>1, <2>2, <2>3, <2>4, <2>5, OnceVerdict
<1>4. CASE SpawnFailed(t) \/ CommandDone(t) \/ Reaped(t) \/ CancelCaught(t)
  BY <1>3, <1>4 DEF SpawnFailed, CommandDone, Reaped, CancelCaught, Verdicts
<1>5. CASE Start(t) \/ Spawned(t) \/ Timeout(t) \/ Killed(t) \/ Exit(t)
  <2>1. UNCHANGED <<status, completed, told, chatQueue, delivered, pending, userCancel>>
    BY <1>5 DEF Start, Spawned, Timeout, Killed, Exit, deliveryVars, serverVars
  <2>2. ASSUME NEW u \in Tasks
        PROVE  /\ loc'[u] = "done" \/ (loc[u] = "done" => loc'[u] = "done")
               /\ u \in cancelReq => u \in cancelReq' \/ loc'[u] = "done"
               /\ loc[u] = "done" => loc'[u] = "done"
    BY <1>5 DEF Start, Spawned, Timeout, Killed, Exit, TypeOK
  <2>3. ASSUME NEW u \in Tasks PROVE Once(u)'
    <3>1. /\ Finished(u)' <=> Finished(u)
          /\ Reports(u)' = Reports(u) /\ Allowed(u)' = Allowed(u)
      BY <2>1 DEF Finished, Reports, Allowed
    <3> QED BY <2>1, <2>2, <3>1 DEF Once, AllOnce
  <2> QED BY <2>3 DEF AllOnce
<1> QED BY <1>1, <1>2, <1>4, <1>5 DEF TaskStep

\* On its way to the model a report is moved, told or dropped, never copied.
LEMMA OnceServer ==
  ASSUME TypeOK, AllOnce, Flush \/ UserMessage \/ BeginTurn \/ Drain
  PROVE  AllOnce'
<1>1. UNCHANGED <<status, loc, cancelReq, delivered, userCancel>>
  BY DEF Flush, UserMessage, BeginTurn, Drain, deliveryVars
<1>2. ASSUME NEW t \in Tasks
      PROVE  Reports(t)' <= Reports(t) /\ Reports(t)' \in Nat /\ Reports(t) \in Nat
  <2> DEFINE one(b) == IF b THEN 1 ELSE 0
  <2>1. /\ Reports(t) = told[t] + completed[t] + one(t \in pending) + Noted(t)
        /\ Reports(t)' = told'[t] + completed'[t] + one(t \in pending') + Noted(t)'
        /\ told[t] \in Nat /\ completed[t] \in Nat /\ Noted(t) \in Nat
    BY ReportsSum DEF Reports, Noted, Notes
  <2>2. CASE Flush
    <3>1. completed' = completed /\ told' = told /\ pending' = {} /\ pending \in SUBSET Tasks
      BY <2>2 DEF Flush, TypeOK
    <3>2. CASE Len(chatQueue) < QueueSize
      <4>1. Noted(t)' = Noted(t) + IF t \in pending THEN 1 ELSE 0
        BY <2>2, <3>1, <3>2, NotesSent DEF Flush
      <4> QED BY <2>1, <3>1, <4>1
    <3>3. CASE ~(Len(chatQueue) < QueueSize)
      <4>1. Noted(t)' = Noted(t)
        BY <2>2, <3>3 DEF Flush, Noted, Notes
      <4> QED BY <2>1, <3>1, <4>1
    <3> QED BY <3>2, <3>3
  <2>3. CASE UserMessage
    <3>1. completed' = completed /\ told' = told /\ pending' = pending
      BY <2>3 DEF UserMessage, deliveryVars
    <3>2. Noted(t)' = Noted(t) + IF t \in {} THEN 1 ELSE 0
      BY <2>3, NotesSent DEF UserMessage
    <3> QED BY <2>1, <3>1, <3>2
  <2>4. CASE BeginTurn
    <3>1. /\ completed' = completed /\ pending' = pending
          /\ told'[t] = told[t] + IF t \in Head(chatQueue) THEN 1 ELSE 0
      BY <2>4 DEF BeginTurn, deliveryVars
    <3>2. Noted(t) = Noted(t)' + IF t \in Head(chatQueue) THEN 1 ELSE 0
      BY <2>4, NotesReceived DEF BeginTurn
    <3>3. Noted(t)' \in Nat
      BY <2>4, NotesReceived DEF BeginTurn
    <3> QED BY <2>1, <3>1, <3>2, <3>3
  <2>5. CASE Drain
    <3>1. /\ completed'[t] = 0 /\ pending' = pending
          /\ told'[t] = told[t] + completed[t] /\ Noted(t)' = Noted(t)
      BY <2>5 DEF Drain, deliveryVars, Noted, Notes
    <3> QED BY <2>1, <3>1
  <2> QED BY <2>2, <2>3, <2>4, <2>5
<1>3. ASSUME NEW t \in Tasks PROVE Once(t)'
  <2>1. (Finished(t)' <=> Finished(t)) /\ Allowed(t)' = Allowed(t) /\ Once(t)
    BY <1>1 DEF Finished, Allowed, AllOnce
  <2>2. Reports(t) <= Allowed(t) /\ Allowed(t) \in Nat
    BY <2>1 DEF Once, Allowed
  <2>3. Reports(t)' <= Allowed(t)'
    BY <1>2, <2>1, <2>2
  <2> QED BY <1>1, <2>1, <2>3 DEF Once
<1> QED BY <1>3 DEF AllOnce

\* Both ways of delivery together report a task at most once, unless cancel() hit it
\* between its timeout and the end of communicate(): _bg_delivered, the removal from
\* the registry's queue and the check of the status in cancel() leave no other gap.
THEOREM NoDoubleReport == Spec => []ReportedOnce
<1>1. ASSUME Init PROVE AllOnce
  <2>1. TypeOK /\ OnlyFinishedReported
    BY <1>1, InitType DEF Init, OnlyFinishedReported, InChatQueue
  <2>2. ASSUME NEW t \in Tasks PROVE Once(t)
    <3>1. ~Finished(t)
      BY <1>1 DEF Init, Finished, Verdicts
    <3>2. t \notin delivered /\ Reports(t) = 0
      BY <2>1, <3>1, UnfinishedUnreported
    <3> QED BY <3>1, <3>2 DEF Once, Allowed
  <2> QED BY <2>2 DEF AllOnce
<1>2. ASSUME TypeOK, TypeOK', OnlyFinishedReported, Coroutines, AllOnce, [Next]_vars
      PROVE  AllOnce'
  <2>1. CASE \E t \in Tasks : Launch(t) \/ Cancel(t) \/ TaskStep(t) \/ Exit(t)
    BY <1>2, <2>1, OnceTask
  <2>2. CASE Flush \/ UserMessage \/ BeginTurn \/ Drain
    BY <1>2, <2>2, OnceServer
  <2>3. CASE EndTurn \/ Shutdown \/ UNCHANGED vars
    <3>1. /\ UNCHANGED <<status, loc, completed, told, chatQueue, delivered, pending, userCancel>>
          /\ cancelReq \subseteq cancelReq'
      BY <2>3 DEF EndTurn, Shutdown, vars, deliveryVars, serverVars
    <3>2. ASSUME NEW t \in Tasks PROVE Once(t)'
      <4>1. Once(t)
        BY <1>2 DEF AllOnce
      <4> QED BY <3>1, <4>1, OnceKept
    <3> QED BY <3>2 DEF AllOnce
  <2> QED BY <1>2, <2>1, <2>2, <2>3 DEF Next
<1>3. AllOnce => ReportedOnce
  BY DEF AllOnce, Once, Allowed, ReportedOnce
<1>4. Spec => [](NothingLost /\ OnlyFinishedReported)
  BY ResultsDelivered
<1> QED BY <1>1, <1>2, <1>3, <1>4, TypeCorrect, CoroutinesInOrder, PTL DEF Spec

-----------------------------------------------------------------------------
(* Refinement *)

Stages == [t \in Tasks |-> Stage(t)]

\* Nothing that the stages depend on changes.
LEMMA SameStages ==
  ASSUME UNCHANGED <<status, told, dropped>>
  PROVE  Stages' = Stages
BY DEF Stages, Stage, Finished

\* A verdict takes a running task to its end, or replaces another verdict.
LEMMA VerdictStage ==
  ASSUME TypeOK, OnlyFinishedReported, NEW t \in Tasks, NEW v \in Verdicts,
         status[t] # "NONE", status' = [status EXCEPT ![t] = v],
         UNCHANGED <<told, dropped>>
  PROVE  Life!Finish(t) \/ Stages' = Stages
<1>1. \A u \in Tasks \ {t} : Stage(u)' = Stage(u)
  BY DEF Stage, Finished, TypeOK
<1>2. status'[t] = v
  BY DEF TypeOK
<1>3. CASE Finished(t)
  <2>1. Stage(t)' = Stage(t)
    BY <1>2, <1>3 DEF Stage, Finished
  <2> QED BY <1>1, <2>1 DEF Stages
<1>4. CASE ~Finished(t)
  <2>1. status[t] = "RUNNING" /\ ~(told[t] > 0) /\ t \notin dropped
    BY <1>4 DEF TypeOK, Statuses, Finished, OnlyFinishedReported
  <2>2. Stage(t) = "running" /\ Stage(t)' = "finished"
    BY <1>2, <1>4, <2>1 DEF Stage, Finished
  <2>3. Stages' = [Stages EXCEPT ![t] = "finished"]
    BY <1>1, <2>2 DEF Stages
  <2> QED BY <2>2, <2>3 DEF Stages, Life!Finish, Life!Move
<1> QED BY <1>3, <1>4

\* Telling the model about a batch of finished tasks, or dropping the batch.
LEMMA ReportStage ==
  ASSUME TypeOK, NEW B \in SUBSET Tasks, \A t \in B : Finished(t), status' = status,
         \/ /\ dropped' = dropped
            /\ \A t \in Tasks : told'[t] > 0 <=> told[t] > 0 \/ t \in B
         \/ told' = told /\ dropped' = dropped \cup B
  PROVE  Life!Report(B, "told") \/ Life!Report(B, "dropped")
<1>1. \A t \in B : Stages[t] \in {"finished", "told", "dropped"}
  BY DEF Stages, Stage, Finished
<1>2. \A t \in Tasks : Finished(t)' <=> Finished(t)
  BY DEF Finished
<1>3. CASE /\ dropped' = dropped
           /\ \A t \in Tasks : told'[t] > 0 <=> told[t] > 0 \/ t \in B
  <2>1. \A t \in Tasks :
          Stage(t)' = IF t \in B /\ Stage(t) # "told" THEN "told" ELSE Stage(t)
    BY <1>2, <1>3 DEF Stage
  <2> QED BY <1>1, <2>1 DEF Life!Report, Stages
<1>4. CASE told' = told /\ dropped' = dropped \cup B
  <2>1. \A t \in Tasks :
          Stage(t)' = IF t \in B /\ Stage(t) # "told" THEN "dropped" ELSE Stage(t)
    BY <1>2, <1>4 DEF Stage
  <2> QED BY <1>1, <2>1 DEF Life!Report, Stages
<1> QED BY <1>3, <1>4

\* What Life allows in a step.
LifeStep == Life!Next \/ Stages' = Stages

LEMMA TaskStage ==
  ASSUME TypeOK, OnlyFinishedReported, Coroutines, NEW t \in Tasks,
         Launch(t) \/ Cancel(t) \/ TaskStep(t) \/ Exit(t)
  PROVE  LifeStep
<1>1. CASE Launch(t)
  <2>1. /\ status[t] = "NONE" /\ status' = [status EXCEPT ![t] = "RUNNING"]
        /\ UNCHANGED <<told, dropped>>
    BY <1>1 DEF Launch, serverVars
  <2>2. \A u \in Tasks \ {t} : Stage(u)' = Stage(u)
    BY <2>1 DEF Stage, Finished, TypeOK
  <2>3. ~(told[t] > 0) /\ t \notin dropped
    BY <2>1 DEF OnlyFinishedReported, Finished, Verdicts
  <2>4. Stage(t) = "idle" /\ Stage(t)' = "running"
    BY <2>1, <2>3 DEF Stage, Finished, Verdicts, TypeOK
  <2>5. Stages' = [Stages EXCEPT ![t] = "running"]
    BY <2>2, <2>4 DEF Stages
  <2>6. Life!Launch(t)
    BY <2>4, <2>5 DEF Stages, Life!Launch, Life!Move
  <2> QED BY <2>6 DEF LifeStep, Life!Next
<1>2. ASSUME NEW v \in Verdicts, status[t] # "NONE", status' = [status EXCEPT ![t] = v],
             UNCHANGED <<told, dropped>>
      PROVE  LifeStep
  BY <1>2, VerdictStage DEF LifeStep, Life!Next
<1>3. CASE Cancel(t)
  BY <1>2, <1>3 DEF Cancel, Verdicts, serverVars
<1>4. ASSUME NEW v \in Verdicts, Finish(t, v), loc[t] # "none" PROVE LifeStep
  <2>1. status[t] # "NONE"
    BY <1>4 DEF Coroutines, Coroutine
  <2> QED BY <1>2, <1>4, <2>1 DEF Finish, serverVars
<1>5. CASE SpawnFailed(t) \/ CommandDone(t) \/ Reaped(t) \/ CancelCaught(t)
  BY <1>4, <1>5 DEF SpawnFailed, CommandDone, Reaped, CancelCaught, Verdicts
<1>6. CASE Start(t) \/ Spawned(t) \/ Timeout(t) \/ Killed(t) \/ Exit(t)
  <2>1. UNCHANGED <<status, told, dropped>>
    BY <1>6 DEF Start, Spawned, Timeout, Killed, Exit, serverVars
  <2> QED BY <2>1, SameStages DEF LifeStep
<1> QED BY <1>1, <1>3, <1>5, <1>6 DEF TaskStep

LEMMA ServerStage ==
  ASSUME TypeOK, OnlyFinishedReported, Flush \/ UserMessage \/ BeginTurn \/ Drain
  PROVE  LifeStep
<1>1. ASSUME NEW B \in SUBSET Tasks, Life!Report(B, "told") \/ Life!Report(B, "dropped")
      PROVE  LifeStep
  BY <1>1 DEF LifeStep, Life!Next
<1>2. CASE Flush
  <2>1. status' = status /\ told' = told /\ pending \in SUBSET Tasks
        /\ \A t \in pending : Finished(t)
    BY <1>2 DEF Flush, TypeOK, OnlyFinishedReported
  <2>2. CASE dropped' = dropped
    BY <2>1, <2>2, SameStages DEF LifeStep
  <2>3. CASE dropped' = dropped \cup pending
    BY <1>1, <2>1, <2>3, ReportStage
  <2> QED BY <1>2, <2>2, <2>3 DEF Flush
<1>3. CASE UserMessage
  BY <1>3, SameStages DEF UserMessage, LifeStep
<1>4. CASE BeginTurn
  <2> DEFINE B == Head(chatQueue)
  <2>1. /\ chatQueue # <<>> /\ status' = status /\ dropped' = dropped
        /\ told' = [t \in Tasks |-> told[t] + IF t \in B THEN 1 ELSE 0]
    BY <1>4 DEF BeginTurn
  <2>2. B = chatQueue[1] /\ 1 \in 1 .. Len(chatQueue) /\ B \in SUBSET Tasks
    BY <2>1 DEF TypeOK
  <2>3. \A t \in B : Finished(t)
    BY <2>2 DEF OnlyFinishedReported, InChatQueue
  <2>4. \A t \in Tasks : told'[t] > 0 <=> told[t] > 0 \/ t \in B
    BY <2>1 DEF TypeOK
  <2> HIDE DEF B
  <2> QED BY <1>1, <2>1, <2>2, <2>3, <2>4, ReportStage
<1>5. CASE Drain
  <2> DEFINE B == {t \in Tasks : completed[t] > 0}
  <2>1. status' = status /\ dropped' = dropped
    BY <1>5 DEF Drain
  <2>2. B \in SUBSET Tasks /\ \A t \in B : Finished(t)
    BY DEF OnlyFinishedReported
  <2>3. \A t \in Tasks : told'[t] > 0 <=> told[t] > 0 \/ t \in B
    BY <1>5 DEF Drain, TypeOK
  <2> HIDE DEF B
  <2> QED BY <1>1, <2>1, <2>2, <2>3, ReportStage
<1> QED BY <1>2, <1>3, <1>4, <1>5

\* The registry, the server and the tool loop together give each task the life
\* that TaskLife promises: launched, finished, then told or dropped, never back.
THEOREM TasksHaveTheirLife == Spec => ImplementsTaskLife
<1>1. Init => Life!Init
  BY DEF Init, Life!Init, Stage, Finished, Verdicts
<1>2. ASSUME TypeOK, OnlyFinishedReported, Coroutines, [Next]_vars
      PROVE  [Life!Next]_Stages
  <2>1. CASE EndTurn \/ Shutdown \/ UNCHANGED vars
    <3>1. UNCHANGED <<status, told, dropped>>
      BY <2>1 DEF EndTurn, Shutdown, vars, serverVars
    <3> QED BY <3>1, SameStages
  <2>2. LifeStep => [Life!Next]_Stages
    BY DEF LifeStep
  <2> QED BY <1>2, <2>1, <2>2, TaskStage, ServerStage DEF Next
<1>3. TypeOK /\ OnlyFinishedReported /\ Coroutines /\ [Next]_vars
        => [Life!Next]_([t \in Tasks |-> Stage(t)])
  BY <1>2 DEF Stages
<1>4. Spec => [](NothingLost /\ OnlyFinishedReported)
  BY ResultsDelivered
<1> QED BY <1>1, <1>3, <1>4, TypeCorrect, CoroutinesInOrder, PTL
        DEF Spec, ImplementsTaskLife, Life!Spec

=============================================================================
