----------------------------- MODULE ServerLoop -----------------------------
(***************************************************************************)
(* The loops of the stdio server (server/stdio_server.py): a thread reads   *)
(* the extension's lines, callbacks put them in the stdin queue, the        *)
(* receive loop dispatches them, chat messages through a queue of their     *)
(* own to the main loop, which runs one turn at a time.                     *)
(*                                                                          *)
(* Both queues are bounded.  A line for a full stdin queue is lost: the     *)
(* QueueFull is raised in the event loop's callback, not in the thread that *)
(* would catch it.  A chat message for a full chat queue makes the receive  *)
(* loop wait, and with it the answers and Stops behind the message.         *)
(*                                                                          *)
(* A turn is what the loops see of it: it runs, waits for the user's answer *)
(* to a prompt, or has been cancelled; UIProtocol and ToolLoop look inside. *)
(* A definition named Bug... is the mutant of the definition after it.      *)
(***************************************************************************)
EXTENDS Naturals, Sequences

CONSTANTS
  MaxStdin,    \* _MAX_STDIN_QUEUE
  MaxChat,     \* _MAX_CHAT_QUEUE
  MaxSends,    \* bound: chat messages
  MaxPrompts,  \* bound: prompts
  MaxStops,    \* bound: presses of Stop
  MaxNotes     \* bound: notifications of background tasks

ASSUME ConstantsAssumption ==
  /\ MaxStdin \in Nat \ {0} /\ MaxChat \in Nat \ {0}
  /\ MaxSends \in Nat /\ MaxPrompts \in Nat /\ MaxStops \in Nat /\ MaxNotes \in Nat

\* Lines on stdin: chat message n, one that is empty or too large, the answer to
\* prompt n, Stop, the end of file.
Chat(n)   == <<"chat", n>>
Refused   == <<"refused", 0>>
Answer(n) == <<"answer", n>>
Stop      == <<"stop", 0>>
Eof       == <<"eof", 0>>
Note      == <<"note", 0>>   \* in the chat queue only
IsChat(l) == l[1] = "chat"

VARIABLES
  gone,        \* the extension has closed stdin and the data connection
  pipe,        \* lines written, and not yet met by the callback that queues them
  stdinQ,      \* _stdin_queue
  putting,     \* chat messages whose put() waits for room
  receiving,   \* receive_task is not done
  chatQ,       \* _chat_queue
  main,        \* the main loop: poll, took (a message), turn, stopped
  current,     \* the message the main loop took last
  task,        \* _streaming_task: none, run, ask, cancelled
  interrupted, \* _interrupted
  closed,      \* _closed: a send has failed
  sends, prompts, stops, notes,  \* how many so far
  accepted,    \* history: chat messages the stdin queue had room for
  served,      \* history: chat messages the main loop took
  lost         \* history: lines the stdin queue had no room for

extensionVars == <<gone, sends, stops>>
queueVars     == <<pipe, stdinQ, accepted, lost>>
receiveVars   == <<putting, receiving>>
mainVars      == <<main, current, served>>
turnVars      == <<task, interrupted, prompts>>
vars == <<extensionVars, queueVars, receiveVars, chatQ, mainVars, turnVars, closed, notes>>

Init ==
  /\ gone = FALSE /\ pipe = <<>> /\ stdinQ = <<>>
  /\ putting = {} /\ receiving = TRUE /\ chatQ = <<>>
  /\ main = "poll" /\ current = Note /\ task = "none"
  /\ interrupted = FALSE /\ closed = FALSE
  /\ sends = 0 /\ prompts = 0 /\ stops = 0 /\ notes = 0
  /\ accepted = <<>> /\ served = <<>> /\ lost = {}

-----------------------------------------------------------------------------
(* The extension.                                                           *)

Write(line) ==
  /\ ~gone
  /\ pipe' = Append(pipe, line)
  /\ UNCHANGED <<stdinQ, accepted, lost, receiveVars, chatQ, mainVars, turnVars, closed, notes>>

\* Write does not look at what it sends.
SendChat ==
  /\ sends < MaxSends /\ sends' = sends + 1
  /\ Write(Chat(sends')) \/ Write(Refused)
  /\ UNCHANGED <<gone, stops>>

PressStop ==
  stops < MaxStops /\ stops' = stops + 1 /\ Write(Stop) /\ UNCHANGED <<gone, sends>>

\* A line that is still on its way to its handler.
InFlight(line) == \E q \in {pipe, stdinQ} : \E i \in DOMAIN q : q[i] = line

SendAnswer ==
  /\ task = "ask" /\ ~InFlight(Answer(prompts))
  /\ Write(Answer(prompts)) /\ UNCHANGED extensionVars

\* The window closes: the thread reads an end of file, and sends begin to fail.
Leave ==
  /\ Write(Eof) \* the thread posts None when its loop over the lines is over
  /\ gone' = TRUE
  /\ UNCHANGED <<sends, stops>>

-----------------------------------------------------------------------------
(* put_nowait, as call_soon_threadsafe runs it.                             *)
Enqueue ==
  /\ pipe # <<>> /\ main # "stopped"
  /\ pipe' = Tail(pipe)
  /\ IF Len(stdinQ) < MaxStdin
     THEN /\ stdinQ' = Append(stdinQ, Head(pipe))
          /\ accepted' = IF IsChat(Head(pipe)) THEN Append(accepted, Head(pipe)) ELSE accepted
          /\ UNCHANGED lost
     ELSE lost' = lost \cup {Head(pipe)} /\ UNCHANGED <<stdinQ, accepted>>
  /\ UNCHANGED <<extensionVars, receiveVars, chatQ, mainVars, turnVars, closed, notes>>

-----------------------------------------------------------------------------
(* receive_loop: one line at a time, its handler awaited.  The mutant makes *)
(* a task of the handler.                                                   *)
BugIdle == receiving
Idle    == receiving /\ putting = {}

Get(line) ==
  /\ Idle /\ stdinQ # <<>> /\ Head(stdinQ) = line
  /\ stdinQ' = Tail(stdinQ)
  /\ UNCHANGED <<extensionVars, pipe, accepted, lost, mainVars, prompts, notes>>

ReceiveChat ==
  \E n \in 1 .. MaxSends :
    /\ Get(Chat(n))
    /\ IF Len(chatQ) < MaxChat
       THEN chatQ' = Append(chatQ, Chat(n)) /\ UNCHANGED putting
       ELSE putting' = putting \cup {Chat(n)} /\ UNCHANGED chatQ
    /\ UNCHANGED <<receiving, task, interrupted, closed>>

\* An empty message is dropped; of one that is too large the user is told, by a send
\* that finds out when the peer is gone.
RefuseChat ==
  /\ Get(Refused)
  /\ closed' \in {closed, closed \/ gone}
  /\ UNCHANGED <<receiveVars, chatQ, task, interrupted>>

\* The put() that waited finds room.
PutWakes ==
  /\ receiving /\ Len(chatQ) < MaxChat
  /\ \E l \in putting : chatQ' = Append(chatQ, l) /\ putting' = putting \ {l}
  /\ UNCHANGED <<extensionVars, queueVars, receiving, mainVars, turnVars, closed, notes>>

\* submit_action: the answer resolves the future of its prompt, if that one waits.
ReceiveAnswer ==
  \E n \in 1 .. MaxPrompts :
    /\ Get(Answer(n))
    /\ task' = IF task = "ask" /\ prompts = n THEN "run" ELSE task
    /\ UNCHANGED <<receiveVars, chatQ, interrupted, closed>>

\* StdioProtocol.submit_action: the flag, then the streaming task, if there is one.
\* The mutant sets the flag only.
BugReceiveStop ==
  /\ Get(Stop)
  /\ interrupted' = TRUE
  /\ UNCHANGED <<receiveVars, chatQ, task, closed>>

ReceiveStop ==
  /\ Get(Stop)
  /\ interrupted' = TRUE
  /\ task' = IF task = "none" THEN "none" ELSE "cancelled"
  /\ UNCHANGED <<receiveVars, chatQ, closed>>

ReceiveEof ==
  /\ Get(Eof)
  /\ receiving' = FALSE
  /\ UNCHANGED <<putting, chatQ, task, interrupted, closed>>

-----------------------------------------------------------------------------
(* The main loop.                                                           *)

\* A batch of background tasks has finished; dropped when the queue is full.
FlushNotifications ==
  /\ notes < MaxNotes /\ notes' = notes + 1 /\ main # "stopped"
  /\ chatQ' = IF Len(chatQ) < MaxChat THEN Append(chatQ, Note) ELSE chatQ
  /\ UNCHANGED <<extensionVars, queueVars, receiveVars, mainVars, turnVars, closed>>

\* wait_for_chat_message runs in a task of wait_for's: the main loop goes on later.
TakeMessage ==
  /\ main = "poll" /\ chatQ # <<>>
  /\ main' = "took" /\ current' = Head(chatQ) /\ chatQ' = Tail(chatQ)
  /\ served' = IF IsChat(Head(chatQ)) THEN Append(served, Head(chatQ)) ELSE served
  /\ UNCHANGED <<extensionVars, queueVars, receiveVars, turnVars, closed, notes>>

\* reset(), then a streaming task.  Its first events find out that the peer is gone.
StartTurn ==
  /\ main = "took"
  /\ main' = "turn" /\ task' = "run" /\ interrupted' = FALSE
  /\ closed' = (closed \/ gone)
  /\ UNCHANGED <<extensionVars, queueVars, receiveVars, chatQ, current, served, prompts, notes>>

\* An approval, a clarification, a plan or a pause: they are awaited without a timeout.
Ask ==
  /\ task = "run" /\ ~closed /\ ~interrupted
  /\ prompts < MaxPrompts /\ prompts' = prompts + 1
  /\ task' = "ask"
  /\ UNCHANGED <<extensionVars, queueVars, receiveVars, chatQ, mainVars, interrupted, closed, notes>>

\* A send that fails, in a turn or while a prompt waits (a store notification).
SendFails ==
  /\ gone /\ task \in {"run", "ask"} /\ closed' = TRUE /\ ~closed
  /\ UNCHANGED <<extensionVars, queueVars, receiveVars, chatQ, mainVars, turnVars, notes>>

\* The turn is over: it has come to its end, it has met the flag, _stream_and_send
\* has met a closed connection, which it treats as a Stop, or it was cancelled.
EndTurn ==
  /\ task \in {"run", "cancelled"}
  /\ main' = "poll" /\ task' = "none"
  /\ interrupted' \in {interrupted, interrupted \/ closed}
  /\ UNCHANGED <<extensionVars, queueVars, receiveVars, chatQ, current, served, prompts, closed, notes>>

\* The poll times out: only then does the main loop look whether it should stop.  The
\* mutant does not look at the receive loop's end.
BugShutDown ==
  /\ main = "poll" /\ chatQ = <<>> /\ closed
  /\ main' = "stopped" /\ receiving' = FALSE /\ putting' = {}
  /\ UNCHANGED <<extensionVars, queueVars, chatQ, current, served, turnVars, closed, notes>>

ShutDown ==
  /\ main = "poll" /\ chatQ = <<>> /\ (~receiving \/ closed)
  /\ main' = "stopped" /\ receiving' = FALSE /\ putting' = {}
  /\ UNCHANGED <<extensionVars, queueVars, chatQ, current, served, turnVars, closed, notes>>

-----------------------------------------------------------------------------
Receive == ReceiveChat \/ RefuseChat \/ PutWakes \/ ReceiveAnswer \/ ReceiveStop \/ ReceiveEof
Turn    == TakeMessage \/ StartTurn \/ EndTurn \/ ShutDown
User    == SendChat \/ PressStop \/ SendAnswer \/ Leave

Next == User \/ Enqueue \/ Receive \/ Turn \/ FlushNotifications \/ Ask \/ SendFails

Spec == Init /\ [][Next]_vars

\* The event loop runs what is ready, and a turn that does not wait for the user
\* comes to an end; the user owes nothing.
FairSpec == Spec /\ WF_vars(Enqueue) /\ WF_vars(Receive) /\ WF_vars(Turn)

-----------------------------------------------------------------------------
Lines == ({"chat"} \X (1 .. MaxSends)) \cup ({"answer"} \X (1 .. MaxPrompts)) \cup {Refused, Stop, Eof}
Chats == {"chat"} \X (1 .. MaxSends)

TypeOK ==
  /\ gone \in BOOLEAN /\ receiving \in BOOLEAN /\ interrupted \in BOOLEAN /\ closed \in BOOLEAN
  /\ pipe \in Seq(Lines) /\ stdinQ \in Seq(Lines) /\ Len(stdinQ) <= MaxStdin
  /\ chatQ \in Seq(Chats \cup {Note}) /\ Len(chatQ) <= MaxChat
  /\ putting \in SUBSET Chats
  /\ main \in {"poll", "took", "turn", "stopped"} /\ current \in Chats \cup {Note}
  /\ task \in {"none", "run", "ask", "cancelled"}
  /\ sends \in 0 .. MaxSends /\ prompts \in 0 .. MaxPrompts
  /\ stops \in 0 .. MaxStops /\ notes \in 0 .. MaxNotes
  /\ accepted \in Seq(Chats) /\ served \in Seq(Chats) /\ lost \in SUBSET Lines

\* The receive loop waits for room in the chat queue.
Jammed == putting # {}

\* The chat messages of a queue, in their order.
ChatsOf(q) ==
  LET first[i \in 0..Len(q)] ==
        IF i = 0 THEN <<>>
        ELSE IF IsChat(q[i]) THEN Append(first[i - 1], q[i]) ELSE first[i - 1]
  IN  first[Len(q)]

\* A chat message the stdin queue had room for is in one place until a turn serves
\* it, and the messages keep their order through both queues, a put() that waits,
\* and the notifications that join the second queue.
AcceptedInOrder ==
  main # "stopped" =>
    \E waiting \in {<<>>} \cup {<<l>> : l \in putting} :
      accepted = served \o ChatsOf(chatQ) \o waiting \o ChatsOf(stdinQ)

\* A prompt the user has answered, or pressed Stop at, does not wait on; but the line
\* may be lost at a full stdin queue, or behind a chat message that waits for room.
PromptReleased ==
  (task = "ask" /\ (InFlight(Stop) \/ InFlight(Answer(prompts))))
     ~> (task # "ask" \/ Jammed \/ lost # {})

\* Without the extension the server comes to its end; but not while a prompt waits,
\* which has no timeout, or when the end of file found the stdin queue full.
ServerStops == gone ~> (main = "stopped" \/ task = "ask" \/ Eof \in lost)

=============================================================================
