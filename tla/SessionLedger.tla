---------------------------- MODULE SessionLedger ----------------------------
(***************************************************************************)
(* The transcript of a session: the message store that the agent's memory  *)
(* appends to (session/store, memory/memory_manager.py), the writer that   *)
(* copies it to the session's JSONL file (session/persistence/writer.py),  *)
(* the parser and the hydrator that rebuild a store from the file, and the *)
(* stdio server's handlers that switch sessions.                           *)
(*                                                                         *)
(* The writer's handler only schedules a coroutine, so a message is in the *)
(* store before it is in the file, and a handler of the server may run in  *)
(* between, or in the middle of a turn.  A message names the session whose *)
(* turn produced it, so that one that lands elsewhere can be told.         *)
(*                                                                         *)
(* A definition named Bug... is the mutant of the definition after it.     *)
(***************************************************************************)
EXTENDS Naturals, Sequences, FiniteSets

CONSTANTS
  Sessions,      \* session ids
  NoSession,     \* no session: the process is down
  MaxMessages,   \* bound: messages in all sessions together
  MinCompact,    \* compaction is skipped below this many context messages
  TornWrites,    \* may a crash leave half a line in the file?
  SwitchMidTurn  \* may the user switch sessions while a turn runs?

ASSUME ConstantsAssumption ==
  /\ NoSession \notin Sessions
  /\ MaxMessages \in Nat /\ MinCompact \in Nat
  /\ TornWrites \in BOOLEAN /\ SwitchMidTurn \in BOOLEAN

Ids == 1 .. MaxMessages
Flips == {"deleted", "restored"}
Kinds == {"user", "reply", "result", "boundary", "summary"} \cup Flips
Phases == {"idle", "llm", "compacting", "tools"}

\* about: the messages that a turn_deleted or turn_restored event names.
Messages == [id : Ids, kind : Kinds, origin : Sessions, about : SUBSET Ids]

\* del: meta.deleted, as it was when the line was written.
Lines == [bad : BOOLEAN, msg : Messages, del : BOOLEAN]

VARIABLES
  mem,      \* the session of memory._message_store
  writer,   \* the session whose file the SessionWriter appends to
  store,    \* the messages of the store, in the order of their seq
  deleted,  \* ids of the messages in memory whose meta.deleted is set
  pending,  \* messages whose write is scheduled
  file,     \* the lines of each JSONL file
  partial,  \* does the file end in the middle of a line?
  phase,    \* where the turn is
  origin,   \* the session the turn began in
  nextId,   \* the next message id
  flushed,  \* history: the messages whose flush() returned
  tears     \* history: how many were flushed when a crash cut a line of the file

turnVars == <<phase, origin>>
fileVars == <<file, partial, flushed, tears>>
vars == <<mem, writer, store, deleted, pending, fileVars, turnVars, nextId>>

TypeOK ==
  /\ mem \in Sessions \cup {NoSession} /\ writer \in Sessions \cup {NoSession}
  /\ store \in Seq(Messages) /\ pending \in Seq(Messages)
  /\ deleted \in SUBSET Ids
  /\ file \in [Sessions -> Seq(Lines)]
  /\ partial \in [Sessions -> BOOLEAN]
  /\ flushed \in [Sessions -> Seq(Messages)]
  /\ tears \in [Sessions -> SUBSET Nat]
  /\ phase \in Phases
  /\ origin \in Sessions \cup {NoSession}
  /\ phase # "idle" => mem \in Sessions /\ origin \in Sessions
  /\ nextId \in Nat \ {0}

Init ==
  /\ mem = NoSession /\ writer = NoSession
  /\ store = <<>> /\ deleted = {} /\ pending = <<>>
  /\ file = [s \in Sessions |-> <<>>]
  /\ partial = [s \in Sessions |-> FALSE]
  /\ flushed = [s \in Sessions |-> <<>>]
  /\ tears = [s \in Sessions |-> {}]
  /\ phase = "idle" /\ origin = NoSession
  /\ nextId = 1

-----------------------------------------------------------------------------
(* Reading a file *)

\* parse_file_iter: the good lines before the first bad one.  A bad last line is
\* skipped; any other one ends the load, and the hydrator keeps what it has.  The
\* mutant takes every line for good.
BugGoodLength(ls) == Len(ls)

GoodLength(ls) ==
  CHOOSE n \in 0 .. Len(ls) :
    /\ \A i \in 1 .. n : ~ls[i].bad
    /\ n < Len(ls) => ls[n + 1].bad

Loaded(s) == [i \in 1 .. GoodLength(file[s]) |-> file[s][i].msg]

\* The lines after line i that flip meta.deleted of its message.
FlipsOf(ls, i) ==
  {j \in i + 1 .. GoodLength(ls) : ls[j].msg.kind \in Flips /\ ls[i].msg.id \in ls[j].msg.about}

\* add_message replays turn_deleted and turn_restored: the last one wins.  The
\* mutant replays deletions only.
BugDeletedIn(ls) ==
  {ls[i].msg.id : i \in {j \in 1 .. GoodLength(ls) :
     ls[j].del \/ \E k \in FlipsOf(ls, j) : ls[k].msg.kind = "deleted"}}

DeletedIn(ls) ==
  {ls[i].msg.id : i \in {j \in 1 .. GoodLength(ls) :
     IF FlipsOf(ls, j) = {}
       THEN ls[j].del
       ELSE \E k \in FlipsOf(ls, j) :
              ls[k].msg.kind = "deleted" /\ \A l \in FlipsOf(ls, j) : l <= k}}

\* get_llm_context: what follows the last compaction boundary and is not deleted.
Context(st, del) ==
  LET Last == {i \in 1 .. Len(st) : st[i].kind = "boundary"
                 /\ \A j \in i + 1 .. Len(st) : st[j].kind # "boundary"}
      Kept(i) == (\A b \in Last : b < i) /\ st[i].id \notin del /\ st[i].kind \notin Flips \cup {"boundary"}
  IN {i \in 1 .. Len(st) : Kept(i)}

-----------------------------------------------------------------------------
(* Adding messages *)

\* add_message: the messages enter the store; if the writer is bound to it, their
\* writes are scheduled.
Add(ms) ==
  /\ nextId + Len(ms) - 1 <= MaxMessages
  /\ nextId' = nextId + Len(ms)
  /\ store' = store \o ms
  /\ pending' = IF writer = mem THEN pending \o ms ELSE pending

Msg(k, o, a) == [id |-> nextId, kind |-> k, origin |-> o, about |-> a]

\* A turn begins: stream_response persists the user's message.
Chat ==
  /\ mem # NoSession /\ phase = "idle"
  /\ SwitchMidTurn \/ writer = mem
  /\ Add(<<Msg("user", mem, {})>>)
  /\ phase' = "llm" /\ origin' = mem
  /\ UNCHANGED <<mem, writer, deleted, fileVars>>

\* The LLM has answered: the finalized message is persisted, and then the loop
\* compacts a long context, runs the tool calls, or ends.
Reply ==
  /\ phase = "llm"
  /\ Add(<<Msg("reply", origin, {})>>)
  /\ phase' \in {"compacting", "tools", "idle"}
  /\ phase' = "compacting" => Cardinality(Context(store', deleted)) > MinCompact
  /\ UNCHANGED <<mem, writer, deleted, fileVars, origin>>

\* The summary is there: compact() puts a boundary and the summary into the store
\* that memory has now, if it has a message.
Compacted ==
  /\ phase = "compacting"
  /\ phase' \in {"tools", "idle"}
  /\ IF store = <<>>
       THEN UNCHANGED <<store, pending, nextId>>
       ELSE Add(<<Msg("boundary", origin, {}), [Msg("summary", origin, {}) EXCEPT !.id = nextId + 1]>>)
  /\ UNCHANGED <<mem, writer, deleted, fileVars, origin>>

\* add_tool_result; after the last one the LLM is called again.
Result ==
  /\ phase = "tools"
  /\ Add(<<Msg("result", origin, {})>>)
  /\ phase' \in {"tools", "llm"}
  /\ UNCHANGED <<mem, writer, deleted, fileVars, origin>>

\* Stop, an error, or a rejected tool ends the turn.
EndTurn ==
  /\ phase \in {"llm", "tools"}
  /\ phase' = "idle"
  /\ UNCHANGED <<mem, writer, store, deleted, pending, fileVars, origin, nextId>>

\* get_turn_uuids: the user's message at i, and the replies and results up to the
\* next message of the user.
TurnAt(i) ==
  {store[j].id : j \in {k \in i .. Len(store) :
     /\ k = i \/ store[k].kind \in {"reply", "result"}
     /\ \A l \in i + 1 .. k : store[l].kind # "user"}}

\* delete_turn and restore_turn: flip the flags, then persist an event with the
\* ids.  The handlers run in the receive loop, which waits for a session switch.
Flip(i, k) ==
  /\ mem # NoSession /\ writer = mem
  /\ store[i].kind = "user"
  /\ deleted' = IF k = "deleted" THEN deleted \cup TurnAt(i) ELSE deleted \ TurnAt(i)
  /\ Add(<<Msg(k, mem, TurnAt(i))>>)
  /\ UNCHANGED <<mem, writer, fileVars, turnVars>>

-----------------------------------------------------------------------------
(* The writer *)

\* _handle_event_tracked: one line is written and flushed.  After half a line
\* the new one is glued to it, and both are one bad line.  The mutant lets a later
\* write overtake.
BugWrite ==
  /\ pending # <<>>
  /\ LET m == pending[Len(pending)]
         ls == file[writer]
         line == [bad |-> FALSE, msg |-> m, del |-> m.id \in deleted]
     IN /\ file' = [file EXCEPT ![writer] = IF partial[writer] THEN ls ELSE Append(ls, line)]
        /\ flushed' = [flushed EXCEPT ![writer] = Append(@, m)]
  /\ partial' = [partial EXCEPT ![writer] = FALSE]
  /\ pending' = SubSeq(pending, 1, Len(pending) - 1)
  /\ UNCHANGED <<mem, writer, store, deleted, tears, turnVars, nextId>>

Write ==
  /\ pending # <<>>
  /\ LET m == Head(pending)
         ls == file[writer]
         line == [bad |-> FALSE, msg |-> m, del |-> m.id \in deleted]
     IN /\ file' = [file EXCEPT ![writer] = IF partial[writer] THEN ls ELSE Append(ls, line)]
        /\ flushed' = [flushed EXCEPT ![writer] = Append(@, m)]
  /\ partial' = [partial EXCEPT ![writer] = FALSE]
  /\ pending' = Tail(pending)
  /\ UNCHANGED <<mem, writer, store, deleted, tears, turnVars, nextId>>

\* The process dies: what was not written is lost, and a write may be cut short.
\* The mutant is a writer that does not flush.
BugCrash ==
  /\ mem # NoSession
  /\ mem' = NoSession /\ writer' = NoSession
  /\ store' = <<>> /\ deleted' = {} /\ pending' = <<>>
  /\ phase' = "idle" /\ origin' = NoSession
  /\ file' = [file EXCEPT ![writer] = SubSeq(@, 1, IF @ = <<>> THEN 0 ELSE Len(@) - 1)]
  /\ UNCHANGED <<partial, flushed, tears, nextId>>

Crash ==
  /\ mem # NoSession
  /\ mem' = NoSession /\ writer' = NoSession
  /\ store' = <<>> /\ deleted' = {} /\ pending' = <<>>
  /\ phase' = "idle" /\ origin' = NoSession
  /\ \/ UNCHANGED fileVars
     \/ /\ TornWrites /\ pending # <<>>
        /\ partial' = [partial EXCEPT ![writer] = TRUE]
        /\ file' = IF partial[writer] THEN file
                   ELSE [file EXCEPT ![writer] =
                           Append(@, [bad |-> TRUE, msg |-> Head(pending), del |-> FALSE])]
        /\ tears' = [tears EXCEPT ![writer] = @ \cup {Len(flushed[writer])}]
        /\ UNCHANGED flushed
  /\ UNCHANGED nextId

-----------------------------------------------------------------------------
(* Sessions *)

\* A session that has never been written to.
Fresh(s) == file[s] = <<>> /\ flushed[s] = <<>> /\ s \notin {mem, writer}

\* The server starts, with a session of its own.
Start(s) ==
  /\ mem = NoSession /\ Fresh(s)
  /\ mem' = s /\ writer' = s
  /\ UNCHANGED <<store, deleted, pending, fileVars, turnVars, nextId>>

\* set_message_store and _switch_session up to the drain of the old writer, which
\* is over at once if nothing is pending.
SwitchTo(s, st, del) ==
  /\ mem # NoSession /\ writer = mem /\ s # mem
  /\ SwitchMidTurn \/ phase = "idle"
  /\ mem' = s /\ store' = st
  /\ writer' = IF pending = <<>> THEN s ELSE writer
  /\ deleted' = (deleted \cap {pending[i].id : i \in 1 .. Len(pending)}) \cup del
  /\ UNCHANGED <<pending, fileVars, turnVars, nextId>>

NewSession(s) == Fresh(s) /\ SwitchTo(s, <<>>, {})

Resume(s) == file[s] # <<>> /\ SwitchTo(s, Loaded(s), DeletedIn(file[s]))

\* close() has drained the old writer: the new one is opened and bound.
Bind ==
  /\ mem # NoSession /\ writer # mem /\ pending = <<>>
  /\ writer' = mem
  /\ UNCHANGED <<mem, store, deleted, pending, fileVars, turnVars, nextId>>

-----------------------------------------------------------------------------
Next ==
  \/ Chat \/ Reply \/ Compacted \/ Result \/ EndTurn
  \/ \E i \in 1 .. Len(store), k \in Flips : Flip(i, k)
  \/ Write \/ Crash \/ Bind
  \/ \E s \in Sessions : Start(s) \/ NewSession(s) \/ Resume(s)

Spec == Init /\ [][Next]_vars

-----------------------------------------------------------------------------
(* Properties *)

\* Whatever is loaded was flushed, in that order and from the beginning: no crash,
\* switch or bad line makes a message up, repeats it or reorders it.
LoadedIsPrefix ==
  \A s \in Sessions :
    /\ Len(Loaded(s)) <= Len(flushed[s])
    /\ \A i \in 1 .. Len(Loaded(s)) : Loaded(s)[i] = flushed[s][i]

\* What flush() returned for is loaded again, in its place, however often the
\* process dies and whatever half lines that leaves: all but the messages that were
\* flushed after a crash had cut a line of that file.
FlushedSurvives ==
  \A s \in Sessions : \A i \in 1 .. Len(flushed[s]) :
    (\A n \in tears[s] : i <= n) =>
      i <= Len(Loaded(s)) /\ Loaded(s)[i] = flushed[s][i]

\* writer.py:10, "After flush() returns, data survives PROCESS CRASH", without that
\* exception.  Refuted with TornWrites.
FlushedIsLoaded == \A s \in Sessions : Loaded(s) = flushed[s]

\* The store is a projection of the ledger: what is in it was written or is
\* scheduled, also while a switch waits for the old writer.
StoreIsLedger ==
  mem # NoSession =>
    store = IF writer = mem THEN Loaded(mem) \o pending ELSE Loaded(mem)

\* A resume now would give the model the context it has.
ReplayAgrees ==
  mem # NoSession /\ pending = <<>> /\ writer = mem =>
    Context(store, deleted) = Context(Loaded(mem), DeletedIn(file[mem]))

\* A session's file holds what its own turns said.  Refuted with SwitchMidTurn.
SessionsSeparate ==
  \A s \in Sessions : \A i \in 1 .. Len(flushed[s]) : flushed[s][i].origin = s

\* The transcript of each session: what was flushed and what is scheduled.
Transcript(s) == Loaded(s) \o IF s = writer THEN pending ELSE <<>>

Ledger == INSTANCE TranscriptLog WITH
  log <- [s \in Sessions |-> Transcript(s)],
  durable <- [s \in Sessions |-> Len(Loaded(s))]

\* A crash costs a transcript the messages that were not flushed, and no more.
ImplementsTranscriptLog == Ledger!Spec

=============================================================================
