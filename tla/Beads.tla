-------------------------------- MODULE Beads --------------------------------
(***************************************************************************)
(* The task tracker: BeadStore (claraity/claraity_beads.py) as sessions of  *)
(* several agent processes use it through the task tools                    *)
(* (tools/knowledge_tools.py) and the agent's own calls (core/agent.py).    *)
(*                                                                          *)
(* Every operation opens the database file anew.  One that writes reads the *)
(* bead first, outside a transaction (sqlite3 begins one at the first       *)
(* UPDATE), so another session may write between: an operation is a Select  *)
(* and a Commit.  UPDATE, event and commit are one transaction.             *)
(*                                                                          *)
(* Titles, notes, priorities but for the first, references and metadata are *)
(* left out: nothing here depends on them.  A definition named Bug... is    *)
(* the mutant of the definition after it.                                   *)
(***************************************************************************)
EXTENDS Naturals, FiniteSets

CONSTANTS
  Beads,     \* tasks; a task's id is a hash of its title
  Epics,     \* those of issue_type "epic"
  Rank,      \* the order of ORDER BY priority, created_at
  Sessions,  \* sessions of the agent, each in its own process
  MaxOps,    \* bound: operations that write
  MaxDepth   \* bound: Python's recursion limit

Agent == "agent"   \* the assignee of a task nobody has claimed
None  == "none"

ASSUME ConstantsAssumption ==
  /\ Epics \subseteq Beads
  /\ Rank \in [Beads -> Nat]
  /\ Agent \notin Sessions /\ None \notin Beads
  /\ MaxOps \in Nat /\ MaxDepth \in Nat

VARIABLES
  db,        \* the database file is there
  jsonl,     \* the exported file, which git tracks, is there
  depth,     \* nested calls of BeadStore() by the one that is opening
  raised,    \* history: BeadStore() raised RecursionError
  status, assignee,
  until,     \* defer_until: none, in the future or past
  fresh,     \* last_activity is less than STALE_CLAIM_MINUTES ago
  blocks,    \* blocking dependencies: <<from, to>>
  op,        \* what a session's tool call is doing, between Select and Commit
  releasing, \* the beads release_session has selected and has yet to reset
  life,      \* a session: on, ended or crashed
  said,      \* the status the last event of a bead tells
  raced,     \* history: beads whose events a release got wrong
  told,      \* history: beads a session was told it has claimed
  ops        \* operations so far

fileVars  == <<db, jsonl, depth, raised>>
beadVars  == <<status, assignee, until, fresh, blocks, said, raced>>
otherVars == <<op, releasing, life, told>>
vars      == <<fileVars, beadVars, otherVars, ops>>

Statuses == {"open", "in_progress", "closed", "deferred"}
Idle     == [kind |-> None, bead |-> None, seen |-> None]
Kinds    == {"start", "close", "reopen", "defer", "deferUntil", "claim", "claimAsAgent"}
Exists(b) == status[b] # "absent"

Init ==
  /\ db = FALSE /\ jsonl = FALSE /\ depth = 0 /\ raised = FALSE
  /\ status = [b \in Beads |-> "absent"]
  /\ assignee = [b \in Beads |-> Agent]
  /\ until = [b \in Beads |-> None]
  /\ fresh = [b \in Beads |-> FALSE]
  /\ blocks = {}
  /\ op = [s \in Sessions |-> Idle]
  /\ releasing = [s \in Sessions |-> {}]
  /\ life = [s \in Sessions |-> "on"]
  /\ said = [b \in Beads |-> "absent"]
  /\ raced = {}
  /\ told = [s \in Sessions |-> {}]
  /\ ops = 0

-----------------------------------------------------------------------------
(* BeadStore.__init__: no file and no export, a new database; no file but   *)
(* an export, import_jsonl, which calls BeadStore() for the same path.      *)

Create ==
  /\ ~db /\ ~jsonl
  /\ db' = TRUE
  /\ UNCHANGED <<jsonl, depth, raised, beadVars, otherVars, ops>>

Rebuild ==
  /\ ~db /\ jsonl /\ ~raised
  /\ IF depth < MaxDepth THEN depth' = depth + 1 /\ UNCHANGED raised
                         ELSE depth' = 0 /\ raised' = TRUE
  /\ UNCHANGED <<db, jsonl, beadVars, otherVars, ops>>

\* knowledge_export; export-jsonl.
Export ==
  /\ db /\ jsonl' = TRUE
  /\ UNCHANGED <<db, depth, raised, beadVars, otherVars, ops>>

\* import-jsonl for the default path unlinks the file before it opens the store;
\* a clone has the export and no database (.gitignore:49).  What the database
\* held stays in the variables, which nothing can read any more.
Lost ==
  /\ db /\ jsonl
  /\ \A s \in Sessions : op[s] = Idle /\ releasing[s] = {}
  /\ db' = FALSE
  /\ UNCHANGED <<jsonl, depth, raised, beadVars, otherVars, ops>>

-----------------------------------------------------------------------------
(* The task tools.                                                          *)

\* A call can write: the store opens, and the bound is not reached.
Writes(n) == db /\ ops + n <= MaxOps /\ ops' = ops + n

\* One transaction leaves bead b with status st and says so in an event.
Event(b, st) ==
  /\ status' = [status EXCEPT ![b] = st]
  /\ said' = [said EXCEPT ![b] = st]
  /\ raced' = raced \ {b}
  /\ fresh' = [fresh EXCEPT ![b] = TRUE]

\* task_create: INSERT OR IGNORE; the id of a title is always the same.
AddBead(s, b) ==
  /\ life[s] = "on" /\ op[s] = Idle
  /\ ~Exists(b) /\ Writes(1)
  /\ Event(b, "open")
  /\ UNCHANGED <<fileVars, assignee, until, blocks, otherVars>>

\* task_link with a blocking type; a cycle is not looked for.
AddDependency(s, a, b) ==
  /\ life[s] = "on" /\ op[s] = Idle
  /\ Exists(a) /\ Exists(b) /\ <<a, b>> \notin blocks /\ Writes(1)
  /\ blocks' = blocks \cup {<<a, b>>}
  /\ UNCHANGED <<fileVars, status, assignee, until, fresh, said, raced, otherVars>>

\* The name a session claims under: its own, or the tool's default.
Claimant(s, k) == IF k = "claimAsAgent" THEN Agent ELSE s
IsClaim(k)     == k \in {"claim", "claimAsAgent"}

\* claim() is content with a bead its claimant has in progress.
HasIt(s, k, b) ==
  IsClaim(k) /\ assignee[b] = Claimant(s, k) /\ status[b] = "in_progress"

\* The SELECT; claim() refuses an epic.
Select(s, k, b) ==
  /\ life[s] = "on" /\ op[s] = Idle
  /\ Exists(b) /\ ~(IsClaim(k) /\ b \in Epics) /\ ~HasIt(s, k, b) /\ Writes(1)
  /\ op' = [op EXCEPT ![s] = [kind |-> k, bead |-> b, seen |-> assignee[b]]]
  /\ UNCHANGED <<fileVars, beadVars, releasing, life, told>>

\* claim() of a bead already held returns True without an UPDATE.
ClaimAgain(s, b) ==
  /\ life[s] = "on" /\ op[s] = Idle /\ db
  /\ b \notin Epics /\ HasIt(s, "claim", b)
  /\ told' = [told EXCEPT ![s] = @ \cup {b}]
  /\ UNCHANGED <<fileVars, beadVars, op, releasing, life, ops>>

\* The call of s is over; its result is lost on a session that has ended.
Done(s, got) ==
  /\ op' = [op EXCEPT ![s] = Idle]
  /\ told' = [told EXCEPT ![s] = IF life[s] = "on" THEN @ \cup got ELSE @]
  /\ UNCHANGED <<fileVars, releasing, life, ops, blocks>>

\* The status an action of task_update gives.
NewStatus(k) ==
  CASE k = "start"                   -> "in_progress"
    [] k = "close"                   -> "closed"
    [] k = "reopen"                  -> "open"
    [] k \in {"defer", "deferUntil"} -> "deferred"

\* update_status, reopen and defer: whoever has the bead keeps it.  A reopened
\* bead has no date, a deferred one the date it is given.  The mutant closes
\* without an event.
BugUpdate(s) ==
  LET k == op[s].kind  b == op[s].bead IN
  /\ k \in Kinds /\ ~IsClaim(k)
  /\ IF k = "close"
     THEN status' = [status EXCEPT ![b] = "closed"] /\ UNCHANGED <<said, raced, fresh>>
     ELSE Event(b, NewStatus(k))
  /\ until' = [until EXCEPT ![b] =
                 CASE k = "deferUntil" -> "future" [] k \in {"defer", "reopen"} -> None [] OTHER -> @]
  /\ UNCHANGED assignee
  /\ Done(s, {})

Update(s) ==
  LET k == op[s].kind  b == op[s].bead IN
  /\ k \in Kinds /\ ~IsClaim(k)
  /\ Event(b, NewStatus(k))
  /\ until' = [until EXCEPT ![b] =
                 CASE k = "deferUntil" -> "future" [] k \in {"defer", "reopen"} -> None [] OTHER -> @]
  /\ UNCHANGED assignee
  /\ Done(s, {})

\* claim(): the UPDATE compares the assignee again.  The mutant trusts the SELECT.
BugClaim(s) ==
  LET k == op[s].kind  b == op[s].bead IN
  /\ IsClaim(k)
  /\ \/ /\ op[s].seen = Agent
        /\ assignee' = [assignee EXCEPT ![b] = Claimant(s, k)]
        /\ Event(b, "in_progress")
        /\ UNCHANGED until
        /\ Done(s, IF k = "claim" THEN {b} ELSE {})
     \/ op[s].seen # Agent /\ UNCHANGED <<status, assignee, until, fresh, said, raced>> /\ Done(s, {})

Claim(s) ==
  LET k == op[s].kind  b == op[s].bead IN
  /\ IsClaim(k)
  /\ \/ /\ assignee[b] = Agent
        /\ assignee' = [assignee EXCEPT ![b] = Claimant(s, k)]
        /\ Event(b, "in_progress")
        /\ UNCHANGED until
        /\ Done(s, IF k = "claim" THEN {b} ELSE {})
     \/ assignee[b] # Agent /\ UNCHANGED <<status, assignee, until, fresh, said, raced>> /\ Done(s, {})

-----------------------------------------------------------------------------
(* The agent's own calls, and time.                                         *)

InProgress == {b \in Beads : status[b] = "in_progress"}

\* The end of stream_response touches the first bead in progress, whoever has it.
Touch(s) ==
  /\ life[s] = "on" /\ op[s] = Idle /\ db
  /\ \E b \in InProgress :
       /\ \A c \in InProgress : Rank[b] <= Rank[c]
       /\ ~fresh[b]
       /\ fresh' = [fresh EXCEPT ![b] = TRUE]
  /\ UNCHANGED <<fileVars, status, assignee, until, blocks, said, raced, otherVars, ops>>

\* Half an hour without an operation on the bead; the date it was deferred to.
Age(b) ==
  /\ fresh[b] /\ fresh' = [fresh EXCEPT ![b] = FALSE]
  /\ UNCHANGED <<fileVars, status, assignee, until, blocks, said, raced, otherVars, ops>>

DateComes(b) ==
  /\ until[b] = "future" /\ until' = [until EXCEPT ![b] = "past"]
  /\ UNCHANGED <<fileVars, status, assignee, fresh, blocks, said, raced, otherVars, ops>>

Mine(s) == {b \in InProgress : assignee[b] = s}

\* agent.shutdown: release_session selects, then resets what it has then.  A tool
\* call of a cancelled turn may still be running in its thread.
Shutdown(s) ==
  /\ life[s] = "on" /\ db
  /\ life' = [life EXCEPT ![s] = "ended"]
  /\ told' = [told EXCEPT ![s] = {}]
  /\ releasing' = [releasing EXCEPT ![s] = Mine(s)]
  /\ UNCHANGED <<fileVars, beadVars, op, ops>>

\* One event per bead selected, one UPDATE for those it has by now.
Release(s) ==
  LET selected == releasing[s]  reset == Mine(s) IN
  /\ selected # {}
  /\ status' = [b \in Beads |-> IF b \in reset THEN "open" ELSE status[b]]
  /\ assignee' = [b \in Beads |-> IF b \in reset THEN Agent ELSE assignee[b]]
  /\ fresh' = [b \in Beads |-> b \in reset \/ fresh[b]]
  /\ said' = [b \in Beads |-> IF b \in selected THEN "open" ELSE said[b]]
  /\ raced' = (raced \ selected) \cup (selected \ reset) \cup (reset \ selected)
  /\ releasing' = [releasing EXCEPT ![s] = {}]
  /\ UNCHANGED <<fileVars, until, blocks, op, life, told, ops>>

\* The process is killed: what it had not committed is rolled back.
Crash(s) ==
  /\ life[s] = "on"
  /\ life' = [life EXCEPT ![s] = "crashed"]
  /\ told' = [told EXCEPT ![s] = {}]
  /\ op' = [op EXCEPT ![s] = Idle]
  /\ UNCHANGED <<fileVars, beadVars, releasing, ops>>

-----------------------------------------------------------------------------
Next ==
  \/ Create \/ Rebuild \/ Export \/ Lost
  \/ \E b \in Beads : Age(b) \/ DateComes(b)
  \/ \E s \in Sessions :
       \/ Update(s) \/ Claim(s) \/ Touch(s) \/ Shutdown(s) \/ Release(s) \/ Crash(s)
       \/ \E b \in Beads : AddBead(s, b) \/ ClaimAgain(s, b)
       \/ \E a, b \in Beads : AddDependency(s, a, b)
       \/ \E b \in Beads, k \in Kinds : Select(s, k, b)

Spec == Init /\ [][Next]_vars

-----------------------------------------------------------------------------
(* get_ready                                                                *)

Blocked(b) == \E a \in Beads : <<a, b>> \in blocks /\ status[a] # "closed"

\* The tasks task_list offers.  The mutant offers whatever is open.
BugReady ==
  {b \in Beads :
     /\ \/ status[b] = "open"
        \/ status[b] = "in_progress" /\ b \notin Epics /\ ~fresh[b]
     /\ until[b] # "future"
     /\ ~Blocked(b)}

Ready ==
  {b \in Beads :
     /\ \/ status[b] = "open" /\ assignee[b] = Agent
        \/ status[b] = "in_progress" /\ b \notin Epics /\ ~fresh[b]
     /\ until[b] # "future"
     /\ ~Blocked(b)}

-----------------------------------------------------------------------------
Ops == [kind : Kinds, bead : Beads, seen : Sessions \cup {Agent}] \cup {Idle}

TypeOK ==
  /\ db \in BOOLEAN /\ jsonl \in BOOLEAN /\ depth \in Nat /\ raised \in BOOLEAN
  /\ status \in [Beads -> Statuses \cup {"absent"}]
  /\ assignee \in [Beads -> Sessions \cup {Agent}]
  /\ until \in [Beads -> {None, "future", "past"}]
  /\ fresh \in [Beads -> BOOLEAN]
  /\ blocks \in SUBSET (Beads \X Beads)
  /\ op \in [Sessions -> Ops]
  /\ releasing \in [Sessions -> SUBSET Beads]
  /\ life \in [Sessions -> {"on", "ended", "crashed"}]
  /\ said \in [Beads -> Statuses \cup {"absent"}]
  /\ raced \in SUBSET Beads
  /\ told \in [Sessions -> SUBSET Beads]
  /\ ops \in Nat

\* A bead that a session was told it has claimed is its own until it ends, whatever
\* the others do with the bead meanwhile: closing, reopening and starting it leave
\* the assignee alone, and no second claim succeeds ("compare-and-swap on assignee",
\* claraity_beads.py:387).
ClaimExclusive == \A s \in Sessions : \A b \in told[s] : assignee[b] = s

\* task_list offers a bead that somebody was told is his only when his claim has
\* gone stale: not after another session closed and reopened it.
NotOfferedTwice ==
  \A s \in Sessions : \A b \in Ready \cap told[s] : status[b] = "in_progress" /\ ~fresh[b]

\* The audit trail tells the status of every bead, whatever sessions wrote between
\* each other's reads and writes, but where a release raced with another session's
\* update of a bead it had selected.
AuditTruth == \A b \in Beads \ raced : said[b] = status[b]

\* "Auto-import: if DB missing but JSONL exists, rebuild" (claraity_beads.py:196):
\* opening the store of a fresh clone does not fail.
OpensFromJsonl == ~raised

=============================================================================
