------------------------------ MODULE ToolLoop ------------------------------
(***************************************************************************)
(* The tool loop of CodingAgent.stream_response (core/agent.py): one turn   *)
(* after another, each a loop of LLM requests and of the tool calls the     *)
(* replies ask for.  A conversation is kept twice: in the message store     *)
(* (memory/memory_manager.py, session/store/memory_store.py), from which    *)
(* every turn starts, and in the turn's own context, which the requests     *)
(* are made of.  Each call ends in one of many ways, each with its own code *)
(* to write the result into the one and the other; Stop cancels the turn at *)
(* whatever await it is in; compaction replaces the conversation between a  *)
(* reply and the results of its calls; and arguments of a type nobody       *)
(* expected raise an exception wherever they are first looked at.           *)
(*                                                                          *)
(* User messages that touch no call (guidance after a pause, reminders, the *)
(* constraint about blocked calls, notices of background tasks) are left    *)
(* out of the context.  A definition named Bug... is the mutant of the      *)
(* definition after it.                                                     *)
(***************************************************************************)
EXTENDS Integers, SequencesExt

CONSTANTS
  Calls,          \* ids of tool calls; a reply asks for calls not used before
  Interactive,    \* the calls of clarify and request_plan_approval; which of the
                  \* two a call is, is left open until it is dealt with
  Sig,            \* the tool and arguments of a call, as the tracker compares them
  MaxIterations,  \* LimitsConfig.max_iterations, 0 when the limit is disabled
  MaxContinues,   \* MAX_PAUSE_CONTINUES
  CompactMin,     \* a conversation of at most so many messages is not compacted
  MaxResponse,    \* bound: calls of one reply
  MaxTurns        \* bound: user messages

ASSUME ConstantsAssumption ==
  /\ Interactive \subseteq Calls
  /\ MaxIterations \in Nat /\ MaxContinues \in Nat /\ CompactMin \in Nat
  /\ MaxResponse \in Nat /\ MaxTurns \in Nat

\* What the model is told of a call; None: nothing yet.
None    == "none"
Refusal == {"blocked", "denied", "rejected", "cancelled", "skipped"}
Results == Refusal \cup {None, "answered", "success", "error", "interrupted"}

VARIABLES
  store,       \* MessageStore: the session's messages
  boundary,    \* MessageStore._last_compact_boundary_seq
  context,     \* current_context of the turn
  at,          \* where the turn is
  iteration,   \* LLM calls since the turn or the last Continue began
  continues,   \* pause_continue_count
  interrupted, \* UIProtocol's interrupt flag
  noCompact,   \* _compaction_failed
  failed,      \* ErrorRecoveryTracker._failed_call_signatures
  response,    \* tool_calls of the reply
  gated,       \* how many of them Phase A has dealt with
  resolved,    \* resolved: the result of a call, as the context will have it
  interactive, \* the calls for Phase B1
  executable,  \* the calls for Phase B2
  outcome,     \* how an executable call ended, None while it runs
  turns,       \* history: user messages so far
  requests,    \* history: LLM requests of this turn, counted up to MaxRequests + 1
  ran,         \* history: calls that ran to their end
  failures,    \* history: calls of this turn whose failure was recorded
  cut,         \* history: calls a Stop or an exception left without a result
  blocked      \* history: calls refused as repeats

convVars    == <<store, boundary, context>>
budgetVars  == <<iteration, continues, interrupted, noCompact>>
roundVars   == <<response, gated, resolved, interactive, executable, outcome>>
historyVars == <<turns, requests, ran, failures, cut, blocked>>

\* What outlives the turn, the conversation apart.
otherVars   == <<interrupted, noCompact, failed, turns, failures, cut, blocked, ran>>
vars == <<convVars, at, budgetVars, failed, roundVars, historyVars>>

-----------------------------------------------------------------------------
(* Messages: tool calls are the calls of an assistant message; a tool       *)
(* message has the one call it answers.                                     *)

User          == [role |-> "user", calls |-> <<>>, result |-> None]
Summary       == [role |-> "summary", calls |-> <<>>, result |-> None]
Assistant(cs) == [role |-> "assistant", calls |-> cs, result |-> None]
Tool(c, r)    == [role |-> "tool", calls |-> <<c>>, result |-> r]

IsTool(m)   == m.role = "tool"
Asked(ms)   == UNION {ToSet(m.calls) : m \in {n \in ToSet(ms) : ~IsTool(n)}}
ToolMessages(ms) == {m \in ToSet(ms) : IsTool(m)}
Answered(ms) == {m.calls[1] : m \in ToolMessages(ms)}

\* The members of s that are in S, in their order.
Those(s, S) ==
  LET first[i \in 0..Len(s)] ==
        IF i = 0 THEN <<>>
        ELSE IF s[i] \in S THEN Append(first[i - 1], s[i]) ELSE first[i - 1]
  IN  first[Len(s)]

\* get_llm_context: what a context built from the store st has of the session.
Visible(st, b) == SubSeq(st, b + 1, Len(st))

\* The result a call has in ms; of several the last, which replaces the others
\* in existing_tool_results.
ResultIn(ms, c) ==
  ms[CHOOSE i \in DOMAIN ms :
       /\ IsTool(ms[i]) /\ ms[i].calls[1] = c
       /\ \A j \in DOMAIN ms : j > i => ~(IsTool(ms[j]) /\ ms[j].calls[1] = c)]

Orphans(ms) == Asked(ms) \ Answered(ms)

\* _fix_orphaned_tool_calls: every assistant message is followed by the results
\* of its calls, in their order; a call without one was "interrupted"; a result
\* without its call is dropped.  The mutant leaves the results where they are.
BugFixed(ms) == ms \o [i \in 1..Cardinality(Orphans(ms)) |->
                         Tool(SetToSeq(Orphans(ms))[i], "interrupted")]

Fixed(ms) ==
  LET told(c) == IF c \in Orphans(ms) THEN Tool(c, "interrupted") ELSE ResultIn(ms, c)
      rest    == Those(ms, {m \in ToSet(ms) : ~IsTool(m)})
  IN  FlattenSeq([i \in DOMAIN rest |->
        <<rest[i]>> \o [j \in DOMAIN rest[i].calls |-> told(rest[i].calls[j])]])

\* The messages of the results res of the calls cs that have one.
Told(cs, res) ==
  LET done == Those(cs, {c \in Calls : res[c] # None})
  IN  [i \in DOMAIN done |-> Tool(done[i], res[done[i]])]

-----------------------------------------------------------------------------
NoResults == [c \in Calls |-> None]

Init ==
  /\ store = <<>> /\ boundary = 0 /\ context = <<>>
  /\ at = "idle"
  /\ iteration = 0 /\ continues = 0 /\ interrupted = FALSE /\ noCompact = FALSE
  /\ failed = {}
  /\ response = <<>> /\ gated = 0 /\ resolved = NoResults
  /\ interactive = <<>> /\ executable = <<>> /\ outcome = NoResults
  /\ turns = 0 /\ requests = 0
  /\ ran = {} /\ failures = {} /\ cut = {} /\ blocked = {}

NoRound ==
  /\ response' = <<>> /\ gated' = 0 /\ resolved' = NoResults
  /\ interactive' = <<>> /\ executable' = <<>> /\ outcome' = NoResults

\* stream_response returns: its local variables are gone.
TurnOver ==
  /\ at' = "idle"
  /\ context' = <<>> /\ iteration' = 0 /\ continues' = 0 /\ requests' = 0
  /\ NoRound

\* Calls of replies so far: the provider gives every call an id of its own.
Used == Asked(store)

\* The turn begins: the message is stored, the context built from the store, the
\* error tracker, the compaction cooldown and UIProtocol reset.
Chat ==
  /\ at = "idle" /\ turns < MaxTurns
  /\ at' = "top"
  /\ store' = Append(store, User)
  /\ context' = Visible(store', boundary)
  /\ iteration' = 0 /\ continues' = 0 /\ interrupted' = FALSE /\ noCompact' = FALSE
  /\ failed' = {} /\ failures' = {}
  /\ turns' = turns + 1 /\ requests' = 0
  /\ UNCHANGED <<boundary, roundVars, cut, blocked, ran>>

\* The top of the loop: one iteration more, and a reason to pause or none.
Limit == MaxIterations # 0 /\ iteration + 1 > MaxIterations

\* The safety cap on continuations.
Capped == continues >= MaxContinues

Pause ==
  /\ at = "top" /\ (Limit \/ interrupted) /\ ~Capped
  /\ iteration' = iteration + 1
  /\ at' = "pause"
  /\ UNCHANGED <<convVars, continues, interrupted, noCompact, failed, roundVars,
                 historyVars>>

StopAtCap ==
  /\ at = "top" /\ (Limit \/ interrupted) /\ Capped
  /\ TurnOver
  /\ UNCHANGED <<store, boundary, otherVars>>

\* What a turn may make of requests, when the limit is enabled.
MaxRequests == (MaxContinues + 1) * MaxIterations

\* The orphans of the context are answered, there and in the store, and the LLM
\* is called.
Request ==
  /\ at = "top" /\ ~(Limit \/ interrupted)
  /\ iteration' = iteration + 1
  /\ context' = Fixed(context)
  /\ LET orphans == SetToSeq(Orphans(context)) IN
       store' = store \o [i \in DOMAIN orphans |-> Tool(orphans[i], "interrupted")]
  /\ at' = "llm"
  /\ requests' = IF requests > MaxRequests THEN requests ELSE requests + 1
  /\ UNCHANGED <<boundary, continues, interrupted, noCompact, failed, roundVars,
                 turns, failures, cut, blocked, ran>>

\* The user answers the pause prompt.  A Continue is counted and resets the
\* budgets; what has failed stays blocked.  The mutant resets the
\* error tracker, too.
BugContinueForgets ==
  /\ at = "pause"
  /\ at' = "top"
  /\ continues' = continues + 1
  /\ iteration' = 0 /\ interrupted' = FALSE
  /\ failed' = {}
  /\ UNCHANGED <<convVars, noCompact, roundVars, historyVars>>

Continue ==
  /\ at = "pause"
  /\ at' = "top"
  /\ continues' = continues + 1
  /\ iteration' = 0 /\ interrupted' = FALSE
  /\ UNCHANGED <<convVars, noCompact, failed, roundVars, historyVars>>

\* The provider fails: nothing of the reply is in the store, and the user is
\* asked whether to retry.
ProviderError ==
  /\ at = "llm"
  /\ at' = "error"
  /\ UNCHANGED <<convVars, budgetVars, failed, roundVars, historyVars>>

\* The mutant has a retry start the iterations anew.
BugRetry ==
  /\ at = "error"
  /\ at' = "top"
  /\ iteration' = 0
  /\ UNCHANGED <<convVars, continues, interrupted, noCompact, failed, roundVars,
                 historyVars>>

Retry ==
  /\ at = "error"
  /\ at' = "top"
  /\ UNCHANGED <<convVars, budgetVars, failed, roundVars, historyVars>>

\* The user ends the turn at a prompt, or the prompt after an error times out.
GiveUp ==
  /\ at \in {"pause", "error"}
  /\ TurnOver
  /\ UNCHANGED <<store, boundary, otherVars>>

-----------------------------------------------------------------------------
(* The reply, and compaction                                                *)

\* The stream ends: process_provider_delta stores the finished message.
Reply(cs) ==
  /\ at = "llm"
  /\ store' = Append(store, Assistant(cs))
  /\ response' = cs
  /\ at' = "replied"
  /\ UNCHANGED <<boundary, context, budgetVars, failed, gated, resolved, interactive,
                 executable, outcome, historyVars>>

\* The request was near the model's window: the conversation, the reply with its
\* open calls included, goes to the LLM for a summary.
StartCompaction ==
  /\ at = "replied" /\ ~noCompact
  /\ Len(Visible(store, boundary)) > CompactMin
  /\ at' = "compact"
  /\ UNCHANGED <<convVars, budgetVars, failed, roundVars, historyVars>>

\* The boundary and the summary are stored and the context rebuilt from them.
Compacted ==
  /\ at = "compact"
  /\ store' = Append(store, Summary)
  /\ boundary' = Len(store)
  /\ context' = Visible(store', boundary')
  /\ at' = "proceed"
  /\ UNCHANGED <<budgetVars, failed, roundVars, historyVars>>

\* No summary: an exception is remembered for the turn, a compaction that removes
\* nothing is not.
CompactionFails ==
  /\ at = "compact"
  /\ noCompact' \in BOOLEAN
  /\ at' = "proceed"
  /\ UNCHANGED <<convVars, iteration, continues, interrupted, failed, roundVars,
                 historyVars>>

\* A reply without calls ends the turn, another goes to Phase A.
Finish ==
  /\ at \in {"replied", "proceed"} /\ response = <<>>
  /\ TurnOver
  /\ UNCHANGED <<store, boundary, otherVars>>

Proceed ==
  /\ at \in {"replied", "proceed"} /\ response # <<>>
  /\ at' = "gate"
  /\ UNCHANGED <<convVars, budgetVars, failed, roundVars, historyVars>>

-----------------------------------------------------------------------------
(* Phase A: one call after the other is gated, approved, classified         *)

Call == response[gated + 1]

Gating == at = "gate" /\ gated < Len(response)

\* is_repeated_failed_call.
Repeated == Sig[Call] \in failed

\* An exact repeat of a call that failed in this turn gets its result in the
\* context only.
RefuseRepeat ==
  /\ Gating /\ Repeated
  /\ resolved' = [resolved EXCEPT ![Call] = "blocked"]
  /\ blocked' = blocked \cup {Call}
  /\ gated' = gated + 1
  /\ UNCHANGED <<convVars, at, budgetVars, failed, response, interactive, executable,
                 outcome, turns, requests, failures, cut, ran>>

\* The gate denies the call (plan mode, a dangerous command).
Deny ==
  /\ Gating /\ ~Repeated
  /\ store' = Append(store, Tool(Call, "denied"))
  /\ resolved' = [resolved EXCEPT ![Call] = "denied"]
  /\ gated' = gated + 1
  /\ UNCHANGED <<boundary, context, at, budgetVars, failed, response, interactive,
                 executable, outcome, historyVars>>

\* A call that may run waits for Phase B1 or B2.
Classify ==
  /\ IF Call \in Interactive
     THEN interactive' = Append(interactive, Call) /\ UNCHANGED executable
     ELSE executable' = Append(executable, Call) /\ UNCHANGED interactive
  /\ gated' = gated + 1

Allow ==
  /\ Gating /\ ~Repeated
  /\ Classify
  /\ UNCHANGED <<convVars, at, budgetVars, failed, response, resolved, outcome,
                 historyVars>>

Ask ==
  /\ Gating /\ ~Repeated
  /\ at' = "approval"
  /\ UNCHANGED <<convVars, budgetVars, failed, roundVars, historyVars>>

Approved ==
  /\ at = "approval"
  /\ Classify
  /\ at' = "gate"
  /\ UNCHANGED <<convVars, budgetVars, failed, response, resolved, outcome,
                 historyVars>>

RejectedWithFeedback ==
  /\ at = "approval"
  /\ store' = Append(store, Tool(Call, "rejected"))
  /\ resolved' = [resolved EXCEPT ![Call] = "rejected"]
  /\ gated' = gated + 1
  /\ at' = "gate"
  /\ UNCHANGED <<boundary, context, budgetVars, failed, response, interactive,
                 executable, outcome, historyVars>>

\* fill_skipped_tool_results: the calls of the reply without a result yet.  The
\* first mutant takes the gated ones for processed, the second none.
BugSkippedFew(res) == SubSeq(response, gated + 2, Len(response))

BugSkippedMany(res) == response

Skipped(res) == Those(response, {c \in Calls : res[c] = None})

\* user_rejected: call c gets result r, every other call of the reply that has
\* none is skipped, and the turn ends; what Phase A let through does not run.
EndRejected(c, r) ==
  LET res  == [resolved EXCEPT ![c] = r]
      rest == Skipped(res)
      skip == [i \in DOMAIN rest |-> Tool(rest[i], "skipped")]
  IN  /\ store' = Append(store, Tool(c, r)) \o skip
      /\ TurnOver
      /\ UNCHANGED <<boundary, noCompact, failed, turns, failures, cut, blocked, ran>>

Rejected ==
  /\ at = "approval"
  /\ EndRejected(Call, "rejected")
  /\ UNCHANGED interrupted

EndGate ==
  /\ at = "gate" /\ gated = Len(response)
  /\ at' = "interact"
  /\ UNCHANGED <<convVars, budgetVars, failed, roundVars, historyVars>>

-----------------------------------------------------------------------------
(* Phase B1: interactive calls, one after the other                         *)

Interacting == at = "interact" /\ interactive # <<>>

\* A clarify call is answered, chatted about or cancelled; a plan is approved,
\* sent back with feedback, or was not submitted.
Interacted ==
  /\ Interacting
  /\ store' = Append(store, Tool(Head(interactive), "answered"))
  /\ resolved' = [resolved EXCEPT ![Head(interactive)] = "answered"]
  /\ interactive' = Tail(interactive)
  /\ UNCHANGED <<boundary, context, at, budgetVars, failed, response, gated,
                 executable, outcome, historyVars>>

\* The user dismisses the plan.
PlanRejected ==
  /\ Interacting
  /\ EndRejected(Head(interactive), "rejected")
  /\ UNCHANGED interrupted

-----------------------------------------------------------------------------
(* Phase B2: the other calls, together, and the merge                       *)

\* The reply and its results, in the order of the calls, join the context.
Merge(res) ==
  /\ context' = Append(context, Assistant(response)) \o Told(response, res)
  /\ at' = "top"
  /\ NoRound

RunTools ==
  /\ at = "interact" /\ interactive = <<>> /\ executable # <<>>
  /\ at' = "tools"
  /\ UNCHANGED <<convVars, budgetVars, failed, roundVars, historyVars>>

MergeOnly ==
  /\ at = "interact" /\ interactive = <<>> /\ executable = <<>>
  /\ Merge(resolved)
  /\ UNCHANGED <<store, boundary, budgetVars, failed, historyVars>>

Running == {c \in ToSet(executable) : outcome[c] = None}

\* It ends; an output that is too large is told as such, but is no failure.
ToolSucceeds(c) ==
  /\ at = "tools" /\ c \in Running
  /\ outcome' = [outcome EXCEPT ![c] = "success"]
  /\ ran' = ran \cup {c}
  /\ UNCHANGED <<convVars, at, budgetVars, failed, response, gated, resolved,
                 interactive, executable, turns, requests, failures, cut, blocked>>

\* It fails, or times out: a thread nobody waits for any more may still come to
\* its end, whenever that is.
ToolFails(c) ==
  /\ at = "tools" /\ c \in Running
  /\ outcome' = [outcome EXCEPT ![c] = "error"]
  /\ \E late \in SUBSET {c} : ran' = ran \cup late
  /\ UNCHANGED <<convVars, at, budgetVars, failed, response, gated, resolved,
                 interactive, executable, turns, requests, failures, cut, blocked>>

\* record_failure, for each of the calls.
RecordFailures(cs) ==
  /\ failed' = failed \cup {Sig[c] : c \in cs}
  /\ failures' = failures \cup cs

\* gather() returns: the outcomes are stored in the order of the calls and the
\* failures recorded, and all results merged.
Collect ==
  /\ at = "tools" /\ Running = {}
  /\ RecordFailures({c \in ToSet(executable) : outcome[c] = "error"})
  /\ store' = store \o Told(executable, outcome)
  /\ Merge([c \in Calls |-> IF c \in ToSet(executable) THEN outcome[c] ELSE resolved[c]])
  /\ UNCHANGED <<boundary, budgetVars, turns, requests, cut, blocked, ran>>

-----------------------------------------------------------------------------
(* Exceptions: what the LLM sends as arguments need not be an object (a list, *)
(* null), nor have values of the right types (a command that is null).  What  *)
(* looks at them raises, and only the except around the loop catches that.    *)
(* The arguments of a call are left open.                                     *)

Unresolved == {c \in ToSet(response) : resolved[c] = None}

\* The error is shown, nothing is stored of it, and the turn ends.
Raised ==
  /\ TurnOver
  /\ UNCHANGED <<boundary, interrupted, noCompact, turns, ran, blocked>>

\* The signature of the call, a check of the gate, or the clarify handler.
ArgumentsRaise ==
  /\ Gating \/ Interacting
  /\ Raised
  /\ cut' = cut \cup Unresolved
  /\ UNCHANGED <<store, failed, failures>>

\* record_failure adds the signature of the i-th call and raises when it sums up
\* the arguments: the outcomes before it are stored, its own and the rest are not.
CollectRaises(i) ==
  /\ at = "tools" /\ Running = {} /\ outcome[executable[i]] = "error"
  /\ Raised
  /\ LET told == SubSeq(executable, 1, i - 1) IN
       /\ store' = store \o Told(told, outcome)
       /\ cut' = cut \cup (Unresolved \ ToSet(told))
  /\ RecordFailures({c \in ToSet(SubSeq(executable, 1, i)) : outcome[c] = "error"})

-----------------------------------------------------------------------------
(* Stop: the interrupt flag is set and the streaming task cancelled, which   *)
(* raises CancelledError in the await the turn is in.                        *)

\* No handler, and no calls open; or a pause, which takes it for "stop".
StopTurn ==
  /\ at \in {"llm", "pause", "error"}
  /\ TurnOver
  /\ interrupted' = TRUE
  /\ UNCHANGED <<store, boundary, noCompact, failed, turns, ran, failures, cut,
                 blocked>>

\* No handler, and calls open: those without a stored result are left so, also
\* the ones that have run.
StopRound ==
  /\ \/ at \in {"replied", "compact", "proceed", "tools"}
     \/ Interacting
  /\ TurnOver
  /\ interrupted' = TRUE
  /\ cut' = cut \cup Unresolved
  /\ \E late \in SUBSET Running : ran' = ran \cup (IF at = "tools" THEN late ELSE {})
  /\ UNCHANGED <<store, boundary, noCompact, failed, turns, failures, blocked>>

\* A cancelled approval is a rejection of its own kind.  The mutant does not leave
\* the loop over the calls, and the call goes on to be classified.
BugStopApproval ==
  /\ at = "approval"
  /\ store' = Append(store, Tool(Call, "cancelled"))
  /\ resolved' = [resolved EXCEPT ![Call] = "cancelled"]
  /\ Classify
  /\ at' = "gate"
  /\ interrupted' = TRUE
  /\ UNCHANGED <<boundary, context, iteration, continues, noCompact, failed, response,
                 outcome, historyVars>>

StopApproval ==
  /\ at = "approval"
  /\ EndRejected(Call, "cancelled")
  /\ interrupted' = TRUE

\* A cancelled clarify is one more answer, and the turn goes on with the flag set.
StopClarify ==
  /\ Interacting
  /\ store' = Append(store, Tool(Head(interactive), "answered"))
  /\ resolved' = [resolved EXCEPT ![Head(interactive)] = "answered"]
  /\ interactive' = Tail(interactive)
  /\ interrupted' = TRUE
  /\ UNCHANGED <<boundary, context, at, iteration, continues, noCompact, failed,
                 response, gated, executable, outcome, historyVars>>

\* The await of the plan's prompt takes it for a dismissal.
StopPlan ==
  /\ Interacting
  /\ EndRejected(Head(interactive), "rejected")
  /\ interrupted' = TRUE

-----------------------------------------------------------------------------
\* The replies the LLM may give: calls it has not made before, each once.
Replies == {cs \in SeqOf(Calls \ Used, MaxResponse) : IsInjective(cs)}

Stop == StopTurn \/ StopRound \/ StopApproval \/ StopClarify \/ StopPlan

\* What the loop does on its own, the LLM and the tools included.
LoopStep ==
  \/ Pause \/ StopAtCap \/ Request
  \/ (\E cs \in Replies : Reply(cs)) \/ ProviderError
  \/ StartCompaction \/ Compacted \/ CompactionFails \/ Finish \/ Proceed
  \/ RefuseRepeat \/ Deny \/ Allow \/ Ask \/ EndGate
  \/ RunTools \/ MergeOnly \/ Collect
  \/ ArgumentsRaise \/ \E i \in DOMAIN executable : CollectRaises(i)
  \/ \E c \in Calls : ToolSucceeds(c) \/ ToolFails(c)

\* What it waits for the user to do.
UserStep ==
  \/ Continue \/ Retry \/ GiveUp
  \/ Approved \/ RejectedWithFeedback \/ Rejected
  \/ Interacted \/ PlanRejected

Next == Chat \/ LoopStep \/ UserStep \/ Stop

Spec == Init /\ [][Next]_vars

\* The loop, the LLM and the tools go on (each tool has a timeout), and the user
\* answers the prompts.
AttentiveSpec == Spec /\ WF_vars(LoopStep \/ UserStep)

-----------------------------------------------------------------------------
(* Properties *)

Places == {"idle", "top", "pause", "llm", "error", "replied", "compact", "proceed",
           "gate", "approval", "interact", "tools"}

Messages == [role : {"user", "summary", "assistant", "tool"},
             calls : Seq(Calls), result : Results]

\* Each variable keeps its type; no more Continues are taken than the cap allows.
TypeOK ==
  /\ store \in Seq(Messages) /\ context \in Seq(Messages)
  /\ boundary \in 0..Len(store)
  /\ at \in Places
  /\ iteration \in Nat /\ continues \in 0..MaxContinues
  /\ interrupted \in BOOLEAN /\ noCompact \in BOOLEAN
  /\ failed \subseteq {Sig[c] : c \in Calls}
  /\ response \in Seq(Calls) /\ gated \in 0..Len(response)
  /\ resolved \in [Calls -> Results] /\ outcome \in [Calls -> Results]
  /\ interactive \in Seq(Calls) /\ executable \in Seq(Calls)
  /\ turns \in 0..MaxTurns /\ requests \in 0..(MaxRequests + 1)
  /\ ran \subseteq Calls
  /\ failures \subseteq Calls /\ cut \subseteq Calls /\ blocked \subseteq Calls

\* An assistant message with calls is followed at once by one result of each, and
\* there is no other result.
WellFormed(ms) ==
  LET room(i) == Len(ms[i].calls)
  IN  \A i \in DOMAIN ms :
        /\ ~IsTool(ms[i]) =>
             \A j \in 1..room(i) :
               /\ i + j <= Len(ms)
               /\ IsTool(ms[i + j]) /\ ms[i + j].calls = <<ms[i].calls[j]>>
        /\ IsTool(ms[i]) =>
             \E k \in 1..(i - 1) : ~IsTool(ms[k]) /\ i <= k + room(k)

\* Every request has the form the docstring of _fix_orphaned_tool_calls says the
\* provider requires, whatever Stop, errors and compaction have left behind.
RequestWellFormed == at = "llm" => WellFormed(context)

\* The store never gets a second result of a call, on whichever of the dozen
\* paths the first came: tools, prompts, rejections, skips, Stop, the repair of
\* a later turn.
OneResultPerCall ==
  \A i, j \in DOMAIN store :
    IsTool(store[i]) /\ IsTool(store[j]) /\ store[i].calls = store[j].calls => i = j

\* What the model is told of a call is so: a success ran, a call refused for any
\* reason did not, not even later, and one "interrupted" did not run unless a
\* Stop or an exception cut its round.
ResultTrue ==
  \A m \in ToolMessages(store) \cup ToolMessages(context) : LET c == m.calls[1] IN
    /\ m.result = "success" => c \in ran
    /\ m.result \in Refusal => c \notin ran
    /\ m.result = "interrupted" => c \notin ran \/ c \in cut

\* Between turns every call ever made has its result in the store, unless it was
\* a repeat or its round was cut by a Stop or an exception before its result was
\* stored: no prompt, rejection, limit or compaction leaves work to the repair.
OrphansExplained ==
  at = "idle" => Orphans(store) \subseteq blocked \cup cut

\* A call with the tool and arguments of one that failed in an earlier round of
\* the turn is not run again, also after a Continue.
NoRepeat ==
  [][at' = "tools" /\ at # "tools" =>
       \A c \in ToSet(executable) : \A f \in failures : Sig[c] # Sig[f]]_vars

\* With the limit enabled, a turn makes at most MaxIterations requests and as
\* many for every Continue, which the safety cap bounds; errors and retries do
\* not add to it.
RequestsBounded ==
  MaxIterations # 0 => requests <= MaxRequests

\* So every turn ends, whatever the LLM asks for and however often the user
\* retries and continues.
TurnEnds == at # "idle" ~> at = "idle"

=============================================================================
