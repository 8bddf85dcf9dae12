----------------------------- MODULE UIProtocol -----------------------------
(***************************************************************************)
(* The rendezvous between the agent's coroutines and the user              *)
(* (core/protocol.py), together with the code that waits on it: the tool   *)
(* loop of one turn (core/agent.py), the subagent delegations it runs in   *)
(* parallel (tools/delegation.py), and the stdio server, whose Stop also   *)
(* cancels the streaming task (server/stdio_server.py).                    *)
(*                                                                         *)
(* A coroutine that needs the user registers a future in a slot and        *)
(* suspends; the receive loop, a task of its own, resolves or cancels the  *)
(* future found in the slot; the coroutine wakes up in a later tick and    *)
(* only then empties the slot (its "finally").  Everything hard here comes *)
(* from what happens in between.                                           *)
(***************************************************************************)
EXTENDS Naturals, FiniteSets

CONSTANTS
  Main,            \* the streaming task of the turn
  Delegates,       \* the delegate_to_subagent calls a turn may run
  CallIds,         \* ids of the calls the user is asked about; each is used once
  Tools,           \* names of tools that need approval
  ToolOf,          \* the tool each call id calls
  Nobody,          \* an empty slot
  IterationLimit,  \* is iteration_limit_enabled set?
  MaxTurns,        \* bound: chat messages processed
  MaxRounds,       \* bound: LLM calls per turn
  MaxContinues     \* MAX_PAUSE_CONTINUES

ASSUME ConstantsAssumption ==
  /\ Main \notin Delegates
  /\ Nobody \notin Delegates \cup {Main}
  /\ ToolOf \in [CallIds -> Tools]
  /\ IterationLimit \in BOOLEAN
  /\ MaxTurns \in Nat /\ MaxRounds \in Nat /\ MaxContinues \in Nat

Coros == Delegates \cup {Main}

\* Where a coroutine is: not started or ended, running (or suspended on
\* something else than the user), waiting for its delegations, or in a slot.
Off    == <<"off">>
Run    == <<"run">>
Gather == <<"gather">>

Pause == <<"pause">>
Keyed == {"approval", "clarify", "plan"} \X CallIds
Slots == Keyed \cup {Pause}

Places  == {Off, Run, Gather} \cup Slots
Futures == {"none", "pending", "yes", "no", "cancelled", "timedout"}
Phases  == {"top", "llm", "approve", "interact", "execute"}

VARIABLES
  registry,     \* _pending_approvals, _pending_pause, _pending_clarify, _pending_plan_approval
  fut,          \* the state of the future each coroutine waits for
  autoApprove,  \* _auto_approve
  interrupted,  \* _interrupted
  at,           \* where each coroutine is
  cancelReq,    \* a CancelledError the coroutine meets at its next await
  phase,        \* the tool loop's phase
  batch,        \* the delegations of the current tool batch
  timed,        \* does Main's pause have a timeout?
  continues,    \* pause_continue_count
  turn, rounds, \* chat messages and LLM calls so far
  asked,        \* call ids already used
  forced,       \* those of them asked with force_approval
  userYes,      \* those the user answered yes
  approved,     \* those wait_for_approval returned approved for
  stop          \* history: Stop pressed in this turn and not withdrawn

protocolVars == <<registry, fut, autoApprove, interrupted>>
loopVars     == <<phase, batch, timed, continues, turn, rounds>>
historyVars  == <<asked, forced, userYes, approved>>
vars == <<protocolVars, at, cancelReq, loopVars, historyVars, stop>>

TypeOK ==
  /\ registry \in [Slots -> Coros \cup {Nobody}]
  /\ fut \in [Coros -> Futures]
  /\ autoApprove \in SUBSET Tools
  /\ interrupted \in BOOLEAN /\ stop \in BOOLEAN /\ timed \in BOOLEAN
  /\ at \in [Coros -> Places]
  /\ cancelReq \in [Coros -> BOOLEAN]
  /\ phase \in Phases
  /\ batch \in SUBSET Delegates
  /\ continues \in Nat /\ turn \in Nat /\ rounds \in Nat
  /\ asked \in SUBSET CallIds /\ forced \in SUBSET CallIds
  /\ userYes \in SUBSET CallIds /\ approved \in SUBSET CallIds

Init ==
  /\ registry = [s \in Slots |-> Nobody]
  /\ fut = [c \in Coros |-> "none"]
  /\ autoApprove = {}
  /\ interrupted = FALSE
  /\ at = [c \in Coros |-> Off]
  /\ cancelReq = [c \in Coros |-> FALSE]
  /\ phase = "top" /\ batch = {} /\ timed = FALSE
  /\ continues = 0 /\ turn = 0 /\ rounds = 0
  /\ asked = {} /\ forced = {} /\ userYes = {} /\ approved = {}
  /\ stop = FALSE

Waiting(c) == at[c] \in Slots

\* Coroutine c can take its next step: it runs and no CancelledError is due.
Runs(c) == at[c] = Run /\ ~cancelReq[c]

-----------------------------------------------------------------------------
(* Agent side: register a future and suspend.                              *)
(* A definition named Bug... is the mutant of the definition after it.     *)

\* The body every wait_for_* shares: a fresh future, stored under its key.
Register(c, s) ==
  /\ registry' = [registry EXCEPT ![s] = c]
  /\ fut' = [fut EXCEPT ![c] = "pending"]
  /\ at' = [at EXCEPT ![c] = s]

\* A mutant of AutoApproved that ignores force_approval.
BugAutoApproved(k, force) == ToolOf[k] \in autoApprove

\* A tool the user auto-approved needs no prompt, unless the command safety
\* floor forces one.
AutoApproved(k, force) == ~force /\ ToolOf[k] \in autoApprove

\* wait_for_approval.
WaitForApproval(c, k, force) ==
  /\ Runs(c)
  /\ c = Main => phase = "approve"
  /\ force => c = Main
  /\ k \notin asked
  /\ asked' = asked \cup {k}
  /\ forced' = IF force THEN forced \cup {k} ELSE forced
  /\ IF AutoApproved(k, force)
       THEN approved' = approved \cup {k} /\ UNCHANGED <<registry, fut, at>>
       ELSE Register(c, <<"approval", k>>) /\ UNCHANGED approved
  /\ UNCHANGED <<autoApprove, interrupted, cancelReq, loopVars, userYes, stop>>

\* wait_for_clarify_response, from the loop's phase B1 or relayed for a subagent.
WaitForClarify(c, k) ==
  /\ Runs(c)
  /\ c = Main => phase = "interact"
  /\ k \notin asked
  /\ asked' = asked \cup {k}
  /\ Register(c, <<"clarify", k>>)
  /\ UNCHANGED <<autoApprove, interrupted, cancelReq, loopVars, forced, userYes, approved, stop>>

\* wait_for_plan_approval: only the main agent has plan mode.
WaitForPlan(k) ==
  /\ Runs(Main) /\ phase = "interact"
  /\ k \notin asked
  /\ asked' = asked \cup {k}
  /\ Register(Main, <<"plan", k>>)
  /\ UNCHANGED <<autoApprove, interrupted, cancelReq, loopVars, forced, userYes, approved, stop>>

\* request_pause for a subagent that reached its iteration limit.  The single
\* _pending_pause is overwritten, whoever is in it.
RequestPause(d) ==
  /\ IterationLimit
  /\ Runs(d)
  /\ Register(d, Pause)
  /\ UNCHANGED <<autoApprove, interrupted, cancelReq, loopVars, historyVars, stop>>

-----------------------------------------------------------------------------
(* User side: submit_action *)

\* A decision is delivered to the future found under its key, if it is not done.
Deliver(s, v) ==
  /\ registry[s] # Nobody
  /\ fut[registry[s]] = "pending"
  /\ fut' = [fut EXCEPT ![registry[s]] = v]

SubmitApproval(k, v, all) ==
  /\ Deliver(<<"approval", k>>, v)
  /\ autoApprove' = IF all /\ v = "yes" THEN autoApprove \cup {ToolOf[k]} ELSE autoApprove
  /\ userYes' = IF v = "yes" THEN userYes \cup {k} ELSE userYes
  /\ UNCHANGED <<registry, interrupted, at, cancelReq, loopVars, asked, forced, approved, stop>>

\* PauseResult, ClarifyResult and PlanApprovalResult only resolve the future; the
\* mutant has no branch for PauseResult.
BugSubmitDecision(s, v) ==
  /\ s \in Keyed /\ s[1] # "approval"
  /\ Deliver(s, v)
  /\ UNCHANGED <<registry, autoApprove, interrupted, at, cancelReq, loopVars, historyVars, stop>>

SubmitDecision(s, v) ==
  /\ s[1] # "approval"
  /\ Deliver(s, v)
  /\ UNCHANGED <<registry, autoApprove, interrupted, at, cancelReq, loopVars, historyVars, stop>>

Registered == {registry[s] : s \in Slots} \ {Nobody}

\* UIProtocol.submit_action(InterruptSignal): every registered future that is
\* not done is cancelled.
CancelRegistered(f) ==
  [c \in Coros |-> IF c \in Registered /\ f[c] = "pending" THEN "cancelled" ELSE f[c]]

\* StdioProtocol.submit_action: the streaming task is cancelled as well.  The
\* CancelledError reaches every coroutine of the turn at its await, the result
\* of a future that was already resolved included; gather() remembers it, an
\* awaited single delegation is the only one to see it.
CancelTask(f) ==
  [c \in Coros |-> IF Waiting(c) THEN "cancelled" ELSE f[c]]

GatherCancelled == Cardinality(batch) > 1 \/ \A d \in batch : at[d] = Off

SubmitInterrupt ==
  /\ interrupted' = TRUE
  /\ IF at[Main] = Off
       THEN fut' = CancelRegistered(fut) /\ UNCHANGED <<cancelReq, stop>>
       ELSE /\ fut' = CancelTask(CancelRegistered(fut))
            /\ cancelReq' = [c \in Coros |->
                 cancelReq[c] \/ at[c] = Run \/ (at[c] = Gather /\ GatherCancelled)]
            /\ stop' = TRUE
  /\ UNCHANGED <<registry, autoApprove, at, loopVars, historyVars>>

\* asyncio.wait_for around the future gives up; only Main's provider-error
\* pause has a timeout.
Timeout ==
  /\ at[Main] = Pause /\ timed /\ fut[Main] = "pending"
  /\ fut' = [fut EXCEPT ![Main] = "timedout"]
  /\ UNCHANGED <<registry, autoApprove, interrupted, at, cancelReq, loopVars, historyVars, stop>>

-----------------------------------------------------------------------------
(* Waking up: the finally block empties the slot by key, whoever is in it *)

\* Its mutant clears the whole dict instead of popping one key.
BugWake(c, place) ==
  /\ Waiting(c) /\ fut[c] # "pending"
  /\ registry' = [s \in Slots |-> IF s[1] = at[c][1] THEN Nobody ELSE registry[s]]
  /\ fut' = [fut EXCEPT ![c] = "none"]
  /\ at' = [at EXCEPT ![c] = place]

Wake(c, place) ==
  /\ Waiting(c) /\ fut[c] # "pending"
  /\ registry' = [registry EXCEPT ![at[c]] = Nobody]
  /\ fut' = [fut EXCEPT ![c] = "none"]
  /\ at' = [at EXCEPT ![c] = place]

\* Phase A of the loop: approved, rejected with feedback (go on), rejected
\* without (stop), or cancelled (stop): the CancelledError ends here.
WakeMainApproval ==
  /\ at[Main] \in {"approval"} \X CallIds
  /\ \/ fut[Main] = "yes" /\ Wake(Main, Run) /\ approved' = approved \cup {at[Main][2]}
     \/ fut[Main] = "no" /\ Wake(Main, Run) /\ UNCHANGED approved
     \/ fut[Main] \in {"no", "cancelled"} /\ Wake(Main, Off) /\ UNCHANGED approved
  /\ UNCHANGED <<autoApprove, interrupted, cancelReq, loopVars, asked, forced, userYes, stop>>

\* handle_clarify and handle_plan_approval: wait_for_* turned a CancelledError
\* into an answer, which the loop treats as one more result; only a plan
\* rejected without feedback stops it.
WakeMainInteractive ==
  /\ at[Main] \in {"clarify", "plan"} \X CallIds
  /\ \/ Wake(Main, Run)
     \/ at[Main][1] = "plan" /\ fut[Main] = "no" /\ Wake(Main, Off)
  /\ UNCHANGED <<autoApprove, interrupted, cancelReq, loopVars, historyVars, stop>>

\* The loop's pause prompts.  Continue after a limit or an interrupt clears the
\* flag; Continue after a provider error only retries; all else ends the turn.
WakeMainPause ==
  /\ at[Main] = Pause
  /\ \/ /\ fut[Main] = "yes"
        /\ Wake(Main, Run)
        /\ phase' = "top"
        /\ IF timed THEN UNCHANGED <<interrupted, stop, continues>>
                    ELSE /\ interrupted' = FALSE
                         /\ stop' = FALSE
                         /\ continues' = continues + 1
     \/ /\ fut[Main] # "yes"
        /\ Wake(Main, Off)
        /\ UNCHANGED <<phase, interrupted, stop, continues>>
  /\ UNCHANGED <<autoApprove, cancelReq, batch, timed, turn, rounds, historyVars>>

\* A delegation that raises: a lone one is awaited directly, so its exception
\* is the turn's.
DelegateRaises(d) ==
  cancelReq' = [cancelReq EXCEPT ![d] = FALSE, ![Main] = @ \/ batch = {d}]

\* _handle_tool_approval: an answer is relayed to the subprocess; a
\* CancelledError leaves execute_async after the subprocess is terminated.
WakeDelegateApproval(d) ==
  /\ at[d] \in {"approval"} \X CallIds
  /\ \/ fut[d] = "yes" /\ Wake(d, Run) /\ approved' = approved \cup {at[d][2]}
        /\ UNCHANGED cancelReq
     \/ fut[d] = "no" /\ Wake(d, Run) /\ UNCHANGED <<approved, cancelReq>>
     \/ fut[d] = "cancelled" /\ Wake(d, Off) /\ DelegateRaises(d) /\ UNCHANGED approved
  /\ UNCHANGED <<autoApprove, interrupted, loopVars, asked, forced, userYes, stop>>

\* _handle_clarify_request: whatever happened is relayed as an answer.
\* Its mutant also clears the interrupt flag, as the pause handler below does.
BugWakeDelegateClarify(d) ==
  /\ at[d] \in {"clarify"} \X CallIds
  /\ Wake(d, Run)
  /\ interrupted' = FALSE
  /\ UNCHANGED <<autoApprove, cancelReq, loopVars, historyVars, stop>>

WakeDelegateClarify(d) ==
  /\ at[d] \in {"clarify"} \X CallIds
  /\ Wake(d, Run)
  /\ UNCHANGED <<autoApprove, interrupted, cancelReq, loopVars, historyVars, stop>>

\* _handle_pause_request: relays the answer and always clears the interrupt flag.
WakeDelegatePause(d) ==
  /\ at[d] = Pause
  /\ Wake(d, Run)
  /\ interrupted' = FALSE
  /\ UNCHANGED <<autoApprove, cancelReq, loopVars, historyVars, stop>>

-----------------------------------------------------------------------------
(* The delegations of a batch *)

EndDelegate(d) ==
  /\ at' = [at EXCEPT ![d] = Off]
  /\ UNCHANGED <<protocolVars, loopVars, historyVars, stop>>

\* The subprocess reports DONE or ERROR, or exits.
DelegateDone(d) == Runs(d) /\ EndDelegate(d) /\ UNCHANGED cancelReq

\* Between two lines of the subprocess the flag is polled: terminate it.
DelegatePoll(d) == Runs(d) /\ interrupted /\ EndDelegate(d) /\ UNCHANGED cancelReq

\* CancelledError at the delegation's own await.  The mutant waits for a
\* subprocess nobody terminates.
BugDelegateAborted(d) == FALSE

DelegateAborted(d) ==
  /\ at[d] = Run /\ cancelReq[d]
  /\ EndDelegate(d)
  /\ DelegateRaises(d)

-----------------------------------------------------------------------------
(* The tool loop of the turn *)

MainStep(p) ==
  /\ Runs(Main) /\ phase = p
  /\ UNCHANGED <<autoApprove, historyVars>>

MainQuiet == UNCHANGED <<registry, fut, interrupted, cancelReq, stop>>

\* reset() cancels what is pending and empties every slot.
Reset ==
  /\ interrupted' = FALSE
  /\ fut' = CancelRegistered(fut)
  /\ registry' = [s \in Slots |-> Nobody]

\* run_stdio_server: reset() the protocol and start a streaming task.
StartTurn ==
  /\ at[Main] = Off /\ turn < MaxTurns
  /\ Reset
  /\ at' = [at EXCEPT ![Main] = Run]
  /\ cancelReq' = [c \in Coros |-> FALSE]
  /\ phase' = "top" /\ turn' = turn + 1 /\ rounds' = 0 /\ continues' = 0
  /\ stop' = FALSE
  /\ UNCHANGED <<autoApprove, batch, timed, historyVars>>

\* Top of an iteration with nothing against it: call the LLM.
BeginRound ==
  /\ MainStep("top") /\ MainQuiet
  /\ ~interrupted
  /\ phase' = "llm" /\ rounds' = rounds + 1
  /\ UNCHANGED <<at, batch, timed, continues, turn>>

\* Top of an iteration with the limit reached or the flag set: prompt, or stop
\* after MAX_PAUSE_CONTINUES continues.
PauseOrStop ==
  /\ MainStep("top")
  /\ interrupted \/ (IterationLimit /\ rounds > 0)
  /\ IF continues >= MaxContinues
       THEN at' = [at EXCEPT ![Main] = Off] /\ UNCHANGED <<registry, fut, timed>>
       ELSE Register(Main, Pause) /\ timed' = FALSE
  /\ UNCHANGED <<interrupted, cancelReq, stop, phase, batch, continues, turn, rounds>>

\* The response has tool calls.
ToolCalls ==
  /\ MainStep("llm") /\ MainQuiet
  /\ ~interrupted /\ rounds < MaxRounds
  /\ phase' = "approve"
  /\ UNCHANGED <<at, batch, timed, continues, turn, rounds>>

\* The response has none, or the flag was seen while streaming: the turn ends.
FinalResponse ==
  /\ MainStep("llm") /\ MainQuiet
  /\ at' = [at EXCEPT ![Main] = Off]
  /\ UNCHANGED loopVars

\* The provider failed: pause with a timeout.
ProviderError ==
  /\ MainStep("llm") /\ rounds < MaxRounds
  /\ Register(Main, Pause)
  /\ timed' = TRUE
  /\ UNCHANGED <<interrupted, cancelReq, stop, phase, batch, continues, turn, rounds>>

\* Phase A is over, then phase B1.
NextPhase ==
  /\ \/ MainStep("approve") /\ phase' = "interact"
     \/ MainStep("interact") /\ phase' = "execute"
  /\ MainQuiet
  /\ UNCHANGED <<at, batch, timed, continues, turn, rounds>>

\* Phase B2: run the approved tools, the delegations D among them, in parallel.
ExecuteTools(D) ==
  /\ MainStep("execute") /\ MainQuiet
  /\ batch' = D
  /\ phase' = "top"
  /\ at' = [c \in Coros |-> IF c \in D THEN Run
                            ELSE IF c = Main /\ D # {} THEN Gather ELSE at[c]]
  /\ UNCHANGED <<timed, continues, turn, rounds>>

\* Its mutant is a gather() without return_exceptions: the first failure ends it.
BugJoin ==
  /\ at[Main] = Gather /\ \E d \in batch : at[d] = Off
  /\ at' = [at EXCEPT ![Main] = Run]
  /\ UNCHANGED <<protocolVars, cancelReq, loopVars, historyVars, stop>>

\* The awaited delegation, or the gather() of several, returns.
Join ==
  /\ at[Main] = Gather /\ \A d \in batch : at[d] = Off
  /\ at' = [at EXCEPT ![Main] = Run]
  /\ UNCHANGED <<protocolVars, cancelReq, loopVars, historyVars, stop>>

\* A CancelledError no handler of the loop catches ends the streaming task.
TurnAborted ==
  /\ at[Main] = Run /\ cancelReq[Main]
  /\ at' = [at EXCEPT ![Main] = Off]
  /\ UNCHANGED <<protocolVars, cancelReq, loopVars, historyVars, stop>>

-----------------------------------------------------------------------------
Ask(c) ==
  \E k \in CallIds : WaitForClarify(c, k) \/ \E f \in BOOLEAN : WaitForApproval(c, k, f)

\* Everything the turn does on its own, without the user.
MainProgress ==
  \/ WakeMainApproval \/ WakeMainInteractive \/ WakeMainPause
  \/ BeginRound \/ PauseOrStop \/ ToolCalls \/ FinalResponse \/ NextPhase
  \/ (\E D \in SUBSET Delegates : ExecuteTools(D)) \/ Join \/ TurnAborted

DelegateProgress(d) ==
  \/ WakeDelegateApproval(d) \/ WakeDelegateClarify(d) \/ WakeDelegatePause(d)
  \/ DelegateDone(d) \/ DelegatePoll(d) \/ DelegateAborted(d)

\* The user answers the prompt of slot s.
Answer(s) ==
  \E v \in {"yes", "no"} :
    \/ SubmitDecision(s, v)
    \/ s[1] = "approval" /\ \E all \in BOOLEAN : SubmitApproval(s[2], v, all)

Next ==
  \/ StartTurn \/ MainProgress \/ ProviderError \/ Timeout
  \/ \E c \in Coros : Ask(c)
  \/ \E k \in CallIds : WaitForPlan(k)
  \/ \E d \in Delegates : DelegateProgress(d) \/ RequestPause(d)
  \/ \E s \in Slots : Answer(s)
  \/ SubmitInterrupt

Spec == Init /\ [][Next]_vars

\* The event loop runs every coroutine that can go on; a subprocess ends or
\* reports; nobody promises that the user answers or that anything times out.
FairSpec ==
  /\ Spec
  /\ WF_vars(MainProgress)
  /\ \A d \in Delegates : WF_vars(DelegateProgress(d))

\* The user answers every prompt the code keeps registered.
AttentiveSpec == FairSpec /\ \A s \in Slots : WF_vars(Answer(s))

-----------------------------------------------------------------------------
(* Properties *)

\* A coroutine that waits for an answer can be answered: the slot it waits in
\* holds its own future.  wait_for_*, their finally blocks and reset() write the
\* slots by key, without looking whose future is there.
WaitersRegistered == \A c \in Coros : fut[c] = "pending" => registry[at[c]] = c

\* wait_for_approval reports approved only for a call the user approved, or for
\* one of a tool the user auto-approved that the safety floor did not force to
\* a prompt: no late, repeated or cancelled answer approves another call.
ApprovalsAreTheUsers ==
  \A k \in approved : k \in userYes \/ (k \notin forced /\ ToolOf[k] \in autoApprove)

\* When the streaming task ended, none of its delegations runs on and no slot
\* holds a future of it, however it ended: the next turn's reset() finds nothing.
TurnLeavesNothingBehind ==
  at[Main] = Off =>
    /\ \A d \in Delegates : at[d] = Off
    /\ \A s \in Slots : registry[s] = Nobody

\* After Stop, and until the user withdraws it with Continue, the turn calls the
\* LLM no more: the CancelledError that stdio_server.submit_action sends through
\* the task is not lost in a handler that turns it into an answer.
NoLLMCallAfterStop == [][rounds' > rounds => ~stop]_vars

\* After Stop the turn ends, or asks the user whether to go on, provided the user
\* also answers the prompts that a clarify or plan call cancelled by Stop lets
\* follow (AttentiveSpec).
StopEndsTurn == stop ~> (at[Main] \in {Off, Pause} \/ ~stop)

\* A user who answers the prompts on screen lets every waiting coroutine go on:
\* no future is left that nothing can resolve.
NoPromptHangs == \A c \in Coros : Waiting(c) ~> ~Waiting(c)

\* The life-cycle comment of protocol.py: "Only one pause can be active at a time".
OnePauseActive == Cardinality({c \in Coros : at[c] = Pause}) <= 1

-----------------------------------------------------------------------------
(* What the proofs need: the invariants above are not inductive *)

\* A delegation that has not ended belongs to the batch Main is waiting for.
DelegatesGathered ==
  \A d \in Delegates : at[d] # Off => at[Main] = Gather /\ d \in batch

\* Who is registered in a slot is waiting in it.
RegisteredWaits == \A s \in Slots : registry[s] # Nobody => at[registry[s]] = s

\* Only calls that were asked about have somebody waiting in their slots.
KeysAsked == \A c \in Coros : at[c] \in Keyed => at[c][2] \in asked

\* A future resolved with yes was resolved by the user.
YesIsTheUsers ==
  \A c \in Coros, k \in CallIds :
    at[c] = <<"approval", k>> /\ fut[c] = "yes" => k \in userYes

\* Who has a pending future waits, and nobody else waits in the same slot.
OneWaiterPerSlot ==
  /\ \A c \in Coros : fut[c] = "pending" => Waiting(c)
  /\ \A c, e \in Coros : Waiting(c) /\ at[c] = at[e] => c = e

\* At most one coroutine can ask for a pause.
OnePauser == IterationLimit => \A d, e \in Delegates : d = e

=============================================================================
