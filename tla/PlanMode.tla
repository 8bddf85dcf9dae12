------------------------------ MODULE PlanMode ------------------------------
(***************************************************************************)
(* Plan mode: the plan state (core/plan_mode.py), the permission manager   *)
(* (core/permission_mode.py), the mode kept by each session's message      *)
(* store (session/store/memory_store.py), and the code that is meant to    *)
(* keep the three in step: the user's mode switch, the synchronization at  *)
(* the start of a turn, the two plan tools and the tool loop that gates a  *)
(* response's calls one by one before it runs any (core/agent.py,          *)
(* core/special_tool_handlers.py, core/tool_gating.py).                    *)
(*                                                                         *)
(* The user may switch the mode at any moment, the program may be stopped  *)
(* and started anew, and a call that runs in a thread when Stop arrives    *)
(* takes effect later.  A plan file is a version number, 1 the template.   *)
(*                                                                         *)
(* A definition named Bug... is the mutant of the definition after it.     *)
(***************************************************************************)
EXTENDS Naturals, Sequences

CONSTANTS
  Sessions,    \* session ids
  StartMode,   \* the permission mode the program is started with
  MaxCalls,    \* bound: tool calls of one response
  MaxVersion   \* bound: versions of a plan file; more edits leave the last

Modes == {"normal", "auto", "plan"}

ASSUME ConstantsAssumption ==
  StartMode \in Modes /\ MaxCalls \in Nat /\ MaxVersion \in Nat \ {0}

\* What the model asks for: any tool that changes something, a write to the
\* plan file, and the two plan tools.  Read-only tools change nothing here.
Calls == {"edit", "edit_plan", "enter_plan_mode", "request_plan_approval"}

Tools  == Calls \ {"request_plan_approval"}
NoCall == [c \in Tools |-> 0]

NoPath == "no path"
NoPlan == <<>>
Plans  == Sessions \X (1..MaxVersion)   \* a version of a session's plan

VARIABLES
  session,   \* the current session
  mode,      \* PermissionManager.mode
  active,    \* PlanModeState.is_active
  awaiting,  \* PlanModeState._awaiting_approval
  path,      \* PlanModeState.plan_file_path: the session whose file it is
  hash,      \* PlanModeState.plan_hash
  store,     \* per session: MessageStore.current_mode, plan_hash, plan_path
  file,      \* per session: the version of its plan file, 0 for none
  phase,     \* where the turn is
  calls,     \* the response's calls Phase A has not dealt with
  interactive,\* how many request_plan_approval Phase A let through
  executable,\* the other calls it let through: how often each has to run
  entered,   \* a call of enter_plan_mode succeeded; its event is not stored yet
  prompt,    \* the plan the user is asked about
  strays,    \* calls that Stop left running in their threads
  bound,     \* history: the turn is in plan mode, and the user has not freed it
  wrote,     \* history: an edit ran while the turn was bound
  disturbed, \* history: the user or a stray changed the plan state in this turn
  autoChosen,\* history: the sessions whose user's last switch was to auto
  accepted   \* history: the plan the user approved in the last response

planVars    == <<active, awaiting, path, hash>>
loopVars    == <<phase, calls, interactive, executable, entered, prompt>>
historyVars == <<bound, wrote, disturbed, autoChosen, accepted>>
vars == <<session, mode, planVars, store, file, loopVars, strays, historyVars>>

Phases == {"idle", "llm", "gate", "ask", "interact", "submit", "plan", "run"}
StoreModes == Modes \cup {"awaiting_approval"}
StoreStates == [mode : StoreModes, hash : Plans \cup {NoPlan},
                path : Sessions \cup {NoPath}]

TypeOK ==
  /\ session \in Sessions
  /\ mode \in Modes
  /\ active \in BOOLEAN /\ awaiting \in BOOLEAN
  /\ path \in Sessions \cup {NoPath}
  /\ hash \in Plans \cup {NoPlan}
  /\ store \in [Sessions -> StoreStates]
  /\ file \in [Sessions -> 0..MaxVersion]
  /\ phase \in Phases
  /\ calls \in Seq(Calls)
  /\ interactive \in Nat
  /\ executable \in [Tools -> Nat]
  /\ entered \in BOOLEAN
  /\ prompt \in Plans \cup {NoPlan}
  /\ strays \in SUBSET Calls
  /\ bound \in BOOLEAN /\ wrote \in BOOLEAN /\ disturbed \in BOOLEAN
  /\ autoChosen \in SUBSET Sessions
  /\ accepted \in Plans \cup {NoPlan}

NewStore == [mode |-> "normal", hash |-> NoPlan, path |-> NoPath]

Init ==
  /\ session \in Sessions
  /\ mode = StartMode
  /\ active = FALSE /\ awaiting = FALSE /\ path = NoPath /\ hash = NoPlan
  /\ store = [s \in Sessions |-> NewStore]
  /\ file = [s \in Sessions |-> 0]
  /\ phase = "idle" /\ calls = <<>> /\ interactive = 0 /\ executable = NoCall
  /\ entered = FALSE /\ prompt = NoPlan
  /\ strays = {}
  /\ bound = FALSE /\ wrote = FALSE /\ disturbed = FALSE /\ accepted = NoPlan
  /\ autoChosen = {}

-----------------------------------------------------------------------------
(* The plan state *)

\* enter(): the file is created from the template unless it exists.  A pending
\* approval stays pending.
Enter ==
  /\ active' = TRUE
  /\ path' = session
  /\ hash' = NoPlan
  /\ file' = [file EXCEPT ![session] = IF @ = 0 THEN 1 ELSE @]
  /\ UNCHANGED awaiting

\* exit_for_approval(), for a state it does not refuse.
ExitForApproval ==
  /\ hash' = <<path, file[path]>>
  /\ active' = FALSE
  /\ awaiting' = TRUE
  /\ UNCHANGED path

\* approve(h): refused, without a word, if another plan was submitted since.
Approve(h) ==
  /\ active' = (active /\ h # hash)
  /\ awaiting' = (awaiting /\ h # hash)
  /\ UNCHANGED <<path, hash>>

\* reject(): back to plan mode, whatever became of it in the meantime.  The
\* mutant forgets to go back.
BugReject ==
  hash' = NoPlan /\ awaiting' = FALSE /\ UNCHANGED <<active, path>>

Reject ==
  hash' = NoPlan /\ awaiting' = FALSE /\ active' = TRUE /\ UNCHANGED path

Reset ==
  active' = FALSE /\ awaiting' = FALSE /\ path' = NoPath /\ hash' = NoPlan

\* gate_tool() for a call: while an approval is pending nothing may be changed,
\* in plan mode nothing but the plan file, and that only if its path is known.  The mutant
\* forgets the other tools while an approval is pending.
BugBlocked(c) ==
  IF awaiting THEN c = "edit_plan"
  ELSE active /\ (c = "edit" \/ (c = "edit_plan" /\ path = NoPath))

Blocked(c) ==
  IF awaiting THEN c \in {"edit", "edit_plan"}
  ELSE active /\ (c = "edit" \/ (c = "edit_plan" /\ path = NoPath))

SetStoreMode(m) == store' = [store EXCEPT ![session].mode = m]

-----------------------------------------------------------------------------
(* The user, and the program's life *)

Chosen(m) == IF m = "auto" THEN autoChosen \cup {session} ELSE autoChosen \ {session}

\* set_permission_mode(m), whenever the event loop is free: Phase A awaits
\* nothing but the user.  What happens depends on the manager's mode, not on the
\* plan state's: leaving plan mode resets the plan state, and the switch is
\* stored only if it is one for the manager.
SetMode(m) ==
  /\ phase # "gate"
  /\ mode' = m
  /\ IF m = "plan" /\ mode # "plan" /\ ~active
       THEN Enter
       ELSE /\ UNCHANGED file
            /\ IF m # "plan" /\ mode = "plan" /\ (active \/ awaiting)
                 THEN Reset ELSE UNCHANGED planVars
  /\ IF m # mode
       THEN SetStoreMode(m) /\ autoChosen' = Chosen(m)
       ELSE UNCHANGED <<store, autoChosen>>
  /\ bound' = (bound /\ m = "plan")
  /\ disturbed' = (phase # "idle")
  /\ UNCHANGED <<session, loopVars, strays, wrote, accepted>>

\* A new session: reset_session() resets the plan state and not the manager.
NewSession(s) ==
  /\ phase = "idle" /\ s # session
  /\ store[s] = NewStore /\ file[s] = 0
  /\ session' = s
  /\ Reset
  /\ UNCHANGED <<mode, store, file, loopVars, strays, historyVars>>

\* resume_session: the store is read back from its file; the plan state and
\* the manager are left to the next turn's synchronization.
ResumeSession(s) ==
  /\ phase = "idle" /\ s # session
  /\ session' = s
  /\ UNCHANGED <<mode, planVars, store, file, loopVars, strays, historyVars>>

\* The turn ends.
Quiet ==
  /\ phase' = "idle" /\ calls' = <<>> /\ interactive' = 0 /\ executable' = NoCall
  /\ entered' = FALSE /\ prompt' = NoPlan
  /\ bound' = FALSE /\ disturbed' = FALSE /\ accepted' = NoPlan

\* The program ends, wherever it is, and is started for some session.  The
\* stores are on disk, event by event.
Restart(s) ==
  /\ session' = s
  /\ mode' = StartMode
  /\ Reset
  /\ strays' = {}
  /\ Quiet
  /\ UNCHANGED <<store, file, wrote, autoChosen>>

EndTurn ==
  /\ phase = "llm"
  /\ Quiet
  /\ UNCHANGED <<session, mode, planVars, store, file, strays, wrote, autoChosen>>

\* Stop is met while the model answers or while calls run: the CancelledError
\* ends the turn.  A thread goes on, and the event of an enter_plan_mode is lost.
\* Of the calls left running those are kept that may still matter here.
Stop ==
  /\ phase \in {"llm", "submit", "run"}
  /\ Quiet
  /\ strays' = IF phase = "run" THEN strays \cup {c \in Tools \ {"edit"} : executable[c] > 0}
                                ELSE strays
  /\ UNCHANGED <<session, mode, planVars, store, file, wrote, autoChosen>>

-----------------------------------------------------------------------------
(* The turn *)

\* _sync_plan_mode_from_store(), from the session's store st.
Sync(st) ==
  /\ mode' = IF st.mode = "awaiting_approval" THEN "plan" ELSE st.mode
  /\ active' = (st.mode = "plan")
  /\ awaiting' = \/ st.mode = "awaiting_approval"
                 \/ st.mode = "plan" /\ active /\ awaiting
  /\ path' = IF st.path # NoPath
                  /\ (st.mode = "awaiting_approval" \/ (st.mode = "plan" /\ ~active))
               THEN st.path ELSE path
  /\ hash' = IF st.mode = "awaiting_approval" /\ st.hash # NoPlan
               THEN st.hash ELSE hash

\* The mutant begins the turn without the synchronization.
BugBeginTurn ==
  /\ phase = "idle"
  /\ phase' = "llm"
  /\ UNCHANGED <<mode, planVars>>
  /\ bound' = (store[session].mode \in {"plan", "awaiting_approval"})
  /\ disturbed' = FALSE
  /\ accepted' = NoPlan
  /\ UNCHANGED <<session, store, file, calls, interactive, executable, entered, prompt,
                 strays, wrote, autoChosen>>

BeginTurn ==
  /\ phase = "idle"
  /\ phase' = "llm"
  /\ Sync(store[session])
  /\ bound' = (store[session].mode \in {"plan", "awaiting_approval"})
  /\ disturbed' = FALSE
  /\ accepted' = NoPlan
  /\ UNCHANGED <<session, store, file, calls, interactive, executable, entered, prompt,
                 strays, wrote, autoChosen>>

\* A response with tool calls.
Respond(cs) ==
  /\ phase = "llm"
  /\ phase' = "gate"
  /\ calls' = cs
  /\ accepted' = NoPlan
  /\ UNCHANGED <<session, mode, planVars, store, file, interactive, executable,
                 entered, prompt, strays, bound, wrote, disturbed, autoChosen>>

gateFrame == <<session, mode, planVars, store, file, entered, prompt, strays,
               historyVars>>

\* The next call is let through, or dealt with otherwise.
LetThrough ==
  LET c == Head(calls) IN
  /\ calls' = Tail(calls)
  /\ IF c = "request_plan_approval"
       THEN interactive' = interactive + 1 /\ UNCHANGED executable
       ELSE executable' = [executable EXCEPT ![c] = @ + 1] /\ UNCHANGED interactive

Resolved == calls' = Tail(calls) /\ UNCHANGED <<interactive, executable>>

\* Phase A refuses a call: plan mode, a repeated failure, a forbidden command.
Refuse ==
  /\ phase = "gate" /\ calls # <<>>
  /\ Resolved
  /\ UNCHANGED <<phase, gateFrame>>

\* Phase A lets a call through without asking: the mode is auto or plan, or the
\* tool's category is approved.
Pass ==
  /\ phase = "gate" /\ calls # <<>>
  /\ ~Blocked(Head(calls))
  /\ LetThrough
  /\ UNCHANGED <<phase, gateFrame>>

\* Phase A asks the user: for the category, or because the command or the path
\* is one no mode exempts.
Ask ==
  /\ phase = "gate" /\ calls # <<>>
  /\ Head(calls) \in {"edit", "edit_plan"} /\ ~Blocked(Head(calls))
  /\ phase' = "ask"
  /\ UNCHANGED <<calls, interactive, executable, gateFrame>>

Approved ==
  /\ phase = "ask"
  /\ phase' = "gate"
  /\ LetThrough
  /\ UNCHANGED gateFrame

RejectedWithFeedback ==
  /\ phase = "ask"
  /\ phase' = "gate"
  /\ Resolved
  /\ UNCHANGED gateFrame

\* A rejection without feedback, or Stop: nothing of the response runs.
Rejected ==
  /\ phase = "ask"
  /\ Quiet
  /\ UNCHANGED <<session, mode, planVars, store, file, strays, wrote, autoChosen>>

EndGate ==
  /\ phase = "gate" /\ calls = <<>>
  /\ phase' = "interact"
  /\ UNCHANGED <<calls, interactive, executable, gateFrame>>

\* Phase B1 runs the interactive calls, one after the other, before any other.
\* request_plan_approval is refused outside plan mode, and in a plan mode that
\* does not know its file.
RequestFails ==
  /\ phase = "interact" /\ interactive > 0
  /\ ~(active /\ path # NoPath /\ file[path] # 0)
  /\ interactive' = interactive - 1
  /\ UNCHANGED <<session, mode, planVars, store, file, phase, calls, executable,
                 entered, prompt, strays, historyVars>>

\* The tool itself, in a thread.
Request ==
  /\ phase = "interact" /\ interactive > 0
  /\ active /\ path # NoPath /\ file[path] # 0
  /\ ExitForApproval
  /\ prompt' = <<path, file[path]>>
  /\ phase' = "submit"
  /\ interactive' = interactive - 1
  /\ UNCHANGED <<session, mode, store, file, calls, executable, entered,
                 strays, historyVars>>

\* handle_plan_approval goes on: the plan is stored as submitted, the user asked.
Submitted ==
  /\ phase = "submit"
  /\ phase' = "plan"
  /\ store' = [store EXCEPT ![session] =
                 [mode |-> "awaiting_approval", hash |-> prompt, path |-> prompt[1]]]
  /\ UNCHANGED <<session, mode, planVars, file, calls, interactive, executable, entered,
                 prompt, strays, historyVars>>

\* The user approves.  What approve() says of it is ignored.
ApprovePlan ==
  /\ phase = "plan"
  /\ Approve(prompt)
  /\ SetStoreMode("normal")
  /\ mode' = "normal"
  /\ autoChosen' = Chosen("normal")
  /\ accepted' = prompt /\ bound' = FALSE
  /\ phase' = "interact" /\ prompt' = NoPlan
  /\ UNCHANGED <<session, file, calls, interactive, executable, entered, strays,
                 wrote, disturbed>>

\* The user rejects the plan, with feedback (Stop counts as such): the turn
\* goes on, in plan mode.
RejectPlan ==
  /\ phase = "plan"
  /\ Reject
  /\ SetStoreMode("plan")
  /\ phase' = "interact" /\ prompt' = NoPlan
  /\ UNCHANGED <<session, mode, file, calls, interactive, executable, entered, strays,
                 historyVars>>

\* Without feedback the turn ends.
DismissPlan ==
  /\ phase = "plan"
  /\ Reject
  /\ SetStoreMode("plan")
  /\ Quiet
  /\ UNCHANGED <<session, mode, file, strays, wrote, autoChosen>>

EndInteract ==
  /\ phase = "interact" /\ interactive = 0
  /\ phase' = "run"
  /\ UNCHANGED <<session, mode, planVars, store, file, calls, interactive, executable,
                 entered, prompt, strays, historyVars>>

\* What a call does when its thread gets to it.  The plan file the model knows
\* of is the plan state's, or its session's.
PlanTarget == IF path = NoPath THEN session ELSE path

EditPlan ==
  /\ file' = [file EXCEPT ![PlanTarget] = IF @ < MaxVersion THEN @ + 1 ELSE @]
  /\ UNCHANGED <<planVars, wrote>>

Edit == wrote' = (wrote \/ bound) /\ UNCHANGED <<planVars, file>>

\* enter_plan_mode is refused in plan mode.
EnterPlanMode == ~active /\ Enter /\ UNCHANGED wrote

\* Phase B2 runs the other calls in threads, in any order; a call may fail.
Run(c) ==
  /\ phase = "run" /\ executable[c] > 0
  /\ executable' = [executable EXCEPT ![c] = @ - 1]
  /\ \/ c = "edit" /\ Edit /\ UNCHANGED entered
     \/ c = "edit_plan" /\ EditPlan /\ UNCHANGED entered
     \/ c = "enter_plan_mode" /\ EnterPlanMode /\ entered' = TRUE
     \/ UNCHANGED <<planVars, file, wrote, entered>>
  /\ UNCHANGED <<session, mode, store, phase, calls, interactive, prompt, strays,
                 bound, disturbed, autoChosen, accepted>>

\* Phase C: the results are processed when all calls ended; only then is a new
\* plan mode stored.  The permission manager is not told.
EndRun ==
  /\ phase = "run" /\ executable = NoCall
  /\ phase' = "llm" /\ entered' = FALSE
  /\ IF entered THEN SetStoreMode("plan") ELSE UNCHANGED store
  /\ bound' = (bound \/ (entered /\ active))
  /\ UNCHANGED <<session, mode, planVars, file, calls, interactive, executable,
                 prompt, strays, wrote, disturbed, autoChosen, accepted>>

\* A call that Stop left behind takes effect.
Stray(c) ==
  /\ c \in strays
  /\ strays' = strays \ {c}
  /\ \/ c = "edit_plan" /\ EditPlan /\ UNCHANGED disturbed
     \/ c = "enter_plan_mode" /\ ~active /\ Enter /\ disturbed' = (phase # "idle")
     \/ c = "enter_plan_mode" /\ active /\ UNCHANGED <<planVars, file, disturbed>>
  /\ UNCHANGED <<session, mode, store, loopVars, bound, autoChosen, accepted, wrote>>

Next ==
  \/ \E m \in Modes : SetMode(m)
  \/ \E s \in Sessions : NewSession(s) \/ ResumeSession(s) \/ Restart(s)
  \/ BeginTurn \/ EndTurn \/ Stop
  \/ \E n \in 1..MaxCalls : \E cs \in [1..n -> Calls] : Respond(cs)
  \/ Refuse \/ Pass \/ Ask \/ Approved \/ RejectedWithFeedback \/ Rejected
  \/ EndGate
  \/ RequestFails \/ Request
  \/ \E c \in Tools : Run(c)
  \/ Submitted \/ ApprovePlan \/ RejectPlan \/ DismissPlan
  \/ EndInteract \/ EndRun
  \/ \E c \in strays : Stray(c)

Spec == Init /\ [][Next]_vars

-----------------------------------------------------------------------------
(* Properties *)

\* A turn that begins in a session whose plan is not approved, or in which the
\* model entered plan mode, changes nothing but the plan file until the user
\* approves a plan or leaves plan mode: through rejections, resumed sessions,
\* restarts, switches to plan mode, calls left behind by Stop, and several
\* calls in one response (PlanModeState.gate_tool and what keeps its state).
PlanTurnWritesNothing == ~wrote

\* Between the calls of a turn the plan state is what the session's store says,
\* unless the user switched the mode in the turn or a call left behind by Stop
\* did: what is gated now is what a resumed session will gate
\* (_sync_plan_mode_from_store, handle_plan_approval, enter_plan_mode).
PlanStateFollowsStore ==
  phase \in {"llm", "gate", "ask", "interact", "plan"} /\ ~disturbed =>
    /\ active <=> store[session].mode = "plan"
    /\ awaiting => store[session].mode \in {"plan", "awaiting_approval"}
    /\ store[session].mode = "awaiting_approval" => awaiting

\* A turn runs in auto mode, in which nothing is asked, only if the last switch
\* the user made in this very session was to it, whatever modes other sessions
\* and earlier runs of the program had (set_permission_mode, the store).
AutoWasChosen ==
  phase # "idle" /\ mode = "auto" => session \in autoChosen

\* When the model hears that the user approved its plan, and where it is saved,
\* the file holds the plan the user approved (handle_plan_approval's result).
ApprovedPlanIsSaved ==
  phase = "llm" /\ accepted # NoPlan => file[accepted[1]] = accepted[2]

=============================================================================
