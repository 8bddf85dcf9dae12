-------------------------- MODULE UIProtocol_proofs --------------------------
(***************************************************************************)
(* Proofs about UIProtocol, for every set of delegations, calls and tools  *)
(* and every value of the bounds.                                          *)
(***************************************************************************)
EXTENDS UIProtocol, TLAPS

\* The places of a coroutine are told apart, and a waiting one runs not.
LEMMA PlaceFacts ==
  /\ Off \in Places /\ Run \in Places /\ Gather \in Places /\ Slots \subseteq Places
  /\ Off # Run /\ Off # Gather /\ Run # Gather
  /\ Off \notin Slots /\ Run \notin Slots /\ Gather \notin Slots
  /\ Pause \in Slots /\ Pause \notin Keyed
BY DEF Off, Run, Gather, Places, Slots, Keyed, Pause

\* The slots of a call.
LEMMA SlotFacts ==
  ASSUME NEW k \in CallIds
  PROVE  <<"approval", k>> \in Slots /\ <<"clarify", k>> \in Slots /\ <<"plan", k>> \in Slots
BY DEF Slots, Keyed

LEMMA FutureFacts == {"none", "pending", "yes", "no", "cancelled", "timedout"} \subseteq Futures
BY DEF Futures

LEMMA PhaseFacts == {"top", "llm", "approve", "interact", "execute"} \subseteq Phases
BY DEF Phases

LEMMA CoroFacts == Main \in Coros /\ Delegates \subseteq Coros /\ Nobody \notin Coros
BY ConstantsAssumption DEF Coros

\* Registering keeps the types of what it writes.
LEMMA RegisterType ==
  ASSUME TypeOK, NEW c \in Coros, NEW s \in Slots, Register(c, s)
  PROVE  /\ registry' \in [Slots -> Coros \cup {Nobody}]
         /\ fut' \in [Coros -> Futures]
         /\ at' \in [Coros -> Places]
BY PlaceFacts, FutureFacts DEF TypeOK, Register

\* Waking up keeps the types of what it writes.
LEMMA WakeType ==
  ASSUME TypeOK, NEW c \in Coros, NEW p \in {Off, Run}, Wake(c, p)
  PROVE  /\ registry' \in [Slots -> Coros \cup {Nobody}]
         /\ fut' \in [Coros -> Futures]
         /\ at' \in [Coros -> Places]
BY PlaceFacts, FutureFacts DEF TypeOK, Wake, Waiting

\* A delegation's exception keeps the type of cancelReq.
LEMMA RaisesType ==
  ASSUME TypeOK, NEW d \in Delegates, DelegateRaises(d)
  PROVE  cancelReq' \in [Coros -> BOOLEAN]
BY CoroFacts DEF TypeOK, DelegateRaises

\* Every variable keeps its type.
THEOREM TypeCorrect == Spec => []TypeOK
<1> USE DEF historyVars, loopVars, protocolVars
<1>1. ASSUME Init PROVE TypeOK
  <2>1. /\ registry \in [Slots -> Coros \cup {Nobody}] /\ fut \in [Coros -> Futures]
        /\ at \in [Coros -> Places] /\ cancelReq \in [Coros -> BOOLEAN]
    BY <1>1, PlaceFacts, FutureFacts DEF Init
  <2> QED BY <1>1, <2>1, PhaseFacts DEF Init, TypeOK
<1>2. ASSUME TypeOK, [Next]_vars PROVE TypeOK'
  <2>1. ASSUME NEW c \in Coros, NEW k \in CallIds, NEW f \in BOOLEAN, WaitForApproval(c, k, f)
        PROVE TypeOK'
    <3>1. /\ registry' \in [Slots -> Coros \cup {Nobody}] /\ fut' \in [Coros -> Futures]
          /\ at' \in [Coros -> Places] /\ approved' \in SUBSET CallIds
      <4>1. CASE AutoApproved(k, f)
        BY <1>2, <2>1, <4>1 DEF WaitForApproval, TypeOK
      <4>2. CASE ~AutoApproved(k, f)
        <5>1. Register(c, <<"approval", k>>) /\ approved' = approved
          BY <2>1, <4>2 DEF WaitForApproval
        <5>2. approved' \in SUBSET CallIds
          BY <1>2, <5>1 DEF TypeOK
        <5> QED BY <1>2, <5>1, <5>2, SlotFacts, RegisterType
      <4> QED BY <4>1, <4>2
    <3>2. asked' \in SUBSET CallIds /\ forced' \in SUBSET CallIds
      BY <1>2, <2>1 DEF WaitForApproval, TypeOK
    <3>3. UNCHANGED <<autoApprove, interrupted, cancelReq, loopVars, userYes, stop>>
      BY <2>1 DEF WaitForApproval
    <3> QED BY <1>2, <3>1, <3>2, <3>3 DEF TypeOK
  <2>2. ASSUME NEW c \in Coros, NEW k \in CallIds, WaitForClarify(c, k) PROVE TypeOK'
    <3>1. /\ registry' \in [Slots -> Coros \cup {Nobody}] /\ fut' \in [Coros -> Futures]
          /\ at' \in [Coros -> Places]
      BY <1>2, <2>2, SlotFacts, RegisterType DEF WaitForClarify
    <3> QED BY <1>2, <2>2, <3>1 DEF WaitForClarify, TypeOK
  <2>3. ASSUME NEW k \in CallIds, WaitForPlan(k) PROVE TypeOK'
    <3>1. /\ registry' \in [Slots -> Coros \cup {Nobody}] /\ fut' \in [Coros -> Futures]
          /\ at' \in [Coros -> Places]
      BY <1>2, <2>3, SlotFacts, CoroFacts, RegisterType DEF WaitForPlan
    <3> QED BY <1>2, <2>3, <3>1 DEF WaitForPlan, TypeOK
  <2>4. ASSUME NEW d \in Delegates, RequestPause(d) PROVE TypeOK'
    <3>1. /\ registry' \in [Slots -> Coros \cup {Nobody}] /\ fut' \in [Coros -> Futures]
          /\ at' \in [Coros -> Places]
      BY <1>2, <2>4, PlaceFacts, CoroFacts, RegisterType DEF RequestPause
    <3> QED BY <1>2, <2>4, <3>1 DEF RequestPause, TypeOK
  <2>5. ASSUME NEW s \in Slots, Answer(s) PROVE TypeOK'
    <3>1. ASSUME NEW v \in {"yes", "no"}, SubmitDecision(s, v) PROVE TypeOK'
      <4>1. fut' \in [Coros -> Futures]
        BY <1>2, <3>1, FutureFacts DEF SubmitDecision, Deliver, TypeOK
      <4> QED BY <1>2, <3>1, <4>1 DEF SubmitDecision, TypeOK
    <3>2. ASSUME NEW v \in {"yes", "no"}, NEW all \in BOOLEAN,
                 s[1] = "approval", SubmitApproval(s[2], v, all)
          PROVE TypeOK'
      <4>1. s[2] \in CallIds
        BY <3>2 DEF Slots, Keyed, Pause
      <4>2. ToolOf[s[2]] \in Tools
        BY <4>1, ConstantsAssumption
      <4>3. fut' \in [Coros -> Futures]
        BY <1>2, <3>2, FutureFacts DEF SubmitApproval, Deliver, TypeOK
      <4>4. autoApprove' \in SUBSET Tools /\ userYes' \in SUBSET CallIds
        BY <1>2, <3>2, <4>1, <4>2 DEF SubmitApproval, TypeOK
      <4> QED BY <1>2, <3>2, <4>3, <4>4 DEF SubmitApproval, TypeOK
    <3> QED BY <2>5, <3>1, <3>2 DEF Answer
  <2>6. CASE SubmitInterrupt
    <3>1. fut' \in [Coros -> Futures] /\ cancelReq' \in [Coros -> BOOLEAN]
      BY <1>2, <2>6, FutureFacts DEF SubmitInterrupt, CancelTask, CancelRegistered, TypeOK
    <3> QED BY <1>2, <2>6, <3>1 DEF SubmitInterrupt, TypeOK
  <2>7. CASE Timeout
    <3>1. fut' \in [Coros -> Futures]
      BY <1>2, <2>7, FutureFacts DEF Timeout, TypeOK
    <3> QED BY <1>2, <2>7, <3>1 DEF Timeout, TypeOK
  <2>8. CASE WakeMainApproval
    <3>1. at[Main][2] \in CallIds
      BY <2>8 DEF WakeMainApproval
    <3>2. /\ registry' \in [Slots -> Coros \cup {Nobody}] /\ fut' \in [Coros -> Futures]
          /\ at' \in [Coros -> Places]
      <4>1. Wake(Main, Run) \/ Wake(Main, Off)
        BY <2>8 DEF WakeMainApproval
      <4> QED BY <1>2, <4>1, CoroFacts, WakeType
    <3>3. approved' \in SUBSET CallIds
      BY <1>2, <2>8, <3>1 DEF WakeMainApproval, TypeOK
    <3> QED BY <1>2, <2>8, <3>2, <3>3 DEF WakeMainApproval, TypeOK
  <2>9. CASE WakeMainInteractive
    <3>1. /\ registry' \in [Slots -> Coros \cup {Nobody}] /\ fut' \in [Coros -> Futures]
          /\ at' \in [Coros -> Places]
      BY <1>2, <2>9, CoroFacts, WakeType DEF WakeMainInteractive
    <3> QED BY <1>2, <2>9, <3>1 DEF WakeMainInteractive, TypeOK
  <2>10. CASE WakeMainPause
    <3>1. /\ registry' \in [Slots -> Coros \cup {Nobody}] /\ fut' \in [Coros -> Futures]
          /\ at' \in [Coros -> Places]
      BY <1>2, <2>10, CoroFacts, WakeType DEF WakeMainPause
    <3>2. /\ phase' \in Phases /\ interrupted' \in BOOLEAN /\ stop' \in BOOLEAN
          /\ continues' \in Nat
      <4>1. /\ phase' = "top" \/ phase' = phase
            /\ interrupted' = FALSE \/ interrupted' = interrupted
            /\ stop' = FALSE \/ stop' = stop
            /\ continues' = continues + 1 \/ continues' = continues
        BY <2>10 DEF WakeMainPause
      <4>2. interrupted' \in BOOLEAN /\ stop' \in BOOLEAN
        BY <1>2, <4>1, Zenon DEF TypeOK
      <4>3. continues' \in Nat /\ phase' \in Phases
        <5>1. phase' \in Phases
          BY <1>2, <4>1, PhaseFacts DEF TypeOK
        <5>2. continues \in Nat
          BY <1>2 DEF TypeOK
        <5> QED BY <4>1, <5>1, <5>2
      <4> QED BY <4>2, <4>3
    <3> QED BY <1>2, <2>10, <3>1, <3>2 DEF WakeMainPause, TypeOK
  <2>11. ASSUME NEW d \in Delegates, DelegateProgress(d) PROVE TypeOK'
    <3>1. CASE WakeDelegateApproval(d)
      <4>1. at[d][2] \in CallIds
        BY <3>1 DEF WakeDelegateApproval
      <4>2. /\ registry' \in [Slots -> Coros \cup {Nobody}] /\ fut' \in [Coros -> Futures]
            /\ at' \in [Coros -> Places]
        BY <1>2, <3>1, CoroFacts, WakeType DEF WakeDelegateApproval
      <4>3. approved' \in SUBSET CallIds /\ cancelReq' \in [Coros -> BOOLEAN]
        BY <1>2, <3>1, <4>1, RaisesType DEF WakeDelegateApproval, TypeOK
      <4> QED BY <1>2, <3>1, <4>2, <4>3 DEF WakeDelegateApproval, TypeOK
    <3>2. CASE WakeDelegateClarify(d)
      <4>1. /\ registry' \in [Slots -> Coros \cup {Nobody}] /\ fut' \in [Coros -> Futures]
            /\ at' \in [Coros -> Places]
        BY <1>2, <3>2, CoroFacts, WakeType DEF WakeDelegateClarify
      <4> QED BY <1>2, <3>2, <4>1 DEF WakeDelegateClarify, TypeOK
    <3>3. CASE WakeDelegatePause(d)
      <4>1. /\ registry' \in [Slots -> Coros \cup {Nobody}] /\ fut' \in [Coros -> Futures]
            /\ at' \in [Coros -> Places]
        BY <1>2, <3>3, CoroFacts, WakeType DEF WakeDelegatePause
      <4> QED BY <1>2, <3>3, <4>1 DEF WakeDelegatePause, TypeOK
    <3>4. CASE DelegateDone(d) \/ DelegatePoll(d) \/ DelegateAborted(d)
      <4>1. at' \in [Coros -> Places]
        BY <1>2, <3>4, PlaceFacts
        DEF DelegateDone, DelegatePoll, DelegateAborted, EndDelegate, TypeOK
      <4>2. cancelReq' \in [Coros -> BOOLEAN]
        BY <1>2, <3>4, RaisesType DEF DelegateDone, DelegatePoll, DelegateAborted, TypeOK
      <4> QED BY <1>2, <3>4, <4>1, <4>2
          DEF DelegateDone, DelegatePoll, DelegateAborted, EndDelegate, TypeOK
    <3> QED BY <2>11, <3>1, <3>2, <3>3, <3>4 DEF DelegateProgress
  <2>12. CASE StartTurn
    <3>1. /\ registry' \in [Slots -> Coros \cup {Nobody}] /\ fut' \in [Coros -> Futures]
          /\ at' \in [Coros -> Places] /\ cancelReq' \in [Coros -> BOOLEAN]
      BY <1>2, <2>12, PlaceFacts, FutureFacts DEF StartTurn, Reset, CancelRegistered, TypeOK
    <3>2. /\ interrupted' \in BOOLEAN /\ stop' \in BOOLEAN /\ phase' \in Phases
          /\ turn' \in Nat /\ rounds' \in Nat /\ continues' \in Nat
      <4>1. /\ interrupted' = FALSE /\ stop' = FALSE /\ phase' = "top"
            /\ turn' = turn + 1 /\ rounds' = 0 /\ continues' = 0
        BY <2>12 DEF StartTurn, Reset
      <4>2. interrupted' \in BOOLEAN /\ stop' \in BOOLEAN
        BY <1>2, <4>1, Zenon DEF TypeOK
      <4>3. turn' \in Nat /\ rounds' \in Nat /\ continues' \in Nat /\ phase' \in Phases
        <5>1. phase' \in Phases
          BY <1>2, <4>1, PhaseFacts DEF TypeOK
        <5>2. turn \in Nat /\ rounds \in Nat /\ continues \in Nat
          BY <1>2 DEF TypeOK
        <5> QED BY <4>1, <5>1, <5>2
      <4> QED BY <4>2, <4>3
    <3>3. UNCHANGED <<autoApprove, batch, timed, historyVars>>
      BY <2>12 DEF StartTurn
    <3> QED BY <1>2, <3>1, <3>2, <3>3 DEF TypeOK
  <2>13. CASE BeginRound \/ ToolCalls \/ NextPhase
    BY <1>2, <2>13, PhaseFacts DEF BeginRound, ToolCalls, NextPhase, MainStep, MainQuiet, TypeOK
  <2>14. CASE FinalResponse \/ Join \/ TurnAborted
    <3>1. at' \in [Coros -> Places]
      BY <1>2, <2>14, PlaceFacts DEF FinalResponse, Join, TurnAborted, TypeOK
    <3> QED BY <1>2, <2>14, <3>1
        DEF FinalResponse, Join, TurnAborted, MainStep, MainQuiet, TypeOK
  <2>15. CASE PauseOrStop \/ ProviderError
    <3>1. /\ registry' \in [Slots -> Coros \cup {Nobody}] /\ fut' \in [Coros -> Futures]
          /\ at' \in [Coros -> Places] /\ timed' \in BOOLEAN
      <4>1. CASE Register(Main, Pause) /\ timed' \in BOOLEAN
        BY <1>2, <4>1, PlaceFacts, CoroFacts, RegisterType
      <4>2. CASE at' = [at EXCEPT ![Main] = Off] /\ UNCHANGED <<registry, fut, timed>>
        BY <1>2, <4>2, PlaceFacts DEF TypeOK
      <4> QED BY <2>15, <4>1, <4>2 DEF PauseOrStop, ProviderError
    <3> QED BY <1>2, <2>15, <3>1 DEF PauseOrStop, ProviderError, MainStep, TypeOK
  <2>16. ASSUME NEW D \in SUBSET Delegates, ExecuteTools(D) PROVE TypeOK'
    <3>1. at' \in [Coros -> Places]
      BY <1>2, <2>16, PlaceFacts DEF ExecuteTools, TypeOK
    <3> QED BY <1>2, <2>16, <3>1, PhaseFacts DEF ExecuteTools, MainStep, MainQuiet, TypeOK
  <2>17. CASE UNCHANGED vars
    BY <1>2, <2>17 DEF vars, TypeOK
  <2> QED
    BY <1>2, <2>1, <2>2, <2>3, <2>4, <2>5, <2>6, <2>7, <2>8, <2>9, <2>10, <2>11, <2>12,
       <2>13, <2>14, <2>15, <2>16, <2>17 DEF Next, MainProgress, Ask
<1> QED BY <1>1, <1>2, PTL DEF Spec

-----------------------------------------------------------------------------
(* What a step does to the slots *)

\* A running coroutine takes a slot; a keyed one under a key nobody used.
Asks(c, s) ==
  /\ Runs(c) /\ Register(c, s)
  /\ s \in Keyed => s[2] \notin asked /\ s[2] \in asked'
  /\ s = Pause => c = Main \/ IterationLimit

\* Futures are resolved or cancelled, nobody moves.
Resolves ==
  /\ UNCHANGED <<registry, at>>
  /\ \A c \in Coros : fut'[c] = "pending" => fut[c] = "pending"

\* Coroutines that do not wait for the user move on.
Moves ==
  /\ UNCHANGED <<registry, fut>>
  /\ \A c \in Coros : at'[c] # at[c] => at[c] \notin Slots /\ at'[c] \notin Slots

\* A new turn starts.
Resets == at[Main] = Off /\ Reset /\ at' = [at EXCEPT ![Main] = Run]

\* Every step does one of these, wakes a coroutine, or leaves the slots alone.
LEMMA EveryStep ==
  ASSUME TypeOK, DelegatesGathered, [Next]_vars
  PROVE  /\ asked \subseteq asked'
         /\ \/ \E c \in Coros, s \in Slots : Asks(c, s)
            \/ \E c \in Coros, p \in {Off, Run} : Wake(c, p)
            \/ Resolves \/ Moves \/ Resets
<1> DEFINE Kinds == \/ \E c \in Coros, s \in Slots : Asks(c, s)
                    \/ \E c \in Coros, p \in {Off, Run} : Wake(c, p)
                    \/ Resolves \/ Moves \/ Resets
<1> USE DEF historyVars, loopVars, protocolVars
<1>1. ASSUME NEW c \in Coros, NEW k \in CallIds, NEW f \in BOOLEAN, WaitForApproval(c, k, f)
      PROVE asked \subseteq asked' /\ Kinds
  <2>1. asked' = asked \cup {k} /\ k \notin asked /\ Runs(c)
    BY <1>1 DEF WaitForApproval
  <2>2. CASE AutoApproved(k, f)
    BY <1>1, <2>1, <2>2 DEF WaitForApproval, Moves
  <2>3. CASE ~AutoApproved(k, f)
    <3>1. Register(c, <<"approval", k>>)
      BY <1>1, <2>3 DEF WaitForApproval
    <3>2. <<"approval", k>> # Pause
      BY DEF Pause
    <3>3. Asks(c, <<"approval", k>>)
      BY <2>1, <3>1, <3>2 DEF Asks
    <3> QED BY <2>1, <3>3, SlotFacts
  <2> QED BY <2>2, <2>3
<1>2. ASSUME NEW c \in Coros, NEW k \in CallIds, WaitForClarify(c, k)
      PROVE asked \subseteq asked' /\ Kinds
  <2>1. <<"clarify", k>> # Pause
    BY DEF Pause
  <2>2. Asks(c, <<"clarify", k>>) /\ asked \subseteq asked'
    BY <1>2, <2>1 DEF WaitForClarify, Asks
  <2> QED BY <2>2, SlotFacts
<1>3. ASSUME NEW k \in CallIds, WaitForPlan(k) PROVE asked \subseteq asked' /\ Kinds
  <2>1. <<"plan", k>> # Pause
    BY DEF Pause
  <2>2. Asks(Main, <<"plan", k>>) /\ asked \subseteq asked'
    BY <1>3, <2>1 DEF WaitForPlan, Asks
  <2> QED BY <2>2, SlotFacts, CoroFacts
<1>4. ASSUME NEW d \in Delegates, RequestPause(d) PROVE asked \subseteq asked' /\ Kinds
  <2>1. Asks(d, Pause) /\ asked' = asked
    BY <1>4, PlaceFacts DEF RequestPause, Asks
  <2> QED BY <2>1, PlaceFacts, CoroFacts
<1>5. ASSUME NEW s \in Slots, Answer(s) PROVE asked \subseteq asked' /\ Kinds
  <2>1. ASSUME NEW v \in {"yes", "no"}, SubmitDecision(s, v) PROVE asked' = asked /\ Resolves
    BY <2>1 DEF SubmitDecision, Deliver, Resolves, TypeOK
  <2>2. ASSUME NEW v \in {"yes", "no"}, NEW all \in BOOLEAN, SubmitApproval(s[2], v, all)
        PROVE asked' = asked /\ Resolves
    BY <2>2 DEF SubmitApproval, Deliver, Resolves, TypeOK
  <2> QED BY <1>5, <2>1, <2>2 DEF Answer
<1>6. CASE SubmitInterrupt
  BY <1>6 DEF SubmitInterrupt, CancelTask, CancelRegistered, Resolves, TypeOK
<1>7. CASE Timeout
  BY <1>7 DEF Timeout, Resolves, TypeOK
<1>8. CASE WakeMainApproval \/ WakeMainInteractive \/ WakeMainPause
  <2>1. asked' = asked /\ (Wake(Main, Run) \/ Wake(Main, Off))
    BY <1>8 DEF WakeMainApproval, WakeMainInteractive, WakeMainPause
  <2> QED BY <2>1, CoroFacts
<1>9. ASSUME NEW d \in Delegates, DelegateProgress(d) PROVE asked \subseteq asked' /\ Kinds
  <2>1. CASE WakeDelegateApproval(d) \/ WakeDelegateClarify(d) \/ WakeDelegatePause(d)
    <3>1. asked' = asked /\ (Wake(d, Run) \/ Wake(d, Off))
      BY <2>1 DEF WakeDelegateApproval, WakeDelegateClarify, WakeDelegatePause
    <3> QED BY <3>1, CoroFacts
  <2>2. CASE DelegateDone(d) \/ DelegatePoll(d) \/ DelegateAborted(d)
    <3>1. at[d] = Run /\ EndDelegate(d)
      BY <2>2 DEF DelegateDone, DelegatePoll, DelegateAborted, Runs
    <3> QED BY <3>1, PlaceFacts DEF EndDelegate, Moves, TypeOK
  <2> QED BY <1>9, <2>1, <2>2 DEF DelegateProgress
<1>10. CASE StartTurn
  BY <1>10 DEF StartTurn, Resets
<1>11. CASE BeginRound \/ ToolCalls \/ NextPhase \/ UNCHANGED vars
  BY <1>11 DEF BeginRound, ToolCalls, NextPhase, MainStep, MainQuiet, Moves, vars
<1>12. CASE FinalResponse \/ Join \/ TurnAborted
  <2>1. /\ at[Main] \in {Run, Gather} /\ UNCHANGED <<registry, fut, asked>>
        /\ at' = [at EXCEPT ![Main] = Off] \/ at' = [at EXCEPT ![Main] = Run]
    BY <1>12 DEF FinalResponse, Join, TurnAborted, MainStep, MainQuiet, Runs
  <2> QED BY <2>1, PlaceFacts DEF Moves, TypeOK
<1>13. CASE PauseOrStop \/ ProviderError
  <2>1. Runs(Main) /\ asked' = asked
    BY <1>13 DEF PauseOrStop, ProviderError, MainStep
  <2>2. CASE Register(Main, Pause)
    BY <2>1, <2>2, PlaceFacts, CoroFacts DEF Asks
  <2>3. CASE at' = [at EXCEPT ![Main] = Off] /\ UNCHANGED <<registry, fut>>
    BY <2>1, <2>3, PlaceFacts DEF Moves, Runs, TypeOK
  <2> QED BY <1>13, <2>2, <2>3 DEF PauseOrStop, ProviderError
<1>14. ASSUME NEW D \in SUBSET Delegates, ExecuteTools(D)
       PROVE asked \subseteq asked' /\ Kinds
  <2>1. at[Main] = Run /\ UNCHANGED <<registry, fut, asked>>
    BY <1>14 DEF ExecuteTools, MainStep, MainQuiet, Runs
  <2>2. \A d \in Delegates : at[d] = Off
    BY <2>1, PlaceFacts DEF DelegatesGathered
  <2>3. \A c \in Coros : at[c] \notin Slots /\ at'[c] \notin Slots
    BY <1>14, <2>1, <2>2, PlaceFacts DEF ExecuteTools, Coros
  <2> QED BY <2>1, <2>3 DEF Moves
<1> QED
  BY <1>1, <1>2, <1>3, <1>4, <1>5, <1>6, <1>7, <1>8, <1>9, <1>10, <1>11, <1>12, <1>13, <1>14
  DEF Next, MainProgress, Ask

-----------------------------------------------------------------------------
(* The turn is structured: delegations run only inside Main's gather *)

\* No step lets a delegation outlive the gather of its batch.
LEMMA DelegatesGatheredStep ==
  ASSUME TypeOK, DelegatesGathered, [Next]_vars
  PROVE  DelegatesGathered'
<1> USE DEF historyVars, loopVars, protocolVars
<1> DEFINE Stays(c) ==
      /\ batch' = batch
      /\ \A e \in Coros : e # c => at'[e] = at[e]
      /\ at[c] # Off
      /\ c = Main => at[Main] # Gather
<1>0. ASSUME NEW c \in Coros, Stays(c) PROVE DelegatesGathered'
  <2>1. CASE c = Main
    BY <1>0, <2>1, CoroFacts, ConstantsAssumption DEF DelegatesGathered
  <2>2. CASE c \in Delegates
    <3>1. at[Main] = Gather /\ c \in batch /\ at'[Main] = Gather
      BY <1>0, <2>2, CoroFacts, ConstantsAssumption DEF DelegatesGathered
    <3> QED BY <1>0, <2>2, <3>1, CoroFacts DEF DelegatesGathered
  <2> QED BY <2>1, <2>2 DEF Coros
<1>1. ASSUME NEW c \in Coros, NEW s \in Slots, Runs(c), Register(c, s), batch' = batch
      PROVE DelegatesGathered'
  <2>1. Stays(c)
    BY <1>1, PlaceFacts DEF Runs, Register, TypeOK
  <2> QED BY <1>0, <2>1
<1>2. ASSUME NEW c \in Coros, NEW p \in {Off, Run}, Wake(c, p), batch' = batch
      PROVE DelegatesGathered'
  <2>1. Stays(c)
    BY <1>2, PlaceFacts DEF Wake, Waiting, TypeOK
  <2> QED BY <1>0, <2>1
<1>3. ASSUME UNCHANGED <<at, batch>> PROVE DelegatesGathered'
  BY <1>3 DEF DelegatesGathered
<1>4. ASSUME NEW c \in Coros, at[c] = Run, at' = [at EXCEPT ![c] = Off], batch' = batch
      PROVE DelegatesGathered'
  <2>1. Stays(c)
    BY <1>4, PlaceFacts DEF TypeOK
  <2> QED BY <1>0, <2>1
<1>5. ASSUME NEW c \in Coros, NEW k \in CallIds,
             WaitForClarify(c, k) \/ (\E f \in BOOLEAN : WaitForApproval(c, k, f))
      PROVE DelegatesGathered'
  BY <1>1, <1>3, <1>5, SlotFacts DEF WaitForClarify, WaitForApproval
<1>6. ASSUME NEW k \in CallIds, WaitForPlan(k) PROVE DelegatesGathered'
  BY <1>1, <1>6, SlotFacts, CoroFacts DEF WaitForPlan
<1>7. ASSUME NEW d \in Delegates, RequestPause(d) PROVE DelegatesGathered'
  BY <1>1, <1>7, PlaceFacts, CoroFacts DEF RequestPause
<1>8. CASE (\E s \in Slots : Answer(s)) \/ SubmitInterrupt \/ Timeout
  BY <1>3, <1>8 DEF Answer, SubmitDecision, SubmitApproval, SubmitInterrupt, Timeout
<1>9. CASE WakeMainApproval \/ WakeMainInteractive \/ WakeMainPause
  <2>1. batch' = batch /\ (Wake(Main, Run) \/ Wake(Main, Off))
    BY <1>9 DEF WakeMainApproval, WakeMainInteractive, WakeMainPause
  <2> QED BY <1>2, <2>1, CoroFacts
<1>10. ASSUME NEW d \in Delegates, DelegateProgress(d) PROVE DelegatesGathered'
  <2>1. CASE WakeDelegateApproval(d) \/ WakeDelegateClarify(d) \/ WakeDelegatePause(d)
    <3>1. batch' = batch /\ (Wake(d, Run) \/ Wake(d, Off))
      BY <2>1 DEF WakeDelegateApproval, WakeDelegateClarify, WakeDelegatePause
    <3> QED BY <1>2, <3>1, CoroFacts
  <2>2. CASE DelegateDone(d) \/ DelegatePoll(d) \/ DelegateAborted(d)
    <3>1. at[d] = Run /\ EndDelegate(d)
      BY <2>2 DEF DelegateDone, DelegatePoll, DelegateAborted, Runs
    <3> QED BY <1>4, <3>1, CoroFacts DEF EndDelegate
  <2> QED BY <1>10, <2>1, <2>2 DEF DelegateProgress
<1>11. CASE StartTurn
  <2>1. at[Main] = Off /\ at' = [at EXCEPT ![Main] = Run]
    BY <1>11 DEF StartTurn
  <2>2. \A d \in Delegates : at[d] = Off
    BY <2>1, PlaceFacts DEF DelegatesGathered
  <2> QED BY <2>1, <2>2, CoroFacts, ConstantsAssumption DEF DelegatesGathered, TypeOK
<1>12. CASE BeginRound \/ ToolCalls \/ NextPhase \/ UNCHANGED vars
  BY <1>3, <1>12 DEF BeginRound, ToolCalls, NextPhase, MainStep, MainQuiet, vars
<1>13. CASE FinalResponse \/ TurnAborted
  BY <1>4, <1>13, CoroFacts DEF FinalResponse, TurnAborted, MainStep, Runs
<1>14. CASE Join
  <2>1. at' = [at EXCEPT ![Main] = Run] /\ \A d \in batch : at[d] = Off
    BY <1>14 DEF Join
  <2>2. \A d \in Delegates : at[d] = Off
    BY <2>1 DEF DelegatesGathered
  <2> QED BY <2>1, <2>2, CoroFacts, ConstantsAssumption DEF DelegatesGathered, TypeOK
<1>15. CASE PauseOrStop \/ ProviderError
  <2>1. Runs(Main) /\ batch' = batch
    BY <1>15 DEF PauseOrStop, ProviderError, MainStep
  <2>2. Register(Main, Pause) \/ at' = [at EXCEPT ![Main] = Off]
    BY <1>15 DEF PauseOrStop, ProviderError
  <2> QED BY <1>1, <1>4, <2>1, <2>2, PlaceFacts, CoroFacts DEF Runs
<1>16. ASSUME NEW D \in SUBSET Delegates, ExecuteTools(D) PROVE DelegatesGathered'
  <2>1. at[Main] = Run /\ batch' = D
    BY <1>16 DEF ExecuteTools, MainStep, Runs
  <2>2. \A d \in Delegates : at[d] = Off
    BY <2>1, PlaceFacts DEF DelegatesGathered
  <2>3. \A d \in Delegates : at'[d] # Off => d \in D
    BY <1>16, <2>2, CoroFacts, ConstantsAssumption DEF ExecuteTools
  <2>4. D # {} => at'[Main] = Gather
    BY <1>16, CoroFacts, ConstantsAssumption DEF ExecuteTools
  <2> QED BY <2>1, <2>3, <2>4 DEF DelegatesGathered
<1> QED
  BY <1>5, <1>6, <1>7, <1>8, <1>9, <1>10, <1>11, <1>12, <1>13, <1>14, <1>15, <1>16
  DEF Next, MainProgress, Ask

\* Who is registered keeps waiting in the slot.
LEMMA RegisteredWaitsStep ==
  ASSUME TypeOK, DelegatesGathered, RegisteredWaits, [Next]_vars
  PROVE  RegisteredWaits'
<1>1. ASSUME NEW c \in Coros, NEW s \in Slots, Asks(c, s) PROVE RegisteredWaits'
  <2>1. at[c] \notin Slots
    BY <1>1, PlaceFacts DEF Asks, Runs
  <2>2. \A t \in Slots : registry[t] # c
    BY <2>1, CoroFacts DEF RegisteredWaits
  <2> QED BY <1>1, <2>2, CoroFacts DEF Asks, Register, RegisteredWaits, TypeOK
<1>2. ASSUME NEW c \in Coros, NEW p \in {Off, Run}, Wake(c, p) PROVE RegisteredWaits'
  <2>1. \A t \in Slots : t # at[c] => registry[t] # c
    BY CoroFacts DEF RegisteredWaits
  <2> QED BY <1>2, <2>1, CoroFacts DEF Wake, Waiting, RegisteredWaits, TypeOK
<1>3. CASE Resolves
  BY <1>3 DEF Resolves, RegisteredWaits
<1>4. CASE Moves
  BY <1>4 DEF Moves, RegisteredWaits, TypeOK
<1>5. CASE Resets
  BY <1>5 DEF Resets, Reset, RegisteredWaits
<1> QED BY <1>1, <1>2, <1>3, <1>4, <1>5, EveryStep

\* The turn and the slots stay structured: the invariant the other proofs build on.
LEMMA Structured == Spec => [](TypeOK /\ DelegatesGathered /\ RegisteredWaits)
<1>1. Init => DelegatesGathered /\ RegisteredWaits
  BY CoroFacts DEF Init, DelegatesGathered, RegisteredWaits
<1>2. TypeOK /\ DelegatesGathered /\ RegisteredWaits /\ [Next]_vars
      => (DelegatesGathered /\ RegisteredWaits)'
  BY DelegatesGatheredStep, RegisteredWaitsStep
<1> QED BY <1>1, <1>2, TypeCorrect, PTL DEF Spec

\* However a turn ends, it leaves neither a running delegation nor a registered
\* future to the next one.
THEOREM TurnEndsClean == Spec => []TurnLeavesNothingBehind
<1>1. TypeOK /\ DelegatesGathered /\ RegisteredWaits => TurnLeavesNothingBehind
  <2> SUFFICES ASSUME TypeOK, DelegatesGathered, RegisteredWaits, at[Main] = Off
               PROVE  /\ \A d \in Delegates : at[d] = Off
                      /\ \A s \in Slots : registry[s] = Nobody
    BY DEF TurnLeavesNothingBehind
  <2>1. \A d \in Delegates : at[d] = Off
    BY PlaceFacts DEF DelegatesGathered
  <2>2. \A c \in Coros : at[c] \notin Slots
    BY <2>1, PlaceFacts DEF Coros
  <2> QED BY <2>1, <2>2 DEF RegisteredWaits, TypeOK
<1> QED BY <1>1, Structured, PTL

-----------------------------------------------------------------------------
(* Everyone who waits can be answered *)

\* Only used call ids have a waiter.
LEMMA KeysAskedStep ==
  ASSUME TypeOK, DelegatesGathered, KeysAsked, [Next]_vars
  PROVE  KeysAsked'
<1>1. ASSUME NEW c \in Coros, NEW s \in Slots, Asks(c, s) PROVE KeysAsked'
  BY <1>1, EveryStep, PlaceFacts DEF Asks, Register, KeysAsked, TypeOK
<1>2. ASSUME NEW c \in Coros, NEW p \in {Off, Run}, Wake(c, p) PROVE KeysAsked'
  <2>1. p \notin Keyed
    BY PlaceFacts DEF Slots
  <2> QED BY <1>2, <2>1, EveryStep DEF Wake, KeysAsked, TypeOK
<1>3. CASE Resolves
  BY <1>3, EveryStep DEF Resolves, KeysAsked
<1>4. CASE Moves
  BY <1>4, EveryStep DEF Moves, KeysAsked, Slots
<1>5. CASE Resets
  <2>1. Run \notin Keyed
    BY PlaceFacts DEF Slots
  <2> QED BY <1>5, <2>1, EveryStep DEF Resets, KeysAsked, TypeOK
<1> QED BY <1>1, <1>2, <1>3, <1>4, <1>5, EveryStep

\* A coroutine that takes a slot finds nobody waiting in it: keys are fresh, Main
\* runs only without delegations, and at most one of those asks for a pause.
LEMMA FreshSlot ==
  ASSUME TypeOK, DelegatesGathered, KeysAsked, OnePauser,
         NEW c \in Coros, NEW s \in Slots, Asks(c, s), NEW e \in Coros
  PROVE  at[e] # s
<1>1. CASE s \in Keyed
  BY <1>1 DEF Asks, KeysAsked
<1>2. CASE s = Pause
  <2>1. at[c] = Run
    BY DEF Asks, Runs
  <2>2. CASE c = Main
    BY <1>2, <2>1, <2>2, PlaceFacts DEF DelegatesGathered, Coros
  <2>3. CASE c # Main
    <3>1. IterationLimit /\ c \in Delegates
      BY <1>2, <2>3 DEF Asks, Coros
    <3>2. at[Main] = Gather
      BY <2>1, <3>1, PlaceFacts DEF DelegatesGathered
    <3>3. e \in Delegates => e = c
      BY <3>1 DEF OnePauser
    <3> QED BY <1>2, <2>1, <3>2, <3>3, PlaceFacts DEF Coros
  <2> QED BY <2>2, <2>3
<1> QED BY <1>1, <1>2 DEF Slots

\* No step puts two coroutines into one slot.
LEMMA OneWaiterStep ==
  ASSUME TypeOK, DelegatesGathered, KeysAsked, OnePauser, OneWaiterPerSlot, [Next]_vars
  PROVE  OneWaiterPerSlot'
<1>1. ASSUME NEW c \in Coros, NEW s \in Slots, Asks(c, s) PROVE OneWaiterPerSlot'
  <2>1. \A e \in Coros : at[e] # s
    BY <1>1, FreshSlot
  <2> QED BY <1>1, <2>1 DEF Asks, Register, OneWaiterPerSlot, Waiting, TypeOK
<1>2. ASSUME NEW c \in Coros, NEW p \in {Off, Run}, Wake(c, p) PROVE OneWaiterPerSlot'
  BY <1>2, PlaceFacts DEF Wake, OneWaiterPerSlot, Waiting, TypeOK
<1>3. CASE Resolves
  BY <1>3 DEF Resolves, OneWaiterPerSlot, Waiting
<1>4. CASE Moves
  BY <1>4 DEF Moves, OneWaiterPerSlot, Waiting
<1>5. CASE Resets
  BY <1>5, PlaceFacts DEF Resets, Reset, CancelRegistered, OneWaiterPerSlot, Waiting, TypeOK
<1> QED BY <1>1, <1>2, <1>3, <1>4, <1>5, EveryStep

\* No step takes the slot of a waiting coroutine away from it.
LEMMA WaitersRegisteredStep ==
  ASSUME TypeOK, DelegatesGathered, KeysAsked, OnePauser, OneWaiterPerSlot,
         WaitersRegistered, [Next]_vars
  PROVE  WaitersRegistered'
<1>1. ASSUME NEW c \in Coros, NEW s \in Slots, Asks(c, s) PROVE WaitersRegistered'
  <2>1. \A e \in Coros : at[e] # s
    BY <1>1, FreshSlot
  <2> QED BY <1>1, <2>1 DEF Asks, Register, WaitersRegistered, TypeOK
<1>2. ASSUME NEW c \in Coros, NEW p \in {Off, Run}, Wake(c, p) PROVE WaitersRegistered'
  <2>1. ASSUME NEW e \in Coros, fut'[e] = "pending" PROVE registry'[at'[e]] = e
    <3>1. e # c /\ fut[e] = "pending" /\ at'[e] = at[e]
      BY <1>2, <2>1 DEF Wake, TypeOK
    <3>2. at[e] # at[c] /\ at[e] \in Slots
      BY <1>2, <3>1 DEF OneWaiterPerSlot, Waiting, Wake
    <3> QED BY <1>2, <3>1, <3>2 DEF Wake, WaitersRegistered, TypeOK
  <2> QED BY <2>1 DEF WaitersRegistered
<1>3. CASE Resolves
  BY <1>3 DEF Resolves, WaitersRegistered
<1>4. CASE Moves
  BY <1>4 DEF Moves, WaitersRegistered, OneWaiterPerSlot, Waiting
<1>5. CASE Resets
  <2>1. ASSUME NEW e \in Coros PROVE fut'[e] # "pending"
    <3>1. CASE fut[e] = "pending"
      <4>1. e \in Registered
        BY <3>1, CoroFacts DEF WaitersRegistered, OneWaiterPerSlot, Waiting, Registered
      <4> QED BY <1>5, <3>1, <4>1 DEF Resets, Reset, CancelRegistered
    <3>2. CASE fut[e] # "pending"
      BY <1>5, <3>2 DEF Resets, Reset, CancelRegistered
    <3> QED BY <3>1, <3>2
  <2> QED BY <2>1 DEF WaitersRegistered
<1> QED BY <1>1, <1>2, <1>3, <1>4, <1>5, EveryStep

\* If only one coroutine can ask for a pause, every waiting one can be answered.
THEOREM WaitersAnswerable == ASSUME OnePauser PROVE Spec => []WaitersRegistered
<1>1. Init => KeysAsked /\ OneWaiterPerSlot /\ WaitersRegistered
  <2>1. Off \notin Keyed
    BY PlaceFacts DEF Slots
  <2> QED BY <2>1, PlaceFacts DEF Init, KeysAsked, OneWaiterPerSlot, WaitersRegistered, Waiting
<1>2. TypeOK /\ DelegatesGathered /\ KeysAsked /\ OneWaiterPerSlot /\ WaitersRegistered
        /\ [Next]_vars
      => (KeysAsked /\ OneWaiterPerSlot /\ WaitersRegistered)'
  BY KeysAskedStep, OneWaiterStep, WaitersRegisteredStep
<1> QED BY <1>1, <1>2, Structured, PTL DEF Spec

-----------------------------------------------------------------------------
(* Approvals come from the user *)

\* Only SubmitApproval makes an approval's future yes, and it records the answer.
LEMMA YesIsTheUsersStep ==
  ASSUME TypeOK, DelegatesGathered, RegisteredWaits, YesIsTheUsers, [Next]_vars
  PROVE  YesIsTheUsers' /\ userYes \subseteq userYes'
<1> USE DEF historyVars, loopVars, protocolVars
<1> DEFINE Old == \A c \in Coros : fut'[c] = "yes" => fut[c] = "yes" /\ at'[c] = at[c]
<1>0. ASSUME Old, userYes \subseteq userYes' PROVE YesIsTheUsers'
  BY <1>0 DEF YesIsTheUsers
<1>1. ASSUME NEW c \in Coros, NEW s \in Slots, Runs(c), Register(c, s) PROVE Old
  BY <1>1 DEF Register, TypeOK
<1>2. ASSUME NEW c \in Coros, NEW p \in {Off, Run}, Wake(c, p) PROVE Old
  BY <1>2 DEF Wake, TypeOK
<1>3. CASE \E s \in Slots : Answer(s)
  <2> PICK s \in Slots : Answer(s)
    BY <1>3
  <2>1. ASSUME NEW v \in {"yes", "no"}, SubmitDecision(s, v)
        PROVE YesIsTheUsers' /\ userYes \subseteq userYes'
    <3>1. at[registry[s]] = s /\ s[1] # "approval"
      BY <2>1 DEF SubmitDecision, Deliver, RegisteredWaits
    <3>2. \A k \in CallIds : at[registry[s]] # <<"approval", k>>
      BY <3>1
    <3>3. at' = at /\ userYes' = userYes /\ fut' = [fut EXCEPT ![registry[s]] = v]
      BY <2>1 DEF SubmitDecision, Deliver
    <3> QED BY <3>2, <3>3 DEF YesIsTheUsers, TypeOK
  <2>2. ASSUME NEW v \in {"yes", "no"}, NEW all \in BOOLEAN,
               s[1] = "approval", SubmitApproval(s[2], v, all)
        PROVE YesIsTheUsers' /\ userYes \subseteq userYes'
    <3>1. s[2] \in CallIds
      BY <2>2 DEF Slots, Keyed, Pause
    <3> DEFINE r == registry[<<"approval", s[2]>>]
    <3>2. at[r] = <<"approval", s[2]>>
      BY <2>2, <3>1, SlotFacts DEF SubmitApproval, Deliver, RegisteredWaits
    <3>3. at' = at /\ fut' = [fut EXCEPT ![r] = v] /\ userYes \subseteq userYes'
      BY <2>2 DEF SubmitApproval, Deliver
    <3>4. v = "yes" => s[2] \in userYes'
      BY <2>2 DEF SubmitApproval
    <3>5. ASSUME NEW c \in Coros, NEW k \in CallIds, at'[c] = <<"approval", k>>, fut'[c] = "yes"
          PROVE k \in userYes'
      <4>1. CASE c = r
        BY <3>2, <3>3, <3>4, <3>5, <4>1 DEF TypeOK
      <4>2. CASE c # r
        BY <3>3, <3>5, <4>2 DEF YesIsTheUsers, TypeOK
      <4> QED BY <4>1, <4>2
    <3> QED BY <3>3, <3>5 DEF YesIsTheUsers
  <2> QED BY <2>1, <2>2 DEF Answer
<1>4. ASSUME UNCHANGED userYes, Old PROVE YesIsTheUsers' /\ userYes \subseteq userYes'
  BY <1>0, <1>4
<1>5. ASSUME NEW c \in Coros, NEW k \in CallIds,
             WaitForClarify(c, k) \/ (\E f \in BOOLEAN : WaitForApproval(c, k, f))
      PROVE YesIsTheUsers' /\ userYes \subseteq userYes'
  <2>1. userYes' = userYes
    BY <1>5 DEF WaitForClarify, WaitForApproval
  <2>2. UNCHANGED <<fut, at>> \/ (Runs(c) /\ \E s \in Slots : Register(c, s))
    BY <1>5, SlotFacts DEF WaitForClarify, WaitForApproval
  <2> QED BY <1>1, <1>4, <2>1, <2>2
<1>6. ASSUME NEW k \in CallIds, WaitForPlan(k)
      PROVE YesIsTheUsers' /\ userYes \subseteq userYes'
  BY <1>1, <1>4, <1>6, SlotFacts, CoroFacts DEF WaitForPlan
<1>7. ASSUME NEW d \in Delegates, RequestPause(d)
      PROVE YesIsTheUsers' /\ userYes \subseteq userYes'
  BY <1>1, <1>4, <1>7, PlaceFacts, CoroFacts DEF RequestPause
<1>8. CASE SubmitInterrupt \/ Timeout \/ StartTurn
  <2>1. userYes' = userYes
    BY <1>8 DEF SubmitInterrupt, Timeout, StartTurn
  <2>2. \A c \in Coros : fut'[c] = "yes" => fut[c] = "yes"
    BY <1>8 DEF SubmitInterrupt, Timeout, StartTurn, Reset, CancelTask, CancelRegistered, TypeOK
  <2>3. \A c \in Coros : at'[c] \in Slots => at'[c] = at[c]
    BY <1>8, PlaceFacts DEF SubmitInterrupt, Timeout, StartTurn, TypeOK
  <2> QED BY <2>1, <2>2, <2>3, SlotFacts DEF YesIsTheUsers
<1>9. CASE WakeMainApproval \/ WakeMainInteractive \/ WakeMainPause
  <2>1. userYes' = userYes /\ (Wake(Main, Run) \/ Wake(Main, Off))
    BY <1>9 DEF WakeMainApproval, WakeMainInteractive, WakeMainPause
  <2> QED BY <1>2, <1>4, <2>1, CoroFacts
<1>10. ASSUME NEW d \in Delegates, DelegateProgress(d)
       PROVE YesIsTheUsers' /\ userYes \subseteq userYes'
  <2>1. CASE WakeDelegateApproval(d) \/ WakeDelegateClarify(d) \/ WakeDelegatePause(d)
    <3>1. userYes' = userYes /\ (Wake(d, Run) \/ Wake(d, Off))
      BY <2>1 DEF WakeDelegateApproval, WakeDelegateClarify, WakeDelegatePause
    <3> QED BY <1>2, <1>4, <3>1, CoroFacts
  <2>2. CASE DelegateDone(d) \/ DelegatePoll(d) \/ DelegateAborted(d)
    <3>1. at' = [at EXCEPT ![d] = Off] /\ UNCHANGED <<fut, userYes>>
      BY <2>2 DEF DelegateDone, DelegatePoll, DelegateAborted, EndDelegate
    <3>2. \A c \in Coros : at'[c] \in Slots => at'[c] = at[c]
      BY <3>1, CoroFacts, PlaceFacts DEF TypeOK
    <3> QED BY <3>1, <3>2, SlotFacts DEF YesIsTheUsers
  <2> QED BY <1>10, <2>1, <2>2 DEF DelegateProgress
<1>11. CASE BeginRound \/ ToolCalls \/ NextPhase \/ UNCHANGED vars
  BY <1>4, <1>11 DEF BeginRound, ToolCalls, NextPhase, MainStep, MainQuiet, vars
<1>12. CASE FinalResponse \/ Join \/ TurnAborted
  <2>1. at' = [at EXCEPT ![Main] = Off] \/ at' = [at EXCEPT ![Main] = Run]
    BY <1>12 DEF FinalResponse, Join, TurnAborted
  <2>2. UNCHANGED <<fut, userYes>>
    BY <1>12 DEF FinalResponse, Join, TurnAborted, MainStep, MainQuiet
  <2>3. \A c \in Coros : at'[c] \in Slots => at'[c] = at[c]
    BY <2>1, CoroFacts, PlaceFacts DEF TypeOK
  <2> QED BY <2>2, <2>3, SlotFacts DEF YesIsTheUsers
<1>13. CASE PauseOrStop \/ ProviderError
  <2>1. Runs(Main) /\ userYes' = userYes
    BY <1>13 DEF PauseOrStop, ProviderError, MainStep
  <2>2. CASE Register(Main, Pause)
    BY <1>1, <1>4, <2>1, <2>2, PlaceFacts, CoroFacts
  <2>3. CASE at' = [at EXCEPT ![Main] = Off] /\ UNCHANGED fut
    <3>1. \A c \in Coros : at'[c] \in Slots => at'[c] = at[c]
      BY <2>3, CoroFacts, PlaceFacts DEF TypeOK
    <3> QED BY <2>1, <2>3, <3>1, SlotFacts DEF YesIsTheUsers
  <2> QED BY <1>13, <2>2, <2>3 DEF PauseOrStop, ProviderError
<1>14. ASSUME NEW D \in SUBSET Delegates, ExecuteTools(D)
       PROVE YesIsTheUsers' /\ userYes \subseteq userYes'
  <2>1. UNCHANGED <<fut, userYes>>
    BY <1>14 DEF ExecuteTools, MainStep, MainQuiet
  <2>2. \A c \in Coros : at'[c] \in Slots => at'[c] = at[c]
    BY <1>14, PlaceFacts DEF ExecuteTools, TypeOK
  <2> QED BY <2>1, <2>2, SlotFacts DEF YesIsTheUsers
<1> QED
  BY <1>3, <1>5, <1>6, <1>7, <1>8, <1>9, <1>10, <1>11, <1>12, <1>13, <1>14
  DEF Next, MainProgress, Ask

ApprovedInv ==
  approved \subseteq asked /\ forced \subseteq asked /\ ApprovalsAreTheUsers

\* What a step adds to the approved calls: an auto-approved call that was not
\* asked before, or one whose future the user resolved.
LEMMA ApprovedStep ==
  ASSUME TypeOK, RegisteredWaits, YesIsTheUsers, KeysAsked,
         ApprovedInv,
         userYes \subseteq userYes', asked \subseteq asked', [Next]_vars
  PROVE  ApprovedInv'
<1> USE DEF historyVars, loopVars, protocolVars
<1>0. ASSUME autoApprove \subseteq autoApprove', UNCHANGED <<forced, approved>>
      PROVE ApprovedInv'
  BY <1>0 DEF ApprovedInv, ApprovalsAreTheUsers
<1>1. ASSUME NEW k \in userYes \cap asked, approved' \subseteq approved \cup {k},
             UNCHANGED <<forced, autoApprove>>
      PROVE ApprovedInv'
  BY <1>1 DEF ApprovedInv, ApprovalsAreTheUsers
<1>2. ASSUME NEW c \in Coros, NEW k \in CallIds, NEW f \in BOOLEAN, WaitForApproval(c, k, f)
      PROVE ApprovedInv'
  <2>1. /\ k \notin asked /\ asked' = asked \cup {k} /\ UNCHANGED <<autoApprove, userYes>>
        /\ forced' = IF f THEN forced \cup {k} ELSE forced
    BY <1>2 DEF WaitForApproval
  <2>2. \A j \in approved : j \notin forced => j \notin forced'
    BY <2>1 DEF ApprovedInv
  <2>3. CASE AutoApproved(k, f)
    <3>1. approved' = approved \cup {k} /\ ~f /\ ToolOf[k] \in autoApprove
      BY <1>2, <2>3 DEF WaitForApproval, AutoApproved
    <3>2. k \notin forced'
      BY <2>1, <3>1 DEF ApprovedInv
    <3> QED BY <2>1, <2>2, <3>1, <3>2 DEF ApprovedInv, ApprovalsAreTheUsers
  <2>4. CASE ~AutoApproved(k, f)
    BY <1>2, <2>1, <2>2, <2>4 DEF WaitForApproval, ApprovedInv, ApprovalsAreTheUsers
  <2> QED BY <2>3, <2>4
<1>3. ASSUME NEW c \in Coros, at[c] \in {"approval"} \X CallIds, fut[c] = "yes",
             approved' = approved \cup {at[c][2]}, UNCHANGED <<forced, autoApprove>>
      PROVE ApprovedInv'
  <2>1. at[c] = <<"approval", at[c][2]>> /\ at[c][2] \in CallIds /\ at[c] \in Keyed
    BY <1>3 DEF Keyed
  <2>2. at[c][2] \in userYes \cap asked
    BY <1>3, <2>1 DEF YesIsTheUsers, KeysAsked
  <2> QED BY <1>1, <1>3, <2>2
<1>4. CASE WakeMainApproval
  BY <1>0, <1>3, <1>4, CoroFacts DEF WakeMainApproval
<1>5. ASSUME NEW d \in Delegates, DelegateProgress(d)
      PROVE ApprovedInv'
  <2>1. CASE WakeDelegateApproval(d)
    BY <1>0, <1>3, <2>1, CoroFacts DEF WakeDelegateApproval
  <2>2. CASE WakeDelegateClarify(d) \/ WakeDelegatePause(d)
    BY <1>0, <2>2 DEF WakeDelegateClarify, WakeDelegatePause
  <2>3. CASE DelegateDone(d) \/ DelegatePoll(d) \/ DelegateAborted(d)
    BY <1>0, <2>3 DEF DelegateDone, DelegatePoll, DelegateAborted, EndDelegate
  <2> QED BY <1>5, <2>1, <2>2, <2>3 DEF DelegateProgress
<1>6. CASE \/ \E c \in Coros, k \in CallIds : WaitForClarify(c, k)
           \/ \E k \in CallIds : WaitForPlan(k)
           \/ \E d \in Delegates : RequestPause(d)
  BY <1>0, <1>6 DEF WaitForClarify, WaitForPlan, RequestPause
<1>7. CASE (\E s \in Slots : Answer(s)) \/ SubmitInterrupt \/ Timeout \/ StartTurn
  <2>1. autoApprove \subseteq autoApprove' /\ UNCHANGED <<forced, approved>>
    BY <1>7 DEF Answer, SubmitDecision, SubmitApproval, SubmitInterrupt, Timeout, StartTurn
  <2> QED BY <1>0, <2>1
<1>8. CASE WakeMainInteractive \/ WakeMainPause
  BY <1>0, <1>8 DEF WakeMainInteractive, WakeMainPause
<1>9. CASE \/ BeginRound \/ ToolCalls \/ NextPhase \/ FinalResponse \/ Join \/ TurnAborted
           \/ PauseOrStop \/ ProviderError \/ (\E D \in SUBSET Delegates : ExecuteTools(D))
           \/ UNCHANGED vars
  <2>1. UNCHANGED <<autoApprove, forced, approved>>
    BY <1>9 DEF BeginRound, ToolCalls, NextPhase, FinalResponse, Join, TurnAborted,
                PauseOrStop, ProviderError, ExecuteTools, MainStep, MainQuiet, vars
  <2> QED BY <1>0, <2>1
<1> QED
  BY <1>2, <1>4, <1>5, <1>6, <1>7, <1>8, <1>9 DEF Next, MainProgress, Ask

\* No call is approved that the user did not approve, himself or by "yes to all"
\* for its tool; the safety floor's prompts are never skipped.
THEOREM NoForgedApproval == Spec => []ApprovalsAreTheUsers
<1> DEFINE Inv == KeysAsked /\ YesIsTheUsers /\ ApprovedInv
<1>1. Init => Inv
  <2>1. Off \notin Keyed
    BY PlaceFacts DEF Slots
  <2> QED BY <2>1, PlaceFacts, SlotFacts
          DEF Init, KeysAsked, YesIsTheUsers, ApprovedInv, ApprovalsAreTheUsers
<1>2. TypeOK /\ DelegatesGathered /\ RegisteredWaits /\ Inv /\ [Next]_vars => Inv'
  BY KeysAskedStep, YesIsTheUsersStep, ApprovedStep, EveryStep
<1>3. Inv => ApprovalsAreTheUsers
  BY DEF ApprovedInv
<1> QED BY <1>1, <1>2, <1>3, Structured, PTL DEF Spec

-----------------------------------------------------------------------------
(* Stop *)

\* Without an iteration limit no subagent prompts for a pause, and only Continue
\* and a new turn clear the flag that Stop sets.
StopStands ==
  /\ stop => interrupted
  /\ \A d \in Delegates : at[d] # Pause

\* Without an iteration limit, no LLM call follows Stop.
THEOREM StopPreventsLLMCalls == ASSUME ~IterationLimit PROVE Spec => NoLLMCallAfterStop
<1> USE DEF historyVars, loopVars, protocolVars
<1>1. Init => StopStands
  BY PlaceFacts, CoroFacts DEF Init, StopStands
<1>2. ASSUME TypeOK, DelegatesGathered, RegisteredWaits, StopStands, [Next]_vars
      PROVE StopStands'
  <2>1. ASSUME NEW d \in Delegates PROVE at'[d] # Pause
    <3>1. ASSUME NEW c \in Coros, NEW s \in Slots, Asks(c, s) PROVE at'[d] # Pause
      BY <1>2, <3>1, CoroFacts, ConstantsAssumption DEF Asks, Register, StopStands, TypeOK
    <3>2. ASSUME NEW c \in Coros, NEW p \in {Off, Run}, Wake(c, p) PROVE at'[d] # Pause
      BY <1>2, <3>2, CoroFacts, PlaceFacts DEF Wake, StopStands, TypeOK
    <3>3. CASE Resolves \/ Moves \/ Resets
      BY <1>2, <3>3, CoroFacts, PlaceFacts, ConstantsAssumption
      DEF Resolves, Moves, Resets, StopStands, TypeOK
    <3> QED BY <1>2, <3>1, <3>2, <3>3, EveryStep
  <2>2. (stop => interrupted)'
    <3>0. ASSUME UNCHANGED <<stop, interrupted>> PROVE (stop => interrupted)'
      BY <1>2, <3>0 DEF StopStands
    <3>1. CASE SubmitInterrupt \/ StartTurn
      BY <3>1 DEF SubmitInterrupt, StartTurn
    <3>2. CASE WakeMainPause
      BY <3>0, <3>2 DEF WakeMainPause
    <3>3. ASSUME NEW d \in Delegates, DelegateProgress(d) PROVE UNCHANGED <<stop, interrupted>>
      BY <1>2, <3>3
      DEF StopStands, DelegateProgress, WakeDelegateApproval, WakeDelegateClarify,
          WakeDelegatePause, DelegateDone, DelegatePoll, DelegateAborted, EndDelegate
    <3>4. CASE \/ \E c \in Coros : Ask(c)
               \/ \E k \in CallIds : WaitForPlan(k)
               \/ \E d \in Delegates : RequestPause(d)
               \/ \E s \in Slots : Answer(s)
               \/ Timeout \/ WakeMainApproval \/ WakeMainInteractive
      BY <3>0, <3>4 DEF Ask, WaitForApproval, WaitForClarify, WaitForPlan, RequestPause,
                        Answer, SubmitDecision, SubmitApproval, Timeout,
                        WakeMainApproval, WakeMainInteractive
    <3>5. CASE \/ BeginRound \/ ToolCalls \/ NextPhase \/ FinalResponse \/ Join \/ TurnAborted
               \/ PauseOrStop \/ ProviderError \/ (\E D \in SUBSET Delegates : ExecuteTools(D))
               \/ UNCHANGED vars
      BY <3>0, <3>5 DEF BeginRound, ToolCalls, NextPhase, FinalResponse, Join, TurnAborted,
                        PauseOrStop, ProviderError, ExecuteTools, MainStep, MainQuiet, vars
    <3> QED BY <1>2, <3>0, <3>1, <3>2, <3>3, <3>4, <3>5 DEF Next, MainProgress
  <2> QED BY <2>1, <2>2 DEF StopStands
<1>3. ASSUME TypeOK, StopStands, [Next]_vars PROVE [rounds' > rounds => ~stop]_vars
  <2>1. CASE BeginRound
    BY <1>3, <2>1 DEF BeginRound, StopStands
  <2>2. CASE StartTurn
    BY <1>3, <2>2 DEF StartTurn, TypeOK
  <2>3. CASE rounds' = rounds
    BY <1>3, <2>3 DEF TypeOK
  <2>4. CASE ~BeginRound /\ ~StartTurn
    <3>1. rounds' = rounds
      BY <1>3, <2>4
      DEF Next, MainProgress, Ask, WaitForApproval, WaitForClarify, WaitForPlan, RequestPause,
          Answer, SubmitDecision, SubmitApproval, SubmitInterrupt, Timeout,
          WakeMainApproval, WakeMainInteractive, WakeMainPause, DelegateProgress,
          WakeDelegateApproval, WakeDelegateClarify, WakeDelegatePause, DelegateDone,
          DelegatePoll, DelegateAborted, EndDelegate, ToolCalls, NextPhase, FinalResponse,
          Join, TurnAborted, PauseOrStop, ProviderError, ExecuteTools, vars
    <3> QED BY <2>3, <3>1
  <2> QED BY <2>1, <2>2, <2>4
<1> QED BY <1>1, <1>2, <1>3, Structured, PTL DEF Spec, NoLLMCallAfterStop

=============================================================================
