--------------------------- MODULE PlanMode_proofs ---------------------------
(***************************************************************************)
(* What holds of plan mode for any number of sessions, calls per response  *)
(* and versions of a plan.  The types carry each other with the facts of   *)
(* Shape; the three safety properties each need to know a little more of   *)
(* the turn than they say, and each its own: BoundInv, StoreInv, AutoInv.  *)
(***************************************************************************)
EXTENDS PlanMode, TLAPS

-----------------------------------------------------------------------------
(* Types *)

\* The flags, apart from the other variables: they need another prover.
Flags == /\ active \in BOOLEAN /\ awaiting \in BOOLEAN /\ entered \in BOOLEAN
         /\ bound \in BOOLEAN /\ wrote \in BOOLEAN /\ disturbed \in BOOLEAN

StoreType == store \in [Sessions -> StoreStates]

FileType == file \in [Sessions -> 0..MaxVersion]

CallsType == /\ calls \in Seq(Calls)
             /\ interactive \in Nat
             /\ executable \in [Tools -> Nat]
             /\ strays \in SUBSET Calls

PlanType == /\ session \in Sessions /\ mode \in Modes
            /\ path \in Sessions \cup {NoPath}
            /\ hash \in Plans \cup {NoPlan}
            /\ prompt \in Plans \cup {NoPlan}
            /\ accepted \in Plans \cup {NoPlan}
            /\ autoChosen \in SUBSET Sessions

\* Where the turn is says what is there: a plan to ask about, a call to ask
\* about, and a new plan mode to store.
Shape ==
  /\ phase \in Phases
  /\ phase \in {"submit", "plan"} => prompt \in Plans
  /\ phase = "ask" => calls # <<>>
  /\ entered => phase = "run"

TInv == StoreType /\ FileType /\ CallsType /\ PlanType /\ Shape

\* Every step sets flags to truth values.
LEMMA FlagsNext == Flags /\ [Next]_vars => Flags'
<1> SUFFICES ASSUME Flags, [Next]_vars PROVE Flags'
  OBVIOUS
<1>1. ASSUME NEW m \in Modes, SetMode(m) PROVE Flags'
  BY <1>1, Zenon DEF SetMode, Enter, Reset, SetStoreMode, Chosen, planVars, loopVars, historyVars, Flags
<1>2. ASSUME NEW s \in Sessions, NewSession(s) PROVE Flags'
  BY <1>2, Zenon DEF NewSession, Reset, planVars, loopVars, historyVars, Flags
<1>3. ASSUME NEW s \in Sessions, ResumeSession(s) PROVE Flags'
  BY <1>3, Zenon DEF ResumeSession, planVars, loopVars, historyVars, Flags
<1>4. ASSUME NEW s \in Sessions, Restart(s) PROVE Flags'
  BY <1>4, Zenon DEF Restart, Reset, Quiet, planVars, loopVars, historyVars, Flags
<1>5. CASE BeginTurn
  <2>1. active' \in BOOLEAN
    BY <1>5, Zenon DEF BeginTurn, Sync
  <2>2. awaiting' \in BOOLEAN
    BY <1>5, Zenon DEF BeginTurn, Sync
  <2>a. (store[session].mode \in {"plan", "awaiting_approval"}) \in BOOLEAN
    OBVIOUS
  <2>3. bound' \in BOOLEAN /\ disturbed' \in BOOLEAN
    BY <1>5, <2>a, Zenon DEF BeginTurn
  <2> QED
    BY <1>5, <2>1, <2>2, <2>3, Zenon DEF BeginTurn, Flags
<1>6. CASE EndTurn
  BY <1>6, Zenon DEF EndTurn, Quiet, planVars, loopVars, historyVars, Flags
<1>7. CASE Stop
  BY <1>7, Zenon DEF Stop, Quiet, planVars, loopVars, historyVars, Flags
<1>8. ASSUME NEW n \in 1..MaxCalls, NEW cs \in [1..n -> Calls], Respond(cs) PROVE Flags'
  BY <1>8, Zenon DEF Respond, planVars, loopVars, historyVars, Flags
<1>9. CASE Refuse
  BY <1>9, Zenon DEF Refuse, Resolved, gateFrame, planVars, loopVars, historyVars, Flags
<1>10. CASE Pass
  BY <1>10, Zenon DEF Pass, LetThrough, gateFrame, planVars, loopVars, historyVars, Flags
<1>11. CASE Ask
  BY <1>11, Zenon DEF Ask, gateFrame, planVars, loopVars, historyVars, Flags
<1>12. CASE Approved
  BY <1>12, Zenon DEF Approved, LetThrough, gateFrame, planVars, loopVars, historyVars, Flags
<1>13. CASE RejectedWithFeedback
  BY <1>13, Zenon DEF RejectedWithFeedback, Resolved, gateFrame, planVars, loopVars, historyVars, Flags
<1>14. CASE Rejected
  BY <1>14, Zenon DEF Rejected, Quiet, planVars, loopVars, historyVars, Flags
<1>15. CASE EndGate
  BY <1>15, Zenon DEF EndGate, gateFrame, planVars, loopVars, historyVars, Flags
<1>16. CASE RequestFails
  BY <1>16, Zenon DEF RequestFails, planVars, loopVars, historyVars, Flags
<1>17. CASE Request
  BY <1>17, Zenon DEF Request, ExitForApproval, planVars, loopVars, historyVars, Flags
<1>18. ASSUME NEW c \in Tools, Run(c) PROVE Flags'
  BY <1>18, Zenon DEF Run, Edit, EditPlan, EnterPlanMode, Enter, PlanTarget, planVars, loopVars, historyVars, Flags
<1>19. CASE Submitted
  BY <1>19, Zenon DEF Submitted, planVars, loopVars, historyVars, Flags
<1>20. CASE ApprovePlan
  BY <1>20, Zenon DEF ApprovePlan, Approve, SetStoreMode, Chosen, planVars, loopVars, historyVars, Flags
<1>21. CASE RejectPlan
  BY <1>21, Zenon DEF RejectPlan, Reject, SetStoreMode, planVars, loopVars, historyVars, Flags
<1>22. CASE DismissPlan
  BY <1>22, Zenon DEF DismissPlan, Reject, SetStoreMode, Quiet, planVars, loopVars, historyVars, Flags
<1>23. CASE EndInteract
  BY <1>23, Zenon DEF EndInteract, planVars, loopVars, historyVars, Flags
<1>24. CASE EndRun
  BY <1>24, Zenon DEF EndRun, SetStoreMode, planVars, loopVars, historyVars, Flags
<1>25. ASSUME NEW c \in strays, Stray(c) PROVE Flags'
  BY <1>25, Zenon DEF Stray, Enter, EditPlan, PlanTarget, planVars, loopVars, historyVars, Flags
<1>26. CASE UNCHANGED vars
  BY <1>26 DEF vars, planVars, loopVars, historyVars, Flags
<1> QED
  BY <1>1, <1>2, <1>3, <1>4, <1>5, <1>6, <1>7, <1>8, <1>9, <1>10, <1>11, <1>12, <1>13, <1>14, <1>15, <1>16, <1>17, <1>18, <1>19, <1>20, <1>21, <1>22, <1>23, <1>24, <1>25, <1>26 DEF Next

\* The constants' sets, as the steps use them.
LEMMA Elements ==
  /\ NewStore \in StoreStates
  /\ NoCall \in [Tools -> Nat]
  /\ "edit" \in Tools /\ "edit_plan" \in Tools /\ "enter_plan_mode" \in Tools
  /\ \A c \in Calls : c # "request_plan_approval" => c \in Tools
  /\ Tools \subseteq Calls
<1>1. NewStore \in StoreStates
  BY DEF NewStore, StoreStates, StoreModes, Modes
<1>2. NoCall \in [Tools -> Nat]
  BY DEF NoCall
<1> QED
  BY <1>1, <1>2 DEF Tools, Calls

\* Storing a mode leaves a store a store, and says nothing else of it.
LEMMA StoreMode ==
  ASSUME StoreType, session \in Sessions, NEW m \in StoreModes, SetStoreMode(m)
  PROVE  /\ StoreType'
         /\ store'[session].mode = m
         /\ \A s \in Sessions : s # session => store'[s] = store[s]
<1>1. [store[session] EXCEPT !.mode = m] \in StoreStates
  BY DEF StoreType, StoreStates
<1>2. store' = [store EXCEPT ![session] = [store[session] EXCEPT !.mode = m]]
  BY DEF SetStoreMode
<1>3. [store[session] EXCEPT !.mode = m].mode = m
  BY DEF StoreType, StoreStates
<1> QED
  BY <1>1, <1>2, <1>3 DEF StoreType

\* The modes a store may be given.
LEMMA Storable == /\ Modes \subseteq StoreModes /\ "awaiting_approval" \in StoreModes
                  /\ "normal" \in Modes /\ "plan" \in Modes
BY DEF Modes, StoreModes

\* Every step leaves a store per session.
LEMMA StoreTypeNext == TInv /\ [Next]_vars => StoreType'
<1> SUFFICES ASSUME TInv, [Next]_vars PROVE StoreType'
  OBVIOUS
<1> USE Storable DEF TInv
<1>1. ASSUME NEW m \in Modes, SetMode(m) PROVE StoreType'
  <2>1. CASE m # mode
    BY <1>1, <2>1, StoreMode DEF SetMode, PlanType
  <2>2. CASE m = mode
    BY <1>1, <2>2 DEF SetMode, StoreType
  <2> QED
    BY <2>1, <2>2
<1>2. ASSUME NEW s \in Sessions, NewSession(s) PROVE StoreType'
  BY <1>2 DEF NewSession, StoreType
<1>3. ASSUME NEW s \in Sessions, ResumeSession(s) PROVE StoreType'
  BY <1>3 DEF ResumeSession, StoreType
<1>4. ASSUME NEW s \in Sessions, Restart(s) PROVE StoreType'
  BY <1>4 DEF Restart, StoreType
<1>5. CASE BeginTurn
  BY <1>5 DEF BeginTurn, StoreType
<1>6. CASE EndTurn
  BY <1>6 DEF EndTurn, StoreType
<1>7. CASE Stop
  BY <1>7 DEF Stop, StoreType
<1>8. ASSUME NEW n \in 1..MaxCalls, NEW cs \in [1..n -> Calls], Respond(cs) PROVE StoreType'
  BY <1>8 DEF Respond, StoreType
<1>9. CASE Refuse
  BY <1>9 DEF Refuse, gateFrame, StoreType
<1>10. CASE Pass
  BY <1>10 DEF Pass, gateFrame, StoreType
<1>11. CASE Ask
  BY <1>11 DEF Ask, gateFrame, StoreType
<1>12. CASE Approved
  BY <1>12 DEF Approved, gateFrame, StoreType
<1>13. CASE RejectedWithFeedback
  BY <1>13 DEF RejectedWithFeedback, gateFrame, StoreType
<1>14. CASE Rejected
  BY <1>14 DEF Rejected, StoreType
<1>15. CASE EndGate
  BY <1>15 DEF EndGate, gateFrame, StoreType
<1>16. CASE RequestFails
  BY <1>16 DEF RequestFails, StoreType
<1>17. CASE Request
  BY <1>17 DEF Request, StoreType
<1>18. ASSUME NEW c \in Tools, Run(c) PROVE StoreType'
  BY <1>18 DEF Run, StoreType
<1>19. CASE Submitted
  <2>1. prompt \in Plans /\ prompt[1] \in Sessions
    BY <1>19 DEF Submitted, Shape, Plans
  <2>2. [mode |-> "awaiting_approval", hash |-> prompt, path |-> prompt[1]] \in StoreStates
    BY <2>1 DEF StoreStates
  <2> QED
    BY <1>19, <2>2 DEF Submitted, StoreType, PlanType
<1>20. CASE ApprovePlan
  BY <1>20, StoreMode DEF ApprovePlan, PlanType
<1>21. CASE RejectPlan
  BY <1>21, StoreMode DEF RejectPlan, PlanType
<1>22. CASE DismissPlan
  BY <1>22, StoreMode DEF DismissPlan, PlanType
<1>23. CASE EndInteract
  BY <1>23 DEF EndInteract, StoreType
<1>24. CASE EndRun
  <2>1. CASE entered
    BY <1>24, <2>1, StoreMode DEF EndRun, PlanType
  <2>2. CASE ~entered
    BY <1>24, <2>2 DEF EndRun, StoreType
  <2> QED
    BY <2>1, <2>2
<1>25. ASSUME NEW c \in strays, Stray(c) PROVE StoreType'
  BY <1>25 DEF Stray, StoreType
<1>26. CASE UNCHANGED vars
  BY <1>26 DEF vars, planVars, loopVars, historyVars, StoreType
<1> QED
  BY <1>1, <1>2, <1>3, <1>4, <1>5, <1>6, <1>7, <1>8, <1>9, <1>10, <1>11, <1>12, <1>13, <1>14, <1>15, <1>16, <1>17, <1>18, <1>19, <1>20, <1>21, <1>22, <1>23, <1>24, <1>25, <1>26 DEF Next

\* Every step leaves the plan files within their versions.
LEMMA FileTypeNext == TInv /\ [Next]_vars => FileType'
<1> SUFFICES ASSUME TInv, [Next]_vars PROVE FileType'
  OBVIOUS
<1>a. Enter => FileType'
  <2>1. file[session] \in 0..MaxVersion /\ 1 \in 0..MaxVersion
    BY ConstantsAssumption DEF TInv, FileType, PlanType
  <2> QED
    BY <2>1 DEF TInv, FileType, Enter
<1>b. PlanTarget \in Sessions
  BY DEF TInv, PlanType, PlanTarget
<1>c. EditPlan => FileType'
  BY <1>b, ConstantsAssumption DEF TInv, FileType, EditPlan
<1>d. UNCHANGED file => FileType'
  BY DEF TInv, FileType
<1> USE <1>a, <1>c, <1>d
<1>1. ASSUME NEW m \in Modes, SetMode(m) PROVE FileType'
  BY <1>1 DEF SetMode
<1>2. ASSUME NEW s \in Sessions, NewSession(s) PROVE FileType'
  BY <1>2 DEF NewSession
<1>3. ASSUME NEW s \in Sessions, ResumeSession(s) PROVE FileType'
  BY <1>3 DEF ResumeSession
<1>4. ASSUME NEW s \in Sessions, Restart(s) PROVE FileType'
  BY <1>4 DEF Restart
<1>5. CASE BeginTurn
  BY <1>5 DEF BeginTurn
<1>6. CASE EndTurn
  BY <1>6 DEF EndTurn
<1>7. CASE Stop
  BY <1>7 DEF Stop
<1>8. ASSUME NEW n \in 1..MaxCalls, NEW cs \in [1..n -> Calls], Respond(cs) PROVE FileType'
  BY <1>8 DEF Respond
<1>9. CASE Refuse
  BY <1>9 DEF Refuse, gateFrame
<1>10. CASE Pass
  BY <1>10 DEF Pass, gateFrame
<1>11. CASE Ask
  BY <1>11 DEF Ask, gateFrame
<1>12. CASE Approved
  BY <1>12 DEF Approved, gateFrame
<1>13. CASE RejectedWithFeedback
  BY <1>13 DEF RejectedWithFeedback, gateFrame
<1>14. CASE Rejected
  BY <1>14 DEF Rejected
<1>15. CASE EndGate
  BY <1>15 DEF EndGate, gateFrame
<1>16. CASE RequestFails
  BY <1>16 DEF RequestFails
<1>17. CASE Request
  BY <1>17 DEF Request
<1>18. ASSUME NEW c \in Tools, Run(c) PROVE FileType'
  BY <1>18 DEF Run, Edit, EnterPlanMode
<1>19. CASE Submitted
  BY <1>19 DEF Submitted
<1>20. CASE ApprovePlan
  BY <1>20 DEF ApprovePlan
<1>21. CASE RejectPlan
  BY <1>21 DEF RejectPlan
<1>22. CASE DismissPlan
  BY <1>22 DEF DismissPlan
<1>23. CASE EndInteract
  BY <1>23 DEF EndInteract
<1>24. CASE EndRun
  BY <1>24 DEF EndRun
<1>25. ASSUME NEW c \in strays, Stray(c) PROVE FileType'
  BY <1>25 DEF Stray
<1>26. CASE UNCHANGED vars
  BY <1>26 DEF vars, planVars, loopVars, historyVars
<1> QED
  BY <1>1, <1>2, <1>3, <1>4, <1>5, <1>6, <1>7, <1>8, <1>9, <1>10, <1>11, <1>12, <1>13, <1>14, <1>15, <1>16, <1>17, <1>18, <1>19, <1>20, <1>21, <1>22, <1>23, <1>24, <1>25, <1>26 DEF Next

\* Every step leaves calls where calls are expected.
LEMMA CallsTypeNext == TInv /\ [Next]_vars => CallsType'
<1> SUFFICES ASSUME TInv, [Next]_vars PROVE CallsType'
  OBVIOUS
<1>a. ASSUME calls # <<>>, LetThrough
      PROVE  /\ calls' \in Seq(Calls) /\ interactive' \in Nat
             /\ executable' \in [Tools -> Nat]
  <2>1. Head(calls) \in Calls /\ calls' = Tail(calls) /\ Tail(calls) \in Seq(Calls)
    BY <1>a DEF TInv, CallsType, LetThrough
  <2>2. CASE Head(calls) = "request_plan_approval"
    BY <1>a, <2>1, <2>2 DEF TInv, CallsType, LetThrough
  <2>3. CASE Head(calls) # "request_plan_approval"
    BY SMTT(30), <1>a, <2>1, <2>3, Elements DEF TInv, CallsType, LetThrough
  <2> QED
    BY <2>2, <2>3
<1>b. Quiet => calls' \in Seq(Calls) /\ interactive' \in Nat /\ executable' \in [Tools -> Nat]
  BY Elements DEF Quiet
<1>c. calls # <<>> => Tail(calls) \in Seq(Calls)
  BY DEF TInv, CallsType
<1> USE Elements DEF TInv, CallsType
<1>1. ASSUME NEW m \in Modes, SetMode(m) PROVE CallsType'
  BY <1>1 DEF SetMode, loopVars
<1>2. ASSUME NEW s \in Sessions, NewSession(s) PROVE CallsType'
  BY <1>2 DEF NewSession, loopVars
<1>3. ASSUME NEW s \in Sessions, ResumeSession(s) PROVE CallsType'
  BY <1>3 DEF ResumeSession, loopVars
<1>4. ASSUME NEW s \in Sessions, Restart(s) PROVE CallsType'
  BY <1>4, <1>b DEF Restart
<1>5. CASE BeginTurn
  BY <1>5 DEF BeginTurn, loopVars
<1>6. CASE EndTurn
  BY <1>6, <1>b DEF EndTurn
<1>7. CASE Stop
  BY <1>7, <1>b DEF Stop
<1>8. ASSUME NEW n \in 1..MaxCalls, NEW cs \in [1..n -> Calls], Respond(cs) PROVE CallsType'
  BY <1>8 DEF Respond, loopVars
<1>9. CASE Refuse
  BY <1>9, <1>c DEF Refuse, Resolved, gateFrame, Shape
<1>10. CASE Pass
  BY <1>10, <1>a DEF Pass, gateFrame, Shape
<1>11. CASE Ask
  BY <1>11 DEF Ask, gateFrame, loopVars
<1>12. CASE Approved
  BY <1>12, <1>a DEF Approved, gateFrame, Shape
<1>13. CASE RejectedWithFeedback
  BY <1>13, <1>c DEF RejectedWithFeedback, Resolved, gateFrame, Shape
<1>14. CASE Rejected
  BY <1>14, <1>b DEF Rejected
<1>15. CASE EndGate
  BY <1>15 DEF EndGate, gateFrame, loopVars
<1>16. CASE RequestFails
  BY <1>16 DEF RequestFails, loopVars
<1>17. CASE Request
  BY <1>17 DEF Request, loopVars
<1>18. ASSUME NEW c \in Tools, Run(c) PROVE CallsType'
  BY <1>18 DEF Run, loopVars
<1>19. CASE Submitted
  BY <1>19 DEF Submitted, loopVars
<1>20. CASE ApprovePlan
  BY <1>20 DEF ApprovePlan, loopVars
<1>21. CASE RejectPlan
  BY <1>21 DEF RejectPlan, loopVars
<1>22. CASE DismissPlan
  BY <1>22, <1>b DEF DismissPlan
<1>23. CASE EndInteract
  BY <1>23 DEF EndInteract, loopVars
<1>24. CASE EndRun
  BY <1>24 DEF EndRun, loopVars
<1>25. ASSUME NEW c \in strays, Stray(c) PROVE CallsType'
  BY <1>25 DEF Stray, loopVars
<1>26. CASE UNCHANGED vars
  BY <1>26 DEF vars, planVars, loopVars, historyVars
<1> QED
  BY <1>1, <1>2, <1>3, <1>4, <1>5, <1>6, <1>7, <1>8, <1>9, <1>10, <1>11, <1>12, <1>13, <1>14, <1>15, <1>16, <1>17, <1>18, <1>19, <1>20, <1>21, <1>22, <1>23, <1>24, <1>25, <1>26 DEF Next

\* What a plan state that knows its file may submit is a plan.
LEMMA Submittable ==
  ASSUME TInv, path # NoPath, file[path] # 0
  PROVE  <<path, file[path]>> \in Plans
BY ConstantsAssumption DEF TInv, FileType, PlanType, Plans

\* Every step leaves plans, paths and modes where they are expected.
LEMMA PlanTypeNext == TInv /\ [Next]_vars => PlanType'
<1> SUFFICES ASSUME TInv, [Next]_vars PROVE PlanType'
  OBVIOUS
<1> USE Storable DEF TInv, PlanType
<1>1. ASSUME NEW m \in Modes, SetMode(m) PROVE PlanType'
  BY <1>1 DEF SetMode, Enter, Reset, SetStoreMode, Chosen, planVars, loopVars, historyVars
<1>2. ASSUME NEW s \in Sessions, NewSession(s) PROVE PlanType'
  BY <1>2 DEF NewSession, Reset, planVars, loopVars, historyVars
<1>3. ASSUME NEW s \in Sessions, ResumeSession(s) PROVE PlanType'
  BY <1>3 DEF ResumeSession, planVars, loopVars, historyVars
<1>4. ASSUME NEW s \in Sessions, Restart(s) PROVE PlanType'
  BY <1>4, ConstantsAssumption DEF Restart, Reset, Quiet
<1>5. CASE BeginTurn
  <2>1. store[session] \in StoreStates
    BY DEF StoreType
  <2>2. /\ store[session].mode \in Modes \cup {"awaiting_approval"}
        /\ store[session].hash \in Plans \cup {NoPlan}
        /\ store[session].path \in Sessions \cup {NoPath}
    BY <2>1 DEF StoreStates, StoreModes
  <2> QED
    BY <1>5, <2>2 DEF BeginTurn, Sync
<1>6. CASE EndTurn
  BY <1>6 DEF EndTurn, Quiet, planVars, loopVars, historyVars
<1>7. CASE Stop
  BY <1>7 DEF Stop, Quiet, planVars, loopVars, historyVars
<1>8. ASSUME NEW n \in 1..MaxCalls, NEW cs \in [1..n -> Calls], Respond(cs) PROVE PlanType'
  BY <1>8 DEF Respond, planVars, loopVars, historyVars
<1>9. CASE Refuse
  BY <1>9 DEF Refuse, Resolved, gateFrame, planVars, loopVars, historyVars
<1>10. CASE Pass
  BY <1>10 DEF Pass, LetThrough, gateFrame, planVars, loopVars, historyVars
<1>11. CASE Ask
  BY <1>11 DEF Ask, gateFrame, planVars, loopVars, historyVars
<1>12. CASE Approved
  BY <1>12 DEF Approved, LetThrough, gateFrame, planVars, loopVars, historyVars
<1>13. CASE RejectedWithFeedback
  BY <1>13 DEF RejectedWithFeedback, Resolved, gateFrame, planVars, loopVars, historyVars
<1>14. CASE Rejected
  BY <1>14 DEF Rejected, Quiet, planVars, loopVars, historyVars
<1>15. CASE EndGate
  BY <1>15 DEF EndGate, gateFrame, planVars, loopVars, historyVars
<1>16. CASE RequestFails
  BY <1>16 DEF RequestFails, planVars, loopVars, historyVars
<1>17. CASE Request
  BY <1>17, Submittable DEF Request, ExitForApproval, historyVars
<1>18. ASSUME NEW c \in Tools, Run(c) PROVE PlanType'
  BY <1>18 DEF Run, Edit, EditPlan, EnterPlanMode, Enter, PlanTarget, planVars, loopVars, historyVars
<1>19. CASE Submitted
  BY <1>19 DEF Submitted, planVars, loopVars, historyVars
<1>20. CASE ApprovePlan
  BY <1>20 DEF ApprovePlan, Approve, SetStoreMode, Chosen, planVars, loopVars, historyVars
<1>21. CASE RejectPlan
  BY <1>21 DEF RejectPlan, Reject, SetStoreMode, planVars, loopVars, historyVars
<1>22. CASE DismissPlan
  BY <1>22 DEF DismissPlan, Reject, SetStoreMode, Quiet, planVars, loopVars, historyVars
<1>23. CASE EndInteract
  BY <1>23 DEF EndInteract, planVars, loopVars, historyVars
<1>24. CASE EndRun
  BY <1>24 DEF EndRun, SetStoreMode, planVars, loopVars, historyVars
<1>25. ASSUME NEW c \in strays, Stray(c) PROVE PlanType'
  BY <1>25 DEF Stray, Enter, EditPlan, PlanTarget, planVars, loopVars, historyVars
<1>26. CASE UNCHANGED vars
  BY <1>26 DEF vars, planVars, loopVars, historyVars
<1> QED
  BY <1>1, <1>2, <1>3, <1>4, <1>5, <1>6, <1>7, <1>8, <1>9, <1>10, <1>11, <1>12, <1>13, <1>14, <1>15, <1>16, <1>17, <1>18, <1>19, <1>20, <1>21, <1>22, <1>23, <1>24, <1>25, <1>26 DEF Next

\* Every step leaves the turn with what its phase needs.
LEMMA ShapeNext == TInv /\ [Next]_vars => Shape'
<1> SUFFICES ASSUME TInv, [Next]_vars PROVE Shape'
  OBVIOUS
<1> USE DEF TInv, Shape, Phases
<1>1. ASSUME NEW m \in Modes, SetMode(m) PROVE Shape'
  BY <1>1 DEF SetMode, planVars, loopVars, historyVars
<1>2. ASSUME NEW s \in Sessions, NewSession(s) PROVE Shape'
  BY <1>2 DEF NewSession, planVars, loopVars, historyVars
<1>3. ASSUME NEW s \in Sessions, ResumeSession(s) PROVE Shape'
  BY <1>3 DEF ResumeSession, planVars, loopVars, historyVars
<1>4. ASSUME NEW s \in Sessions, Restart(s) PROVE Shape'
  BY <1>4 DEF Restart, Quiet, planVars, loopVars, historyVars
<1>5. CASE BeginTurn
  BY <1>5 DEF BeginTurn, planVars, loopVars, historyVars
<1>6. CASE EndTurn
  BY <1>6 DEF EndTurn, Quiet, planVars, loopVars, historyVars
<1>7. CASE Stop
  BY <1>7 DEF Stop, Quiet, planVars, loopVars, historyVars
<1>8. ASSUME NEW n \in 1..MaxCalls, NEW cs \in [1..n -> Calls], Respond(cs) PROVE Shape'
  BY <1>8 DEF Respond, planVars, loopVars, historyVars
<1>9. CASE Refuse
  BY <1>9 DEF Refuse, Resolved, gateFrame, planVars, loopVars, historyVars
<1>10. CASE Pass
  BY <1>10 DEF Pass, LetThrough, gateFrame, planVars, loopVars, historyVars
<1>11. CASE Ask
  BY <1>11 DEF Ask, gateFrame, planVars, loopVars, historyVars
<1>12. CASE Approved
  BY <1>12 DEF Approved, LetThrough, gateFrame, planVars, loopVars, historyVars
<1>13. CASE RejectedWithFeedback
  BY <1>13 DEF RejectedWithFeedback, Resolved, gateFrame, planVars, loopVars, historyVars
<1>14. CASE Rejected
  BY <1>14 DEF Rejected, Quiet, planVars, loopVars, historyVars
<1>15. CASE EndGate
  BY <1>15 DEF EndGate, gateFrame, planVars, loopVars, historyVars
<1>16. CASE RequestFails
  BY <1>16 DEF RequestFails, planVars, loopVars, historyVars
<1>17. CASE Request
  BY <1>17, Submittable DEF Request, ExitForApproval
<1>18. ASSUME NEW c \in Tools, Run(c) PROVE Shape'
  BY <1>18 DEF Run, planVars, loopVars, historyVars
<1>19. CASE Submitted
  BY <1>19 DEF Submitted, planVars, loopVars, historyVars
<1>20. CASE ApprovePlan
  BY <1>20 DEF ApprovePlan, planVars, loopVars, historyVars
<1>21. CASE RejectPlan
  BY <1>21 DEF RejectPlan, planVars, loopVars, historyVars
<1>22. CASE DismissPlan
  BY <1>22 DEF DismissPlan, Quiet, planVars, loopVars, historyVars
<1>23. CASE EndInteract
  BY <1>23 DEF EndInteract, planVars, loopVars, historyVars
<1>24. CASE EndRun
  BY <1>24 DEF EndRun, planVars, loopVars, historyVars
<1>25. ASSUME NEW c \in strays, Stray(c) PROVE Shape'
  BY <1>25 DEF Stray, planVars, loopVars, historyVars
<1>26. CASE UNCHANGED vars
  BY <1>26 DEF vars, planVars, loopVars, historyVars
<1> QED
  BY <1>1, <1>2, <1>3, <1>4, <1>5, <1>6, <1>7, <1>8, <1>9, <1>10, <1>11, <1>12, <1>13, <1>14, <1>15, <1>16, <1>17, <1>18, <1>19, <1>20, <1>21, <1>22, <1>23, <1>24, <1>25, <1>26 DEF Next

\* TypeOK is its parts.
LEMMA Types == TypeOK <=> StoreType /\ FileType /\ CallsType /\ PlanType /\ Flags /\ phase \in Phases
BY Zenon DEF TypeOK, StoreType, FileType, CallsType, PlanType, Flags

\* The types are an invariant.
LEMMA TypesAlways == Spec => [](TInv /\ Flags)
<1>1. Init => TInv /\ Flags
  <2>1. Init => Flags
    BY Zenon DEF Init, Flags
  <2>2. Init => TInv
    BY Elements, Storable, ConstantsAssumption
    DEF Init, TInv, StoreType, FileType, CallsType, PlanType, Shape, Phases
  <2> QED
    BY <2>1, <2>2
<1>2. TInv /\ Flags /\ [Next]_vars => (TInv /\ Flags)'
  BY FlagsNext, StoreTypeNext, FileTypeNext, CallsTypeNext, PlanTypeNext, ShapeNext
  DEF TInv
<1> QED
  BY <1>1, <1>2, PTL DEF Spec

\* Every variable keeps its type, for any number of sessions and of calls in a
\* response (the whole of plan mode).
THEOREM TypeCorrect == Spec => []TypeOK
<1>1. TInv /\ Flags => TypeOK
  BY Types DEF TInv, Shape
<1> QED
  BY <1>1, TypesAlways, PTL

-----------------------------------------------------------------------------
(* A turn in plan mode changes nothing *)

\* A bound turn is one whose every gate is closed to an edit: the plan state
\* is active or awaits an approval, no edit passed before, none is being asked
\* about.
BoundInv ==
  /\ wrote = FALSE
  /\ phase \in {"idle", "llm"} => executable["edit"] = 0
  /\ bound => /\ phase # "idle"
              /\ active \/ awaiting
              /\ executable["edit"] = 0
              /\ phase = "ask" => Head(calls) # "edit"

\* Every step keeps the gates of a bound turn closed.
LEMMA BoundNext == TInv /\ Flags /\ BoundInv /\ [Next]_vars => BoundInv'
<1> SUFFICES ASSUME TInv, Flags, BoundInv, [Next]_vars PROVE BoundInv'
  OBVIOUS
<1>a. NoCall["edit"] = 0
  BY Elements DEF NoCall
<1>b. bound => Blocked("edit")
  BY DEF BoundInv, Blocked, Flags
<1>c. ASSUME LetThrough, Head(calls) # "edit" PROVE executable'["edit"] = executable["edit"]
  BY <1>c, Elements DEF LetThrough, TInv, CallsType
<1> USE <1>a DEF BoundInv, Flags
<1>1. ASSUME NEW m \in Modes, SetMode(m) PROVE BoundInv'
  BY <1>1 DEF SetMode, Enter, Reset, SetStoreMode, Chosen, planVars, loopVars, historyVars
<1>2. ASSUME NEW s \in Sessions, NewSession(s) PROVE BoundInv'
  BY <1>2 DEF NewSession, Reset, planVars, loopVars, historyVars
<1>3. ASSUME NEW s \in Sessions, ResumeSession(s) PROVE BoundInv'
  BY <1>3 DEF ResumeSession, planVars, loopVars, historyVars
<1>4. ASSUME NEW s \in Sessions, Restart(s) PROVE BoundInv'
  BY <1>4 DEF Restart, Reset, Quiet, planVars, loopVars, historyVars
<1>5. CASE BeginTurn
  <2>1. bound' => active' \/ awaiting'
    BY <1>5 DEF BeginTurn, Sync
  <2> QED
    BY <1>5, <2>1 DEF BeginTurn, Sync
<1>6. CASE EndTurn
  BY <1>6 DEF EndTurn, Quiet, planVars, loopVars, historyVars
<1>7. CASE Stop
  BY <1>7 DEF Stop, Quiet, planVars, loopVars, historyVars
<1>8. ASSUME NEW n \in 1..MaxCalls, NEW cs \in [1..n -> Calls], Respond(cs) PROVE BoundInv'
  BY <1>8 DEF Respond, planVars, loopVars, historyVars
<1>9. CASE Refuse
  BY <1>9 DEF Refuse, Resolved, gateFrame, planVars, loopVars, historyVars
<1>10. CASE Pass
  <2>1. bound => Head(calls) # "edit"
    BY <1>10, <1>b DEF Pass
  <2>2. UNCHANGED <<phase, planVars, bound, wrote>> /\ LetThrough /\ phase = "gate"
    BY <1>10 DEF Pass, gateFrame, historyVars
  <2> QED
    BY <2>1, <2>2, <1>c DEF planVars
<1>11. CASE Ask
  <2>1. bound => Head(calls) # "edit"
    BY <1>11, <1>b DEF Ask
  <2> QED
    BY <1>11, <2>1 DEF Ask, gateFrame, planVars, historyVars
<1>12. CASE Approved
  <2>1. bound => Head(calls) # "edit"
    BY <1>12 DEF Approved
  <2>2. UNCHANGED <<planVars, bound, wrote>> /\ LetThrough /\ phase' = "gate"
    BY <1>12 DEF Approved, gateFrame, historyVars
  <2> QED
    BY <2>1, <2>2, <1>c DEF planVars
<1>13. CASE RejectedWithFeedback
  BY <1>13 DEF RejectedWithFeedback, Resolved, gateFrame, planVars, loopVars, historyVars
<1>14. CASE Rejected
  BY <1>14 DEF Rejected, Quiet, planVars, loopVars, historyVars
<1>15. CASE EndGate
  BY <1>15 DEF EndGate, gateFrame, planVars, loopVars, historyVars
<1>16. CASE RequestFails
  BY <1>16 DEF RequestFails, planVars, loopVars, historyVars
<1>17. CASE Request
  BY <1>17 DEF Request, ExitForApproval, planVars, loopVars, historyVars
<1>18. ASSUME NEW c \in Tools, Run(c) PROVE BoundInv'
  BY <1>18 DEF Run, Edit, EditPlan, EnterPlanMode, Enter, PlanTarget, planVars, loopVars, historyVars
<1>19. CASE Submitted
  BY <1>19 DEF Submitted, planVars, loopVars, historyVars
<1>20. CASE ApprovePlan
  BY <1>20 DEF ApprovePlan, Approve, SetStoreMode, Chosen, planVars, loopVars, historyVars
<1>21. CASE RejectPlan
  BY <1>21 DEF RejectPlan, Reject, SetStoreMode, planVars, loopVars, historyVars
<1>22. CASE DismissPlan
  BY <1>22 DEF DismissPlan, Reject, SetStoreMode, Quiet, planVars, loopVars, historyVars
<1>23. CASE EndInteract
  BY <1>23 DEF EndInteract, planVars, loopVars, historyVars
<1>24. CASE EndRun
  BY <1>24 DEF EndRun, planVars
<1>25. ASSUME NEW c \in strays, Stray(c) PROVE BoundInv'
  BY <1>25 DEF Stray, Enter, EditPlan, PlanTarget, planVars, loopVars, historyVars
<1>26. CASE UNCHANGED vars
  BY <1>26 DEF vars, planVars, loopVars, historyVars
<1> QED
  BY <1>1, <1>2, <1>3, <1>4, <1>5, <1>6, <1>7, <1>8, <1>9, <1>10, <1>11, <1>12, <1>13, <1>14, <1>15, <1>16, <1>17, <1>18, <1>19, <1>20, <1>21, <1>22, <1>23, <1>24, <1>25, <1>26 DEF Next

\* A turn in plan mode changes nothing but the plan file until the user approves
\* a plan or leaves plan mode (gate_tool, and all that keeps its state).
THEOREM PlanTurnHarmless == Spec => []PlanTurnWritesNothing
<1>1. Init => BoundInv
  BY Elements DEF Init, BoundInv, NoCall
<1>2. BoundInv => PlanTurnWritesNothing
  BY DEF BoundInv, PlanTurnWritesNothing
<1> QED
  BY <1>1, <1>2, BoundNext, TypesAlways, PTL DEF Spec

-----------------------------------------------------------------------------
(* The plan state and the store *)

StoredMode == store[session].mode

\* Where they agree, and what is ahead of the store while a plan is submitted
\* and while the calls of a response run.
StoreInv ==
  ~disturbed =>
    /\ phase \in {"llm", "gate", "ask", "interact", "run"} =>
         /\ active <=> (StoredMode = "plan" \/ entered)
         /\ awaiting => StoredMode \in {"plan", "awaiting_approval"}
         /\ StoredMode = "awaiting_approval" => awaiting
    /\ phase \in {"submit", "plan"} => ~active /\ awaiting /\ hash = prompt
    /\ phase = "submit" => StoredMode = "plan"
    /\ phase = "plan" => StoredMode = "awaiting_approval"

\* Every step keeps the plan state and the store in agreement.
LEMMA StoreNext == TInv /\ Flags /\ StoreInv /\ [Next]_vars => StoreInv'
<1> SUFFICES ASSUME TInv, Flags, StoreInv, [Next]_vars PROVE StoreInv'
  OBVIOUS
<1> USE Storable DEF StoreInv, StoredMode, Flags, Shape, TInv
<1>1. ASSUME NEW m \in Modes, SetMode(m) PROVE StoreInv'
  BY <1>1 DEF SetMode, Enter, Reset, SetStoreMode, Chosen, planVars, loopVars, historyVars
<1>2. ASSUME NEW s \in Sessions, NewSession(s) PROVE StoreInv'
  BY <1>2 DEF NewSession, Reset, planVars, loopVars, historyVars
<1>3. ASSUME NEW s \in Sessions, ResumeSession(s) PROVE StoreInv'
  BY <1>3 DEF ResumeSession, planVars, loopVars, historyVars
<1>4. ASSUME NEW s \in Sessions, Restart(s) PROVE StoreInv'
  BY <1>4 DEF Restart, Reset, Quiet, planVars, loopVars, historyVars
<1>5. CASE BeginTurn
  BY <1>5 DEF BeginTurn, Sync, planVars, loopVars, historyVars
<1>6. CASE EndTurn
  BY <1>6 DEF EndTurn, Quiet, planVars, loopVars, historyVars
<1>7. CASE Stop
  BY <1>7 DEF Stop, Quiet, planVars, loopVars, historyVars
<1>8. ASSUME NEW n \in 1..MaxCalls, NEW cs \in [1..n -> Calls], Respond(cs) PROVE StoreInv'
  BY <1>8 DEF Respond, planVars, loopVars, historyVars
<1>9. CASE Refuse
  BY <1>9 DEF Refuse, Resolved, gateFrame, planVars, loopVars, historyVars
<1>10. CASE Pass
  BY <1>10 DEF Pass, LetThrough, gateFrame, planVars, loopVars, historyVars
<1>11. CASE Ask
  BY <1>11 DEF Ask, gateFrame, planVars, loopVars, historyVars
<1>12. CASE Approved
  BY <1>12 DEF Approved, LetThrough, gateFrame, planVars, loopVars, historyVars
<1>13. CASE RejectedWithFeedback
  BY <1>13 DEF RejectedWithFeedback, Resolved, gateFrame, planVars, loopVars, historyVars
<1>14. CASE Rejected
  BY <1>14 DEF Rejected, Quiet, planVars, loopVars, historyVars
<1>15. CASE EndGate
  BY <1>15 DEF EndGate, gateFrame, planVars, loopVars, historyVars
<1>16. CASE RequestFails
  BY <1>16 DEF RequestFails, planVars, loopVars, historyVars
<1>17. CASE Request
  BY <1>17 DEF Request, ExitForApproval, planVars, loopVars, historyVars
<1>18. ASSUME NEW c \in Tools, Run(c) PROVE StoreInv'
  BY <1>18 DEF Run, Edit, EditPlan, EnterPlanMode, Enter, PlanTarget, planVars, loopVars, historyVars
<1>19. CASE Submitted
  BY <1>19 DEF Submitted, StoreType, PlanType, planVars, loopVars, historyVars
<1>20. CASE ApprovePlan
  BY <1>20, StoreMode DEF ApprovePlan, Approve, PlanType, planVars, loopVars, historyVars
<1>21. CASE RejectPlan
  BY <1>21, StoreMode DEF RejectPlan, Reject, PlanType, planVars, loopVars, historyVars
<1>22. CASE DismissPlan
  BY <1>22 DEF DismissPlan, Reject, SetStoreMode, Quiet, planVars, loopVars, historyVars
<1>23. CASE EndInteract
  BY <1>23 DEF EndInteract, planVars, loopVars, historyVars
<1>24. CASE EndRun
  <2>1. CASE entered
    BY <1>24, <2>1, StoreMode DEF EndRun, PlanType, planVars, loopVars, historyVars
  <2>2. CASE ~entered
    BY <1>24, <2>2 DEF EndRun, planVars, loopVars, historyVars
  <2> QED
    BY <2>1, <2>2
<1>25. ASSUME NEW c \in strays, Stray(c) PROVE StoreInv'
  <2>1. CASE UNCHANGED planVars /\ UNCHANGED disturbed
    BY <1>25, <2>1 DEF Stray, planVars, loopVars
  <2>2. CASE Enter /\ disturbed' = (phase # "idle")
    BY <1>25, <2>2 DEF Stray, loopVars
  <2> QED
    BY <1>25, <2>1, <2>2 DEF Stray, EditPlan
<1>26. CASE UNCHANGED vars
  BY <1>26 DEF vars, planVars, loopVars, historyVars
<1> QED
  BY <1>1, <1>2, <1>3, <1>4, <1>5, <1>6, <1>7, <1>8, <1>9, <1>10, <1>11, <1>12, <1>13, <1>14, <1>15, <1>16, <1>17, <1>18, <1>19, <1>20, <1>21, <1>22, <1>23, <1>24, <1>25, <1>26 DEF Next

\* What the plan state gates is what the session's store says, in every turn
\* nobody else disturbs (_sync_plan_mode_from_store, handle_plan_approval and
\* the event of enter_plan_mode).
THEOREM PlanStateStored == Spec => []PlanStateFollowsStore
<1>1. Init => StoreInv
  BY DEF Init, StoreInv
<1>2. StoreInv /\ Shape => PlanStateFollowsStore
  BY DEF StoreInv, Shape, PlanStateFollowsStore, StoredMode
<1> QED
  BY <1>1, <1>2, StoreNext, TypesAlways, PTL DEF Spec, TInv

-----------------------------------------------------------------------------
(* Auto mode *)

\* A store says auto only for a user who chose it there, and the manager has
\* during a turn no other source than the store and the user.
AutoInv ==
  /\ \A s \in Sessions : store[s].mode = "auto" => s \in autoChosen
  /\ AutoWasChosen

\* Every step keeps auto mode to those who chose it.
LEMMA AutoNext == TInv /\ Flags /\ AutoInv /\ [Next]_vars => AutoInv'
<1> SUFFICES ASSUME TInv, Flags, AutoInv, [Next]_vars PROVE AutoInv'
  OBVIOUS
<1> USE Storable DEF TInv, AutoInv, AutoWasChosen, PlanType
<1>1. ASSUME NEW m \in Modes, SetMode(m) PROVE AutoInv'
  <2>1. CASE m # mode
    BY <1>1, <2>1, StoreMode DEF SetMode, Chosen, loopVars
  <2>2. CASE m = mode
    BY <1>1, <2>2 DEF SetMode, loopVars
  <2> QED
    BY <2>1, <2>2
<1>2. ASSUME NEW s \in Sessions, NewSession(s) PROVE AutoInv'
  BY <1>2 DEF NewSession, Reset, planVars, loopVars, historyVars
<1>3. ASSUME NEW s \in Sessions, ResumeSession(s) PROVE AutoInv'
  BY <1>3 DEF ResumeSession, planVars, loopVars, historyVars
<1>4. ASSUME NEW s \in Sessions, Restart(s) PROVE AutoInv'
  BY <1>4 DEF Restart, Reset, Quiet, planVars, loopVars, historyVars
<1>5. CASE BeginTurn
  BY <1>5 DEF BeginTurn, Sync, planVars, loopVars, historyVars
<1>6. CASE EndTurn
  BY <1>6 DEF EndTurn, Quiet, planVars, loopVars, historyVars
<1>7. CASE Stop
  BY <1>7 DEF Stop, Quiet, planVars, loopVars, historyVars
<1>8. ASSUME NEW n \in 1..MaxCalls, NEW cs \in [1..n -> Calls], Respond(cs) PROVE AutoInv'
  BY <1>8 DEF Respond, planVars, loopVars, historyVars
<1>9. CASE Refuse
  BY <1>9 DEF Refuse, Resolved, gateFrame, planVars, loopVars, historyVars
<1>10. CASE Pass
  BY <1>10 DEF Pass, LetThrough, gateFrame, planVars, loopVars, historyVars
<1>11. CASE Ask
  BY <1>11 DEF Ask, gateFrame, planVars, loopVars, historyVars
<1>12. CASE Approved
  BY <1>12 DEF Approved, LetThrough, gateFrame, planVars, loopVars, historyVars
<1>13. CASE RejectedWithFeedback
  BY <1>13 DEF RejectedWithFeedback, Resolved, gateFrame, planVars, loopVars, historyVars
<1>14. CASE Rejected
  BY <1>14 DEF Rejected, Quiet, planVars, loopVars, historyVars
<1>15. CASE EndGate
  BY <1>15 DEF EndGate, gateFrame, planVars, loopVars, historyVars
<1>16. CASE RequestFails
  BY <1>16 DEF RequestFails, planVars, loopVars, historyVars
<1>17. CASE Request
  BY <1>17 DEF Request, ExitForApproval, planVars, loopVars, historyVars
<1>18. ASSUME NEW c \in Tools, Run(c) PROVE AutoInv'
  BY <1>18 DEF Run, Edit, EditPlan, EnterPlanMode, Enter, PlanTarget, planVars, loopVars, historyVars
<1>19. CASE Submitted
  BY <1>19 DEF Submitted, StoreType, loopVars, historyVars
<1>20. CASE ApprovePlan
  BY <1>20, StoreMode DEF ApprovePlan, Chosen
<1>21. CASE RejectPlan
  BY <1>21, StoreMode DEF RejectPlan, loopVars, historyVars
<1>22. CASE DismissPlan
  BY <1>22, StoreMode DEF DismissPlan, Quiet
<1>23. CASE EndInteract
  BY <1>23 DEF EndInteract, planVars, loopVars, historyVars
<1>24. CASE EndRun
  <2>1. CASE entered
    BY <1>24, <2>1, StoreMode DEF EndRun, loopVars, historyVars
  <2>2. CASE ~entered
    BY <1>24, <2>2 DEF EndRun, loopVars, historyVars
  <2> QED
    BY <2>1, <2>2
<1>25. ASSUME NEW c \in strays, Stray(c) PROVE AutoInv'
  BY <1>25 DEF Stray, Enter, EditPlan, PlanTarget, planVars, loopVars, historyVars
<1>26. CASE UNCHANGED vars
  BY <1>26 DEF vars, planVars, loopVars, historyVars
<1> QED
  BY <1>1, <1>2, <1>3, <1>4, <1>5, <1>6, <1>7, <1>8, <1>9, <1>10, <1>11, <1>12, <1>13, <1>14, <1>15, <1>16, <1>17, <1>18, <1>19, <1>20, <1>21, <1>22, <1>23, <1>24, <1>25, <1>26 DEF Next

\* A turn runs in auto mode only in a session whose user's last switch was to
\* it (set_permission_mode, the store, the synchronization).
THEOREM AutoIsChosen == Spec => []AutoWasChosen
<1>1. Init => AutoInv
  BY DEF Init, AutoInv, AutoWasChosen, NewStore
<1>2. AutoInv => AutoWasChosen
  BY DEF AutoInv
<1> QED
  BY <1>1, <1>2, AutoNext, TypesAlways, PTL DEF Spec

=============================================================================
