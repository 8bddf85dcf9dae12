--------------------------- MODULE ToolLoop_proofs ---------------------------
(***************************************************************************)
(* What holds of the tool loop for any set of calls, any limits and any     *)
(* number of turns.                                                         *)
(*                                                                          *)
(* The requests of a turn are bounded and what failed in it is not run      *)
(* again: both follow from what the loop counts and records, whatever the   *)
(* messages are (Counted, Screened).                                        *)
(*                                                                          *)
(* What the two conversations say follows from one invariant, IInv, which   *)
(* relates them to each other and to the round in progress: a call of the   *)
(* round has a result in the store just when it has one in resolved, what   *)
(* still waits has none and has not run, and the context knows no call of   *)
(* the round and lacks no result the store has of a call it knows.          *)
(* The lemmas about Those, FlattenSeq and Fixed are inductions, over the    *)
(* set of lengths for which the claim holds.                                *)
(***************************************************************************)
EXTENDS ToolLoop, FiniteSetTheorems, FunctionTheorems, TLAPS

-----------------------------------------------------------------------------
(* Requests *)

\* Budgets are products of naturals.
LEMMA NatTimes == \A a, m \in Nat : a * m \in Nat
  OBVIOUS

LEMMA OneMore == \A a, m \in Nat : (a + 1) * m = a * m + m
  OBVIOUS

LEMMA Monotone == ASSUME NEW a \in Nat, NEW b \in Nat, NEW m \in Nat, a <= b
                  PROVE  a * m <= b * m
<1>1. PICK d \in Nat : b = a + d
  <2> WITNESS b - a \in Nat
  <2> QED OBVIOUS
<1>2. b * m = a * m + d * m
  BY <1>1
<1>3. d * m \in Nat /\ a * m \in Nat
  OBVIOUS
<1> QED
  BY <1>2, <1>3

\* The requests since the last Continue are among the iterations, and those
\* before it were at most MaxIterations for each Continue.
Counted ==
  /\ iteration \in Nat /\ continues \in Nat /\ requests \in Nat
  /\ continues <= MaxContinues
  /\ at = "pause" => continues < MaxContinues
  /\ MaxIterations # 0 =>
       /\ requests <= continues * MaxIterations + iteration
       /\ requests <= continues * MaxIterations + MaxIterations

counters == <<iteration, continues, requests>>

\* A step that counts nothing and does not come to a pause.
LEMMA CountsKept ==
  ASSUME Counted, UNCHANGED counters, at' # "pause" \/ at = "pause"
  PROVE  Counted'
  BY DEF Counted, counters

\* The start and the end of a turn.
LEMMA CountsZero ==
  ASSUME iteration' = 0, continues' = 0, requests' = 0, at' # "pause"
  PROVE  Counted'
<1>1. 0 * MaxIterations = 0
  BY ConstantsAssumption
<1> QED
  BY <1>1, ConstantsAssumption DEF Counted

LEMMA CountedNext == Counted /\ [Next]_vars => Counted'
<1> SUFFICES ASSUME Counted, [Next]_vars PROVE Counted'
  OBVIOUS
<1> USE DEF counters
<1>1. CASE Chat
  BY <1>1, CountsZero DEF Chat
<1>2. CASE Pause
  <2>1. /\ at = "top" /\ at' = "pause" /\ iteration' = iteration + 1
        /\ continues' = continues /\ requests' = requests
        /\ ~(continues >= MaxContinues)
    BY <1>2 DEF Pause, Capped, historyVars
  <2> DEFINE P == continues * MaxIterations
  <2>2. P \in Nat
    BY ConstantsAssumption DEF Counted
  <2>3. MaxIterations # 0 => requests <= P + iteration /\ requests <= P + MaxIterations
    BY DEF Counted
  <2>4. (continues * MaxIterations)' = P
    BY <2>1
  <2> HIDE DEF P
  <2> QED
    BY <2>1, <2>2, <2>3, <2>4, ConstantsAssumption DEF Counted
<1>3. CASE StopAtCap
  BY <1>3, CountsZero DEF StopAtCap, TurnOver
<1>4. CASE Request
  <2>1. /\ at' = "llm" /\ iteration' = iteration + 1 /\ continues' = continues
        /\ requests' = IF requests > MaxRequests THEN requests ELSE requests + 1
        /\ MaxIterations # 0 => ~(iteration + 1 > MaxIterations)
    BY <1>4 DEF Request, Limit
  <2> DEFINE P == continues * MaxIterations
  <2>2. P \in Nat /\ MaxRequests \in Int
    BY ConstantsAssumption DEF Counted, MaxRequests
  <2>3. MaxIterations # 0 => requests <= P + iteration
    BY DEF Counted
  <2>4. (continues * MaxIterations)' = P
    BY <2>1
  <2>5. requests' \in Nat /\ requests' <= requests + 1
    BY <2>1, <2>2 DEF Counted
  <2> HIDE DEF P
  <2> QED
    BY <2>1, <2>2, <2>3, <2>4, <2>5, ConstantsAssumption DEF Counted
<1>5. CASE Continue
  <2>1. /\ at = "pause" /\ at' = "top" /\ iteration' = 0
        /\ continues' = continues + 1 /\ requests' = requests
    BY <1>5 DEF Continue, historyVars
  <2> DEFINE P == continues * MaxIterations
  <2>2. P \in Nat
    BY ConstantsAssumption DEF Counted
  <2>3. MaxIterations # 0 => requests <= P + MaxIterations
    BY DEF Counted
  <2>4. (continues * MaxIterations)' = P + MaxIterations
    BY <2>1, OneMore, ConstantsAssumption DEF Counted
  <2> HIDE DEF P
  <2> QED
    BY <2>1, <2>2, <2>3, <2>4, ConstantsAssumption DEF Counted
<1>6. CASE (\E cs \in Replies : Reply(cs)) \/ ProviderError
  BY <1>6, CountsKept DEF Reply, ProviderError, budgetVars, historyVars
<1>7. CASE StartCompaction \/ Compacted \/ CompactionFails \/ Proceed
  BY <1>7, CountsKept DEF StartCompaction, Compacted, CompactionFails, Proceed,
                          budgetVars, historyVars
<1>8. CASE Finish \/ GiveUp
  BY <1>8, CountsZero DEF Finish, GiveUp, TurnOver
<1>9. CASE RefuseRepeat \/ Deny \/ Allow \/ Ask \/ EndGate
  <2>1. at = "gate"
    BY <1>9 DEF RefuseRepeat, Deny, Allow, Ask, EndGate, Gating
  <2> QED
    BY <1>9, <2>1, CountsKept DEF RefuseRepeat, Deny, Allow, Ask, EndGate, budgetVars,
                             historyVars
<1>10. CASE Retry \/ Approved \/ RejectedWithFeedback
  BY <1>10, CountsKept DEF Retry, Approved, RejectedWithFeedback, budgetVars, historyVars
<1>11. CASE Rejected \/ PlanRejected \/ StopApproval \/ StopPlan
  BY <1>11, CountsZero DEF Rejected, PlanRejected, StopApproval, StopPlan, EndRejected,
                           TurnOver
<1>12. CASE Interacted \/ StopClarify
  <2>1. at = "interact"
    BY <1>12 DEF Interacted, StopClarify, Interacting
  <2> QED
    BY <1>12, <2>1, CountsKept DEF Interacted, StopClarify, budgetVars, historyVars
<1>13. CASE RunTools \/ MergeOnly \/ Collect
  BY <1>13, CountsKept DEF RunTools, MergeOnly, Collect, Merge, budgetVars, historyVars
<1>14. ASSUME NEW c \in Calls, ToolSucceeds(c) \/ ToolFails(c) PROVE Counted'
  BY <1>14, CountsKept DEF ToolSucceeds, ToolFails, budgetVars
<1>15. CASE \/ StopTurn \/ StopRound \/ ArgumentsRaise
            \/ \E i \in DOMAIN executable : CollectRaises(i)
  BY <1>15, CountsZero DEF StopTurn, StopRound, ArgumentsRaise, CollectRaises, Raised, TurnOver
<1>16. CASE UNCHANGED vars
  BY <1>16, CountsKept DEF vars, budgetVars, historyVars
<1> QED
  BY <1>1, <1>2, <1>3, <1>4, <1>5, <1>6, <1>7, <1>8, <1>9, <1>10, <1>11, <1>12, <1>13,
     <1>14, <1>15, <1>16 DEF Next, LoopStep, UserStep, Stop

\* A turn makes at most MaxIterations requests and as many for every Continue: the
\* budgets of stream_response hold whatever fails, is retried or stopped.
THEOREM BudgetHolds == Spec => []RequestsBounded
<1>1. Init => Counted
  <2>1. 0 * MaxIterations = 0
    BY ConstantsAssumption
  <2> QED
    BY <2>1, ConstantsAssumption DEF Init, Counted
<1>2. Counted => RequestsBounded
  <2> SUFFICES ASSUME Counted, MaxIterations # 0 PROVE requests <= MaxRequests
    BY DEF RequestsBounded
  <2>1. /\ continues \in Nat /\ requests \in Nat /\ continues <= MaxContinues
        /\ requests <= continues * MaxIterations + MaxIterations
    BY DEF Counted
  <2>2. requests <= (continues + 1) * MaxIterations
    BY <2>1, OneMore, ConstantsAssumption
  <2>3. (continues + 1) * MaxIterations <= (MaxContinues + 1) * MaxIterations
    BY <2>1, Monotone, ConstantsAssumption
  <2>4. (continues + 1) * MaxIterations \in Nat /\ (MaxContinues + 1) * MaxIterations \in Nat
    BY <2>1, ConstantsAssumption
  <2> QED
    BY <2>1, <2>2, <2>3, <2>4 DEF MaxRequests
<1> QED
  BY <1>1, <1>2, CountedNext, PTL DEF Spec

-----------------------------------------------------------------------------
(* Repeats *)

InRound == {"gate", "approval", "interact", "tools"}

\* What has failed is in the tracker; what Phase A lets through, or asks the user
\* about, is not, and stays so, since failures are recorded only after the run.
Screened ==
  /\ executable \in Seq(Calls) /\ response \in Seq(Calls) /\ gated \in Nat
  /\ \A f \in failures : Sig[f] \in failed
  /\ \A i \in DOMAIN executable : Sig[executable[i]] \notin failed
  /\ at \notin InRound => executable = <<>> /\ gated = 0
  /\ at = "approval" => ~Repeated /\ gated < Len(response)
  /\ at = "gate" => gated <= Len(response)

tracked == <<executable, response, gated, failures, failed>>

\* A step that neither begins nor ends a round, gates nothing, and asks nothing.
LEMMA ScreenKept ==
  ASSUME Screened, UNCHANGED tracked, at' \in InRound \/ at \notin InRound,
         at' = "approval" => at = "approval", at' = "gate" => at = "gate" \/ at \notin InRound
  PROVE  Screened'
  BY DEF Screened, tracked, InRound, Call, Repeated

\* A round ends.
LEMMA ScreenEmpty ==
  ASSUME Screened, NoRound, at' \notin InRound, UNCHANGED <<failures, failed>>
  PROVE  Screened'
  BY DEF Screened, NoRound, InRound, Call, Repeated

\* A call is classified.
LEMMA ScreenClassified ==
  ASSUME Screened, Classify, ~Repeated, gated < Len(response),
         UNCHANGED <<response, failures, failed>>, at' = "gate"
  PROVE  Screened'
<1>1. /\ Call \in Calls /\ gated' = gated + 1 /\ gated' <= Len(response)
      /\ gated' \in Nat
      /\ Sig[Call] \notin failed
  BY DEF Screened, Classify, Call, Repeated
<1>2. CASE Call \in Interactive
  <2>1. executable' = executable
    BY <1>2 DEF Classify
  <2> QED
    BY <1>1, <2>1 DEF Screened, InRound
<1>3. CASE Call \notin Interactive
  <2>1. executable' = Append(executable, Call)
    BY <1>3 DEF Classify
  <2>2. executable' \in Seq(Calls)
    BY <1>1, <2>1 DEF Screened
  <2>3. \A i \in DOMAIN executable' : Sig[executable'[i]] \notin failed
    <3> TAKE i \in DOMAIN executable'
    <3>1. CASE i = Len(executable) + 1
      BY <1>1, <2>1, <3>1 DEF Screened
    <3>2. CASE i # Len(executable) + 1
      BY <2>1, <3>2 DEF Screened
    <3> QED
      BY <3>1, <3>2
  <2> QED
    BY <1>1, <2>2, <2>3 DEF Screened, InRound
<1> QED
  BY <1>2, <1>3

\* A call of the reply that has its result is passed over.
LEMMA ScreenPassed ==
  ASSUME Screened, gated < Len(response), gated' = gated + 1, at' = "gate",
         UNCHANGED <<executable, response, failures, failed>>
  PROVE  Screened'
  BY DEF Screened, InRound

LEMMA RepliesAreCalls == \A cs \in Replies : cs \in Seq(Calls)
  BY ConstantsAssumption DEF Replies, SeqOf

LEMMA ScreenedNext == Screened /\ [Next]_vars => Screened'
<1> SUFFICES ASSUME Screened, [Next]_vars PROVE Screened'
  OBVIOUS
<1> USE DEF tracked
<1>1. CASE Chat
  BY <1>1 DEF Chat, Screened, roundVars, InRound
<1>2. CASE Pause \/ Request \/ ProviderError \/ StartCompaction \/ Compacted
           \/ CompactionFails \/ Proceed \/ Continue \/ Retry
  BY <1>2, ScreenKept DEF Pause, Request, ProviderError, StartCompaction, Compacted,
                          CompactionFails, Proceed, Continue, Retry, InRound, roundVars,
                          historyVars
<1>3. ASSUME NEW cs \in Replies, Reply(cs) PROVE Screened'
  BY <1>3, RepliesAreCalls DEF Reply, Screened, InRound, historyVars
<1>4. CASE StopAtCap \/ Finish \/ GiveUp \/ StopTurn \/ StopRound \/ ArgumentsRaise
  BY <1>4, ScreenEmpty DEF StopAtCap, Finish, GiveUp, StopTurn, StopRound, ArgumentsRaise,
                           Raised, TurnOver, otherVars, InRound
<1>5. CASE RefuseRepeat \/ Deny
  BY <1>5, ScreenPassed DEF RefuseRepeat, Deny, Gating, historyVars
<1>6. CASE Allow
  BY <1>6, ScreenClassified DEF Allow, Gating, historyVars
<1>7. CASE Ask
  BY <1>7 DEF Ask, Gating, Screened, InRound, Call, Repeated, roundVars, historyVars
<1>8. CASE Approved
  BY <1>8, ScreenClassified DEF Approved, Screened, historyVars
<1>9. CASE RejectedWithFeedback
  BY <1>9, ScreenPassed DEF RejectedWithFeedback, Screened, historyVars
<1>10. CASE Rejected \/ PlanRejected \/ StopApproval \/ StopPlan
  BY <1>10, ScreenEmpty DEF Rejected, PlanRejected, StopApproval, StopPlan, EndRejected,
                            TurnOver, InRound
<1>11. CASE EndGate \/ Interacted \/ StopClarify \/ RunTools
  BY <1>11, ScreenKept DEF EndGate, Interacted, StopClarify, RunTools, Interacting,
                           InRound, roundVars, historyVars
<1>12. CASE MergeOnly
  BY <1>12, ScreenEmpty DEF MergeOnly, Merge, InRound, historyVars
<1>13. ASSUME NEW c \in Calls, ToolSucceeds(c) \/ ToolFails(c) PROVE Screened'
  BY <1>13, ScreenKept DEF ToolSucceeds, ToolFails, InRound
<1>14. CASE Collect
  <2>1. /\ \A f \in failures' : Sig[f] \in failed'
        /\ at' = "top" /\ executable' = <<>> /\ response' = <<>> /\ gated' = 0
    BY <1>14 DEF Collect, RecordFailures, Merge, NoRound, Screened
  <2> QED
    BY <2>1 DEF Screened, InRound
<1>15. ASSUME NEW i \in DOMAIN executable, CollectRaises(i) PROVE Screened'
  <2>1. /\ \A f \in failures' : Sig[f] \in failed'
        /\ at' = "idle" /\ executable' = <<>> /\ response' = <<>> /\ gated' = 0
    BY <1>15 DEF CollectRaises, Raised, RecordFailures, TurnOver, NoRound, Screened
  <2> QED
    BY <2>1 DEF Screened, InRound
<1>16. CASE UNCHANGED vars
  BY <1>16, ScreenKept DEF vars, roundVars, historyVars, Screened, InRound
<1> QED
  BY <1>1, <1>2, <1>3, <1>4, <1>5, <1>6, <1>7, <1>8, <1>9, <1>10, <1>11, <1>12, <1>13,
     <1>14, <1>15, <1>16 DEF Next, LoopStep, UserStep, Stop

\* Only RunTools begins a run, of calls that passed the screen.
LEMMA RunIsScreened ==
  ASSUME Screened
  PROVE  at' = "tools" /\ at # "tools" =>
           \A c \in ToSet(executable) : \A f \in failures : Sig[c] # Sig[f]
<1> SUFFICES ASSUME NEW c \in ToSet(executable), NEW f \in failures PROVE Sig[c] # Sig[f]
  OBVIOUS
<1>1. PICK i \in DOMAIN executable : c = executable[i]
  BY DEF ToSet
<1> QED
  BY <1>1 DEF Screened

\* A call that failed in an earlier round of the turn is not run again: the guard
\* at the gate holds until the run, and no Continue forgets a failure.
THEOREM FailuresStayBlocked == Spec => NoRepeat
<1>1. Init => Screened
  BY DEF Init, Screened, InRound
<1> QED
  BY <1>1, ScreenedNext, RunIsScreened, PTL DEF Spec, NoRepeat

-----------------------------------------------------------------------------
(* Numbers and sequences *)

\* The natural numbers by induction: over a set, since a theorem about an operator
\* cannot be instantiated.
NatLess == {p \in Nat \X Nat : p[1] < p[2]}

\* Every nonempty set of naturals has a least element.
LEMMA Least ==
  ASSUME NEW S, S \subseteq Nat, S # {}
  PROVE  \E n \in S : \A m \in S : n <= m
<1>1. IsWellFoundedOn(NatLess, Nat)
  BY NatLessThanWellFounded DEF OpToRel, NatLess
<1>2. PICK n \in S : \A m \in S : <<m, n>> \notin NatLess
  BY <1>1, WFMin
<1>3. ASSUME NEW m \in S PROVE n <= m
  <2>1. m \in Nat /\ n \in Nat /\ <<m, n>> \in Nat \X Nat
    OBVIOUS
  <2>2. ~(<<m, n>>[1] < <<m, n>>[2])
    BY <1>2, <2>1 DEF NatLess
  <2> QED
    BY <2>1, <2>2
<1> QED
  BY <1>3

\* What holds 0 and with each number the next is all of Nat.
LEMMA Induction ==
  ASSUME NEW S, S \subseteq Nat, 0 \in S, \A n \in S : n + 1 \in S
  PROVE  S = Nat
<1> SUFFICES ASSUME Nat \ S # {} PROVE FALSE
  OBVIOUS
<1>1. PICK n \in Nat \ S : \A m \in Nat \ S : n <= m
  BY Least
<1>2. n - 1 \in S
  BY <1>1
<1> QED
  BY <1>1, <1>2

\* A set of naturals with a bound has a greatest element.
LEMMA Greatest ==
  ASSUME NEW S, S \subseteq Nat, S # {}, NEW b \in Nat, \A n \in S : n <= b
  PROVE  \E n \in S : \A m \in S : m <= n
<1> DEFINE Above == {k \in Nat : \A m \in S : m <= k}
<1>1. PICK n \in Above : \A k \in Above : n <= k
  <2>1. b \in Above
    OBVIOUS
  <2> QED
    BY <2>1, Least
<1>2. n \in S
  <2> SUFFICES ASSUME n \notin S PROVE FALSE
    OBVIOUS
  <2>1. PICK s \in S : TRUE
    OBVIOUS
  <2>2. \A m \in S : m <= n - 1
    BY <1>1
  <2>3. n - 1 \in Above
    BY <2>1, <2>2, <1>1
  <2> QED
    BY <1>1, <2>3
<1> QED
  BY <1>1, <1>2

\* What the function in Those is for i, when it is f for less.
Grown(s, S, f, i) ==
  IF i = 0 THEN <<>>
  ELSE IF s[i] \in S THEN Append(f[i - 1], s[i]) ELSE f[i - 1]

\* The recursive definition in Those defines a function: there is one on every
\* prefix, since it extends the one on the prefix that is shorter by one.
LEMMA ThoseDefined ==
  ASSUME NEW C, NEW s \in Seq(C), NEW S
  PROVE  \E f : /\ \A i \in 0..Len(s) : f[i] = Grown(s, S, f, i)
                /\ Those(s, S) = f[Len(s)]
<1> DEFINE G == {n \in Nat : \E f : f = [i \in 0..n |-> Grown(s, S, f, i)]}
<1>1. 0 \in G
  <2> DEFINE f == [i \in 0..0 |-> <<>>]
  <2>1. f = [i \in 0..0 |-> Grown(s, S, f, i)]
    BY DEF Grown
  <2> HIDE DEF f
  <2> QED
    BY <2>1
<1>2. ASSUME NEW n \in G PROVE n + 1 \in G
  <2>1. PICK f : f = [i \in 0..n |-> Grown(s, S, f, i)]
    OBVIOUS
  <2>2. n \in Nat /\ \A i \in 0..n : f[i] = Grown(s, S, f, i)
    BY <2>1, Zenon
  <2> DEFINE g == [i \in 0..(n + 1) |-> IF i = n + 1 THEN Grown(s, S, f, n + 1) ELSE f[i]]
  <2>3. ASSUME NEW i \in 0..(n + 1) PROVE g[i] = Grown(s, S, g, i)
    <3>1. i # 0 => g[i - 1] = f[i - 1]
      BY <2>2
    <3>2. Grown(s, S, g, i) = Grown(s, S, f, i)
      <4> HIDE DEF g
      <4> QED
        BY <3>1 DEF Grown
    <3>3. g[i] = Grown(s, S, f, i)
      BY <2>2
    <3> QED
      BY <3>2, <3>3
  <2>4. g = [i \in 0..(n + 1) |-> g[i]]
    OBVIOUS
  <2> HIDE DEF g
  <2>5. g = [i \in 0..(n + 1) |-> Grown(s, S, g, i)]
    BY <2>3, <2>4
  <2> QED
    BY <2>2, <2>5
<1>3. Len(s) \in G
  <2>1. G \subseteq Nat
    OBVIOUS
  <2> HIDE DEF G
  <2>2. G = Nat
    BY <1>1, <1>2, <2>1, Induction
  <2> QED
    BY <2>2
<1>4. PICK f : f = [i \in 0..Len(s) |-> Grown(s, S, f, i)]
  BY <1>3
<1> DEFINE F == CHOOSE h : h = [i \in 0..Len(s) |-> Grown(s, S, h, i)]
<1>5. F = [i \in 0..Len(s) |-> Grown(s, S, F, i)]
  BY <1>4
<1>6. Those(s, S) = F[Len(s)]
  BY DEF Those, Grown
<1> HIDE DEF F
<1> QED
  BY <1>5, <1>6

\* The members of longer sequences.
LEMMA ToSetAppend ==
  ASSUME NEW C, NEW s \in Seq(C), NEW x \in C
  PROVE  ToSet(Append(s, x)) = ToSet(s) \cup {x}
<1>1. ASSUME NEW y \in ToSet(Append(s, x)) PROVE y \in ToSet(s) \cup {x}
  <2>1. PICK i \in 1..(Len(s) + 1) : y = Append(s, x)[i]
    BY DEF ToSet
  <2>2. CASE i = Len(s) + 1
    BY <2>1, <2>2
  <2>3. CASE i \in 1..Len(s)
    BY <2>1, <2>3 DEF ToSet
  <2> QED
    BY <2>2, <2>3
<1>2. ASSUME NEW y \in ToSet(s) PROVE y \in ToSet(Append(s, x))
  <2>1. PICK i \in 1..Len(s) : y = s[i]
    BY DEF ToSet
  <2>2. Append(s, x)[i] = y /\ i \in DOMAIN Append(s, x)
    BY <2>1
  <2> QED
    BY <2>2 DEF ToSet
<1>3. x \in ToSet(Append(s, x))
  <2>1. Append(s, x)[Len(s) + 1] = x /\ Len(s) + 1 \in DOMAIN Append(s, x)
    OBVIOUS
  <2> QED
    BY <2>1, Zenon DEF ToSet
<1> QED
  BY <1>1, <1>2, <1>3

LEMMA ToSetConcat ==
  ASSUME NEW C, NEW s \in Seq(C), NEW t \in Seq(C)
  PROVE  ToSet(s \o t) = ToSet(s) \cup ToSet(t)
<1>1. ASSUME NEW y \in ToSet(s \o t) PROVE y \in ToSet(s) \cup ToSet(t)
  <2>1. PICK i \in 1..(Len(s) + Len(t)) : y = (s \o t)[i]
    BY DEF ToSet
  <2>2. CASE i \in 1..Len(s)
    BY <2>1, <2>2 DEF ToSet
  <2>3. CASE i > Len(s)
    <3>1. i - Len(s) \in DOMAIN t /\ y = t[i - Len(s)]
      BY <2>1, <2>3
    <3> QED
      BY <3>1 DEF ToSet
  <2> QED
    BY <2>2, <2>3
<1>2. ASSUME NEW y \in ToSet(s) PROVE y \in ToSet(s \o t)
  <2>1. PICK i \in 1..Len(s) : y = s[i]
    BY DEF ToSet
  <2>2. (s \o t)[i] = y /\ i \in DOMAIN (s \o t)
    BY <2>1
  <2> QED
    BY <2>2 DEF ToSet
<1>3. ASSUME NEW y \in ToSet(t) PROVE y \in ToSet(s \o t)
  <2>1. PICK i \in 1..Len(t) : y = t[i]
    BY DEF ToSet
  <2>2. (s \o t)[i + Len(s)] = y /\ i + Len(s) \in DOMAIN (s \o t)
    BY <2>1
  <2> QED
    BY <2>2, Zenon DEF ToSet
<1> QED
  BY <1>1, <1>2, <1>3

\* A new member does not repeat another.
LEMMA InjectiveAppend ==
  ASSUME NEW C, NEW s \in Seq(C), NEW x \in C, IsInjective(s), x \notin ToSet(s)
  PROVE  IsInjective(Append(s, x))
<1> SUFFICES ASSUME NEW i \in 1..(Len(s) + 1), NEW j \in 1..(Len(s) + 1),
                    Append(s, x)[i] = Append(s, x)[j]
             PROVE  i = j
  BY DEF IsInjective
<1>1. \A k \in 1..Len(s) : s[k] # x
  BY DEF ToSet
<1>2. CASE i \in 1..Len(s) /\ j \in 1..Len(s)
  BY <1>2 DEF IsInjective
<1>3. CASE i = Len(s) + 1 \/ j = Len(s) + 1
  BY <1>1, <1>3
<1> QED
  BY <1>2, <1>3

\* What Those returns: the members in S, each once if each is once in s.
LEMMA ThoseProperties ==
  ASSUME NEW C, NEW s \in Seq(C), NEW S
  PROVE  /\ Those(s, S) \in Seq(C)
         /\ ToSet(Those(s, S)) = ToSet(s) \cap S
         /\ IsInjective(s) => IsInjective(Those(s, S))
<1>1. PICK f : /\ \A i \in 0..Len(s) : f[i] = Grown(s, S, f, i)
               /\ Those(s, S) = f[Len(s)]
  BY ThoseDefined
<1> DEFINE H(i) == /\ f[i] \in Seq(C)
                   /\ ToSet(f[i]) = {s[j] : j \in 1..i} \cap S
                   /\ IsInjective(s) => IsInjective(f[i])
           G == {n \in Nat : n <= Len(s) => H(n)}
<1>2. 0 \in G
  <2>1. f[0] = <<>>
    BY <1>1 DEF Grown
  <2>2. H(0)
    BY <2>1 DEF ToSet, IsInjective
  <2> QED
    BY <2>2
<1>3. ASSUME NEW n \in G PROVE n + 1 \in G
  <2> SUFFICES ASSUME n + 1 <= Len(s) PROVE H(n + 1)
    OBVIOUS
  <2>1. n \in Nat /\ n <= Len(s) /\ H(n)
    OBVIOUS
  <2>2. s[n + 1] \in C
    BY <2>1
  <2>3. {s[j] : j \in 1..(n + 1)} = {s[j] : j \in 1..n} \cup {s[n + 1]}
    <3>1. \A j : j \in 1..(n + 1) <=> j \in 1..n \/ j = n + 1
      BY <2>1
    <3> QED
      BY <3>1, Zenon
  <2>4. f[n + 1] = IF s[n + 1] \in S THEN Append(f[n], s[n + 1]) ELSE f[n]
    BY <1>1, <2>1 DEF Grown
  <2>5. CASE s[n + 1] \notin S
    BY <2>1, <2>3, <2>4, <2>5
  <2>6. CASE s[n + 1] \in S
    <3>1. f[n + 1] = Append(f[n], s[n + 1])
      BY <2>4, <2>6
    <3>2. ToSet(f[n + 1]) = ToSet(f[n]) \cup {s[n + 1]}
      BY <2>1, <2>2, <3>1, ToSetAppend
    <3>3. IsInjective(s) => s[n + 1] \notin ToSet(f[n])
      BY <2>1 DEF IsInjective
    <3>4. IsInjective(s) => IsInjective(f[n + 1])
      BY <2>1, <2>2, <3>1, <3>3, InjectiveAppend
    <3>5. f[n + 1] \in Seq(C)
      BY <2>1, <2>2, <3>1
    <3>6. ToSet(f[n + 1]) = {s[j] : j \in 1..(n + 1)} \cap S
      BY <2>1, <2>3, <2>6, <3>2
    <3> QED
      BY <3>4, <3>5, <3>6
  <2> QED
    BY <2>5, <2>6
<1>4. H(Len(s))
  <2> HIDE DEF H
  <2>1. G \subseteq Nat
    OBVIOUS
  <2>2. G = Nat
    <3> HIDE DEF G
    <3> QED
      BY <1>2, <1>3, <2>1, Induction
  <2>3. Len(s) \in Nat
    OBVIOUS
  <2> QED
    BY <2>2, <2>3
<1>5. ToSet(s) = {s[j] : j \in 1..Len(s)}
  BY DEF ToSet
<1> QED
  BY <1>1, <1>4, <1>5

-----------------------------------------------------------------------------
(* Messages *)

\* The messages there are: a tool message has one call.
Good == {m \in Messages : IsTool(m) => \E c \in Calls : m.calls = <<c>>}

\* The messages the loop makes are among them.
LEMMA ToolIsGood ==
  ASSUME NEW c \in Calls, NEW r \in Results
  PROVE  /\ Tool(c, r) \in Good /\ IsTool(Tool(c, r))
         /\ Tool(c, r).calls = <<c>> /\ Tool(c, r).calls[1] = c
         /\ Tool(c, r).result = r
<1>1. <<c>> \in Seq(Calls) /\ <<c>>[1] = c
  OBVIOUS
<1> QED
  BY <1>1 DEF Tool, Good, Messages, IsTool

LEMMA OthersAreGood ==
  ASSUME NEW cs \in Seq(Calls)
  PROVE  /\ Assistant(cs) \in Good /\ ~IsTool(Assistant(cs)) /\ Assistant(cs).calls = cs
         /\ User \in Good /\ ~IsTool(User) /\ User.calls = <<>>
         /\ Summary \in Good /\ ~IsTool(Summary) /\ Summary.calls = <<>>
<1>1. <<>> \in Seq(Calls) /\ None \in Results
  BY DEF Results
<1> QED
  BY <1>1 DEF Assistant, User, Summary, Good, Messages, IsTool

\* Both conversations are unions over their messages.
LEMMA AskedMembers ==
  ASSUME NEW ms, NEW c
  PROVE  /\ c \in Asked(ms) <=> \E m \in ToSet(ms) : ~IsTool(m) /\ c \in ToSet(m.calls)
         /\ c \in Answered(ms) <=> \E m \in ToSet(ms) : IsTool(m) /\ c = m.calls[1]
  BY Zenon DEF Asked, Answered, ToolMessages

\* A conversation that has the messages of two asks and answers what either does.
LEMMA UnionOfConversations ==
  ASSUME NEW ms, NEW ns, NEW us, ToSet(us) = ToSet(ms) \cup ToSet(ns)
  PROVE  /\ Asked(us) = Asked(ms) \cup Asked(ns)
         /\ Answered(us) = Answered(ms) \cup Answered(ns)
         /\ ToolMessages(us) = ToolMessages(ms) \cup ToolMessages(ns)
<1>1. \A c : c \in Asked(us) <=> c \in Asked(ms) \cup Asked(ns)
  BY AskedMembers, Zenon
<1>2. \A c : c \in Answered(us) <=> c \in Answered(ms) \cup Answered(ns)
  BY AskedMembers
<1>3. ToolMessages(us) = ToolMessages(ms) \cup ToolMessages(ns)
  BY DEF ToolMessages
<1> QED
  BY <1>1, <1>2, <1>3

LEMMA ConcatConversations ==
  ASSUME NEW ms \in Seq(Good), NEW ns \in Seq(Good)
  PROVE  /\ ms \o ns \in Seq(Good)
         /\ Asked(ms \o ns) = Asked(ms) \cup Asked(ns)
         /\ Answered(ms \o ns) = Answered(ms) \cup Answered(ns)
         /\ ToolMessages(ms \o ns) = ToolMessages(ms) \cup ToolMessages(ns)
  BY ToSetConcat, UnionOfConversations

\* t tells the calls of s, one after the other.
Tells(t, s) ==
  /\ t \in Seq(Good) /\ Len(t) = Len(s)
  /\ \A i \in DOMAIN t : IsTool(t[i]) /\ t[i].calls = <<s[i]>>

\* Such a conversation asks for nothing, and answers the calls it tells.
LEMMA TellsConversation ==
  ASSUME NEW s \in Seq(Calls), NEW t, Tells(t, s)
  PROVE  /\ Asked(t) = {} /\ Answered(t) = ToSet(s) /\ ToolMessages(t) = ToSet(t)
         /\ \A i \in DOMAIN t : t[i].calls[1] = s[i]
<1>1. DOMAIN t = DOMAIN s
  BY DEF Tells
<1>2. \A i \in DOMAIN t : IsTool(t[i]) /\ t[i].calls[1] = s[i]
  BY <1>1 DEF Tells
<1>3. \A m \in ToSet(t) : IsTool(m)
  BY <1>2 DEF ToSet
<1>4. \A c : c \in Answered(t) <=> c \in ToSet(s)
  <2> TAKE c
  <2>1. c \in Answered(t) <=> \E i \in DOMAIN t : c = t[i].calls[1]
    BY <1>2, AskedMembers DEF ToSet
  <2> QED
    BY <1>1, <1>2, <2>1 DEF ToSet
<1>5. Asked(t) = {}
  BY <1>3, AskedMembers
<1> QED
  BY <1>2, <1>3, <1>4, <1>5 DEF ToolMessages

\* A single result.
LEMMA TellsOne ==
  ASSUME NEW c \in Calls, NEW r \in Results
  PROVE  Tells(<<Tool(c, r)>>, <<c>>) /\ IsInjective(<<c>>) /\ ToSet(<<c>>) = {c}
         /\ ToSet(<<Tool(c, r)>>) = {Tool(c, r)}
  BY ToolIsGood DEF Tells, IsInjective, ToSet

\* A call has one result at most.
Unique(ms) ==
  \A i, j \in DOMAIN ms :
    IsTool(ms[i]) /\ IsTool(ms[j]) /\ ms[i].calls = ms[j].calls => i = j

\* What answers a call comes after every message that asks for it.
Ordered(ms) ==
  \A i, j \in DOMAIN ms :
    ~IsTool(ms[i]) /\ IsTool(ms[j]) /\ ms[j].calls[1] \in ToSet(ms[i].calls) => i < j

\* The results of calls asked for and not yet answered join a sound store.
Sound(ms) ==
  /\ ms \in Seq(Good)
  /\ Unique(ms) /\ Ordered(ms)
  /\ Answered(ms) \subseteq Asked(ms)

LEMMA TellStore ==
  ASSUME NEW ms, Sound(ms), NEW s \in Seq(Calls), NEW t, Tells(t, s),
         IsInjective(s), ToSet(s) \subseteq Asked(ms), ToSet(s) \cap Answered(ms) = {}
  PROVE  /\ Sound(ms \o t)
         /\ Asked(ms \o t) = Asked(ms)
         /\ Answered(ms \o t) = Answered(ms) \cup ToSet(s)
         /\ ToolMessages(ms \o t) = ToolMessages(ms) \cup ToSet(t)
         /\ Len(ms \o t) >= Len(ms)
<1>1. ms \in Seq(Good) /\ t \in Seq(Good) /\ Len(t) = Len(s)
  BY DEF Sound, Tells
<1>2. /\ Asked(ms \o t) = Asked(ms)
      /\ Answered(ms \o t) = Answered(ms) \cup ToSet(s)
      /\ ToolMessages(ms \o t) = ToolMessages(ms) \cup ToSet(t)
  <2>1. Asked(t) = {} /\ Answered(t) = ToSet(s) /\ ToolMessages(t) = ToSet(t)
    BY TellsConversation
  <2>2. /\ Asked(ms \o t) = Asked(ms) \cup Asked(t)
        /\ Answered(ms \o t) = Answered(ms) \cup Answered(t)
        /\ ToolMessages(ms \o t) = ToolMessages(ms) \cup ToolMessages(t)
    BY <1>1, ConcatConversations
  <2> QED
    BY <2>1, <2>2
<1> DEFINE u == ms \o t
<1>3. /\ u \in Seq(Good) /\ Len(u) = Len(ms) + Len(t) /\ DOMAIN u = 1..Len(u)
      /\ \A i \in 1..Len(ms) : u[i] = ms[i]
      /\ \A i \in 1..Len(u) : i > Len(ms) => u[i] = t[i - Len(ms)] /\ i - Len(ms) \in 1..Len(t)
  BY <1>1
<1>4. \A i \in 1..Len(u) : i > Len(ms) =>
         /\ IsTool(u[i]) /\ i - Len(ms) \in 1..Len(s)
         /\ u[i].calls = <<s[i - Len(ms)]>> /\ u[i].calls[1] = s[i - Len(ms)]
  BY <1>1, <1>3 DEF Tells
<1> HIDE DEF u
<1>5. \A i \in 1..Len(ms) : IsTool(ms[i]) =>
         /\ ms[i].calls[1] \in Answered(ms)
         /\ ms[i].calls = <<ms[i].calls[1]>>
  <2> TAKE i \in 1..Len(ms)
  <2>1. ms[i] \in ToSet(ms) /\ ms[i] \in Good
    BY <1>1 DEF ToSet
  <2>2. IsTool(ms[i]) => ms[i].calls[1] \in Answered(ms)
    BY <2>1, AskedMembers
  <2>3. IsTool(ms[i]) => ms[i].calls = <<ms[i].calls[1]>>
    BY <2>1 DEF Good
  <2> QED
    BY <2>2, <2>3
<1>6. \A k \in 1..Len(s) : s[k] \notin Answered(ms) /\ s[k] \in ToSet(s)
  BY DEF ToSet
<1>7. Unique(u)
  <2> SUFFICES ASSUME NEW i \in 1..Len(u), NEW j \in 1..Len(u), IsTool(u[i]), IsTool(u[j]),
                      u[i].calls = u[j].calls
               PROVE  i = j
    BY <1>3 DEF Unique
  <2>0. i \in Nat /\ j \in Nat /\ Len(ms) \in Nat
    BY <1>1, <1>3
  <2>1. CASE i <= Len(ms) /\ j <= Len(ms)
    <3>1. i \in 1..Len(ms) /\ j \in 1..Len(ms) /\ u[i] = ms[i] /\ u[j] = ms[j]
      BY <2>0, <2>1, <1>3
    <3>2. i \in DOMAIN ms /\ j \in DOMAIN ms /\ Unique(ms)
      BY <1>1, <3>1 DEF Sound
    <3> QED
      BY <3>1, <3>2 DEF Unique
  <2>2. CASE i > Len(ms) /\ j > Len(ms)
    <3>1. i - Len(ms) \in DOMAIN s /\ j - Len(ms) \in DOMAIN s
      BY <1>4, <2>2
    <3>2. s[i - Len(ms)] = s[j - Len(ms)]
      BY <1>4, <2>2
    <3>3. i - Len(ms) = j - Len(ms)
      BY <3>1, <3>2 DEF IsInjective
    <3> QED
      BY <3>3, <2>0
  <2>3. CASE i <= Len(ms) /\ j > Len(ms)
    <3>1. /\ u[i] = ms[i] /\ i \in 1..Len(ms)
          /\ u[j].calls[1] = s[j - Len(ms)] /\ j - Len(ms) \in 1..Len(s)
      BY <2>0, <1>3, <1>4, <2>3
    <3> QED
      BY <1>5, <1>6, <3>1
  <2>4. CASE i > Len(ms) /\ j <= Len(ms)
    <3>1. /\ u[j] = ms[j] /\ j \in 1..Len(ms)
          /\ u[i].calls[1] = s[i - Len(ms)] /\ i - Len(ms) \in 1..Len(s)
      BY <2>0, <1>3, <1>4, <2>4
    <3> QED
      BY <1>5, <1>6, <3>1
  <2> QED
    BY <2>0, <2>1, <2>2, <2>3, <2>4
<1>8. Ordered(u)
  <2> SUFFICES ASSUME NEW i \in 1..Len(u), NEW j \in 1..Len(u), ~IsTool(u[i]), IsTool(u[j]),
                      u[j].calls[1] \in ToSet(u[i].calls)
               PROVE  i < j
    BY <1>3 DEF Ordered
  <2>1. i <= Len(ms) /\ i \in Nat /\ j \in Nat /\ Len(ms) \in Nat
    BY <1>1, <1>3, <1>4
  <2>2. CASE j <= Len(ms)
    <3>1. i \in 1..Len(ms) /\ j \in 1..Len(ms) /\ u[i] = ms[i] /\ u[j] = ms[j]
      BY <2>1, <2>2, <1>3
    <3>2. i \in DOMAIN ms /\ j \in DOMAIN ms /\ Ordered(ms)
      BY <1>1, <3>1 DEF Sound
    <3> QED
      BY <3>1, <3>2 DEF Ordered
  <2>3. CASE j > Len(ms)
    BY <2>1, <2>3
  <2> QED
    BY <2>1, <2>2, <2>3
<1> QED
  BY <1>1, <1>2, <1>3, <1>7, <1>8 DEF Sound, u

\* So does a message that is no result and asks for new calls, or for none.
LEMMA AskStore ==
  ASSUME NEW ms, Sound(ms), NEW m \in Good, ~IsTool(m), ToSet(m.calls) \cap Asked(ms) = {}
  PROVE  /\ Sound(Append(ms, m))
         /\ Asked(Append(ms, m)) = Asked(ms) \cup ToSet(m.calls)
         /\ Answered(Append(ms, m)) = Answered(ms)
         /\ ToolMessages(Append(ms, m)) = ToolMessages(ms)
         /\ Len(Append(ms, m)) = Len(ms) + 1
<1> DEFINE u == Append(ms, m)
<1>1. ms \in Seq(Good) /\ u \in Seq(Good) /\ Len(u) = Len(ms) + 1
  BY DEF Sound
<1>2. ToSet(u) = ToSet(ms) \cup {m}
  BY <1>1, ToSetAppend
<1>3. Answered(u) = Answered(ms) /\ ToolMessages(u) = ToolMessages(ms)
  <2>1. ToolMessages(u) = ToolMessages(ms)
    BY <1>2 DEF ToolMessages
  <2> QED
    BY <2>1 DEF Answered
<1>4. Asked(u) = Asked(ms) \cup ToSet(m.calls)
  <2>1. \A c : c \in Asked(u) <=> c \in Asked(ms) \/ c \in ToSet(m.calls)
    BY <1>2, AskedMembers
  <2> QED
    BY <2>1
<1>5. (\A i \in 1..Len(ms) : u[i] = ms[i]) /\ u[Len(ms) + 1] = m
  BY <1>1
<1>6. Unique(u)
  <2> SUFFICES ASSUME NEW i \in 1..Len(u), NEW j \in 1..Len(u), IsTool(u[i]), IsTool(u[j]),
                      u[i].calls = u[j].calls
               PROVE  i = j
    BY <1>1 DEF Unique
  <2>1. i \in 1..Len(ms) /\ j \in 1..Len(ms)
    BY <1>1, <1>5
  <2> QED
    BY <1>1, <1>5, <2>1 DEF Sound, Unique
<1>7. Ordered(u)
  <2> SUFFICES ASSUME NEW i \in 1..Len(u), NEW j \in 1..Len(u), ~IsTool(u[i]), IsTool(u[j]),
                      u[j].calls[1] \in ToSet(u[i].calls)
               PROVE  i < j
    BY <1>1 DEF Ordered
  <2>1. j \in 1..Len(ms) /\ u[j] = ms[j]
    BY <1>1, <1>5
  <2>2. CASE i \in 1..Len(ms)
    BY <1>1, <1>5, <2>1, <2>2 DEF Sound, Ordered
  <2>3. CASE i = Len(ms) + 1
    <3>1. ms[j] \in ToSet(ms)
      BY <1>1, <2>1 DEF ToSet
    <3>2. ms[j].calls[1] \in Answered(ms)
      BY <2>1, <3>1, AskedMembers
    <3> QED
      BY <1>5, <2>1, <2>3, <3>2 DEF Sound
  <2> QED
    BY <1>1, <2>2, <2>3
<1> QED
  BY <1>1, <1>3, <1>4, <1>6, <1>7 DEF Sound

-----------------------------------------------------------------------------
(* The repair of a context *)

\* A conversation has finitely many orphans, so the repair can put them in an order.
LEMMA FiniteMembers ==
  ASSUME NEW C, NEW s \in Seq(C)
  PROVE  IsFiniteSet(ToSet(s))
<1>1. s \in [1..Len(s) -> ToSet(s)] /\ \A x \in ToSet(s) : \E i \in 1..Len(s) : s[i] = x
  BY DEF ToSet
<1>2. s \in Surjection(1..Len(s), ToSet(s))
  BY <1>1, Fun_IsSurj
<1>3. IsFiniteSet(1..Len(s))
  BY FS_Interval
<1> QED
  BY <1>2, <1>3, FS_Surjection

LEMMA FiniteOrphans ==
  ASSUME NEW ms \in Seq(Good)
  PROVE  IsFiniteSet(Orphans(ms)) /\ Orphans(ms) \subseteq Calls
<1> DEFINE M == {n \in ToSet(ms) : ~IsTool(n)}
           T == {ToSet(m.calls) : m \in M}
           f == [m \in M |-> ToSet(m.calls)]
<1>1. \A m \in M : m.calls \in Seq(Calls)
  BY DEF ToSet, Good, Messages
<1>2. IsFiniteSet(M)
  BY FiniteMembers, FS_Subset
<1>3. f \in Surjection(M, T)
  <2>1. f \in [M -> T] /\ \A x \in T : \E m \in M : f[m] = x
    OBVIOUS
  <2> HIDE DEF f, T, M
  <2> QED
    BY <2>1, Fun_IsSurj
<1>4. IsFiniteSet(T)
  <2> HIDE DEF f, T, M
  <2> QED
    BY <1>2, <1>3, FS_Surjection
<1>5. \A x \in T : IsFiniteSet(x) /\ x \subseteq Calls
  <2>1. ASSUME NEW m \in M PROVE IsFiniteSet(ToSet(m.calls)) /\ ToSet(m.calls) \subseteq Calls
    <3>1. m.calls \in Seq(Calls)
      BY <1>1
    <3> QED
      BY <3>1, FiniteMembers DEF ToSet
  <2> QED
    BY <2>1
<1>6. IsFiniteSet(UNION T)
  <2> HIDE DEF T
  <2> QED
    BY <1>4, <1>5, FS_UNION
<1>7. Asked(ms) = UNION T
  BY DEF Asked
<1>8. Asked(ms) \subseteq Calls
  BY <1>5, <1>7
<1>9. Orphans(ms) \in SUBSET Asked(ms)
  BY DEF Orphans
<1> HIDE DEF T
<1> QED
  BY <1>6, <1>7, <1>8, <1>9, FS_Subset

\* The order has each of them once.
LEMMA SetToSeqProperties ==
  ASSUME NEW S, IsFiniteSet(S)
  PROVE  /\ SetToSeq(S) \in Seq(S)
         /\ ToSet(SetToSeq(S)) = S
         /\ IsInjective(SetToSeq(S))
<1> DEFINE n == Cardinality(S)
           f == SetToSeq(S)
<1>1. n \in Nat /\ ExistsBijection(1..n, S)
  BY FS_CardinalityType
<1>2. PICK g : g \in Bijection(1..n, S)
  BY <1>1 DEF ExistsBijection
<1>3. g \in [1..n -> S] /\ IsInjective(g)
  <2>1. g \in [1..n -> S] /\ \A a, b \in 1..n : g[a] = g[b] => a = b
    BY <1>2, Fun_BijectionProperties
  <2> QED
    BY <2>1 DEF IsInjective
<1>4. f \in [1..n -> S] /\ IsInjective(f)
  BY <1>3 DEF SetToSeq
<1> HIDE DEF f
<1>5. f \in Injection(1..n, S)
  <2>1. \A a, b \in 1..n : f[a] = f[b] => a = b
    BY <1>4 DEF IsInjective
  <2> QED
    BY <1>4, <2>1, Fun_IsInj
<1>6. Cardinality(1..n) = n
  BY <1>1, FS_Interval
<1>7. f \in Surjection(1..n, S)
  BY <1>5, <1>6, FS_Injection
<1>8. \A x \in S : \E i \in 1..n : f[i] = x
  BY <1>7, Zenon DEF Surjection
<1>9. f \in Seq(S) /\ DOMAIN f = 1..n
  BY <1>1, <1>4
<1>10. ToSet(f) = S
  BY <1>4, <1>8, <1>9 DEF ToSet
<1> QED
  BY <1>4, <1>9, <1>10 DEF f

\* An answered call has a result in the context, and it is the call's.
LEMMA ResultInContext ==
  ASSUME NEW ms \in Seq(Good), NEW c \in Answered(ms)
  PROVE  /\ ResultIn(ms, c) \in ToSet(ms) /\ IsTool(ResultIn(ms, c))
         /\ ResultIn(ms, c).calls = <<c>>
<1> DEFINE S == {i \in DOMAIN ms : IsTool(ms[i]) /\ ms[i].calls[1] = c}
<1>1. S # {}
  <2>1. PICK m \in ToSet(ms) : IsTool(m) /\ c = m.calls[1]
    BY AskedMembers
  <2>2. PICK i \in DOMAIN ms : m = ms[i]
    BY DEF ToSet
  <2> QED
    BY <2>1, <2>2
<1>2. S \subseteq Nat /\ \A i \in S : i <= Len(ms)
  OBVIOUS
<1>3. PICK k \in S : \A j \in S : j <= k
  <2>1. Len(ms) \in Nat
    OBVIOUS
  <2> HIDE DEF S
  <2> QED
    BY <1>1, <1>2, <2>1, Greatest
<1>4. \E i \in DOMAIN ms :
        /\ IsTool(ms[i]) /\ ms[i].calls[1] = c
        /\ \A j \in DOMAIN ms : j > i => ~(IsTool(ms[j]) /\ ms[j].calls[1] = c)
  <2>1. ASSUME NEW j \in DOMAIN ms, j > k PROVE ~(IsTool(ms[j]) /\ ms[j].calls[1] = c)
    BY <1>3, <2>1
  <2> QED
    BY <2>1
<1>5. PICK i \in DOMAIN ms : IsTool(ms[i]) /\ ms[i].calls[1] = c /\ ResultIn(ms, c) = ms[i]
  BY <1>4 DEF ResultIn
<1>6. ms[i] \in Good /\ ms[i] \in ToSet(ms)
  BY DEF ToSet
<1>7. PICK d \in Calls : ms[i].calls = <<d>>
  BY <1>5, <1>6 DEF Good
<1> QED
  BY <1>5, <1>6, <1>7

\* Well-formed conversations can be joined.
LEMMA WellFormedConcat ==
  ASSUME NEW ms \in Seq(Good), NEW ns \in Seq(Good), WellFormed(ms), WellFormed(ns)
  PROVE  WellFormed(ms \o ns)
<1> DEFINE u == ms \o ns
           L == Len(ms)
<1>1. /\ L \in Nat /\ Len(ns) \in Nat /\ Len(u) = L + Len(ns) /\ DOMAIN u = 1..Len(u)
      /\ \A i \in 1..L : u[i] = ms[i]
      /\ \A i \in 1..Len(ns) : u[L + i] = ns[i]
  OBVIOUS
<1>2. \A m \in Good : m.calls \in Seq(Calls) /\ Len(m.calls) \in Nat
  BY DEF Good, Messages
<1>3. \A i \in 1..L : ms[i] \in Good
  OBVIOUS
<1>4. \A i \in 1..Len(ns) : ns[i] \in Good
  OBVIOUS
<1> HIDE DEF u
<1>5. ASSUME NEW i \in 1..L
      PROVE  /\ ~IsTool(u[i]) =>
                  \A j \in 1..Len(u[i].calls) :
                     /\ i + j <= Len(u)
                     /\ IsTool(u[i + j]) /\ u[i + j].calls = <<u[i].calls[j]>>
             /\ IsTool(u[i]) =>
                  \E k \in 1..(i - 1) : ~IsTool(u[k]) /\ i <= k + Len(u[k].calls)
  <2>1. i \in DOMAIN ms /\ u[i] = ms[i] /\ i \in Nat
    BY <1>1
  <2>2. ASSUME ~IsTool(u[i]), NEW j \in 1..Len(u[i].calls)
        PROVE  i + j <= Len(u) /\ IsTool(u[i + j]) /\ u[i + j].calls = <<u[i].calls[j]>>
    <3>1. i + j <= L /\ IsTool(ms[i + j]) /\ ms[i + j].calls = <<ms[i].calls[j]>>
      BY <2>1, <2>2 DEF WellFormed
    <3>2. j \in Nat /\ j > 0
      BY <2>1, <1>2, <1>3
    <3>3. i + j \in 1..L
      BY <2>1, <3>1, <3>2, <1>1
    <3>4. u[i + j] = ms[i + j] /\ i + j <= Len(u)
      BY <1>1, <3>3
    <3> QED
      BY <2>1, <3>1, <3>4
  <2>3. ASSUME IsTool(u[i])
        PROVE  \E k \in 1..(i - 1) : ~IsTool(u[k]) /\ i <= k + Len(u[k].calls)
    <3>1. PICK k \in 1..(i - 1) : ~IsTool(ms[k]) /\ i <= k + Len(ms[k].calls)
      BY <2>1, <2>3 DEF WellFormed
    <3>2. u[k] = ms[k]
      BY <1>1, <2>1
    <3> QED
      BY <3>1, <3>2
  <2> QED
    BY <2>2, <2>3
<1>6. ASSUME NEW h \in 1..Len(ns)
      PROVE  /\ ~IsTool(u[L + h]) =>
                  \A j \in 1..Len(u[L + h].calls) :
                     /\ L + h + j <= Len(u)
                     /\ IsTool(u[L + h + j]) /\ u[L + h + j].calls = <<u[L + h].calls[j]>>
             /\ IsTool(u[L + h]) =>
                  \E k \in 1..(L + h - 1) : ~IsTool(u[k]) /\ L + h <= k + Len(u[k].calls)
  <2>1. h \in DOMAIN ns /\ u[L + h] = ns[h] /\ h \in Nat
    BY <1>1
  <2>2. ASSUME ~IsTool(u[L + h]), NEW j \in 1..Len(u[L + h].calls)
        PROVE  /\ L + h + j <= Len(u) /\ IsTool(u[L + h + j])
               /\ u[L + h + j].calls = <<u[L + h].calls[j]>>
    <3>1. h + j <= Len(ns) /\ IsTool(ns[h + j]) /\ ns[h + j].calls = <<ns[h].calls[j]>>
      BY <2>1, <2>2 DEF WellFormed
    <3>2. j \in Nat /\ j > 0
      BY <2>1, <1>2, <1>4
    <3>3. h + j \in 1..Len(ns)
      BY <2>1, <3>1, <3>2, <1>1
    <3>4. u[L + (h + j)] = ns[h + j]
      BY <1>1, <3>3
    <3>5. L + (h + j) = L + h + j /\ L + h + j <= Len(u)
      BY <1>1, <2>1, <3>2, <3>3
    <3> QED
      BY <2>1, <3>1, <3>4, <3>5
  <2>3. ASSUME IsTool(u[L + h])
        PROVE  \E k \in 1..(L + h - 1) : ~IsTool(u[k]) /\ L + h <= k + Len(u[k].calls)
    <3>1. PICK k \in 1..(h - 1) : ~IsTool(ns[k]) /\ h <= k + Len(ns[k].calls)
      BY <2>1, <2>3 DEF WellFormed
    <3>2. k \in 1..Len(ns) /\ u[L + k] = ns[k] /\ Len(ns[k].calls) \in Nat /\ k \in Nat
      BY <1>1, <1>2, <1>4, <2>1
    <3> DEFINE room == Len(ns[k].calls)
    <3>3. h <= k + room /\ room \in Nat
      BY <3>1, <3>2
    <3> HIDE DEF room
    <3>4. L + k \in 1..(L + h - 1) /\ L + h <= (L + k) + room
      BY <1>1, <2>1, <3>2, <3>3
    <3>5. ~IsTool(u[L + k]) /\ room = Len(u[L + k].calls)
      BY <3>1, <3>2 DEF room
    <3> QED
      BY <3>4, <3>5
  <2> QED
    BY <2>2, <2>3
<1>7. ASSUME NEW i \in 1..Len(u), i \notin 1..L PROVE \E h \in 1..Len(ns) : i = L + h
  <2>1. i - L \in 1..Len(ns) /\ i = L + (i - L)
    BY <1>1, <1>7
  <2> QED
    BY <2>1
<1>8. WellFormed(u)
  <2> SUFFICES ASSUME NEW i \in 1..Len(u)
               PROVE  /\ ~IsTool(u[i]) =>
                           \A j \in 1..Len(u[i].calls) :
                             /\ i + j <= Len(u)
                             /\ IsTool(u[i + j]) /\ u[i + j].calls = <<u[i].calls[j]>>
                      /\ IsTool(u[i]) =>
                           \E k \in 1..(i - 1) : ~IsTool(u[k]) /\ i <= k + Len(u[k].calls)
    BY <1>1 DEF WellFormed
  <2>1. CASE i \in 1..L
    BY <1>5, <2>1
  <2>2. CASE i \notin 1..L
    <3>1. PICK h \in 1..Len(ns) : i = L + h
      BY <1>7, <2>2
    <3> QED
      BY SMTT(30), <1>6, <3>1
  <2> QED
    BY <2>1, <2>2
<1> QED
  BY <1>8 DEF u

\* FlattenSeq is defined by a recursive function, too.
Joined(q, f, i) == IF i = 1 THEN q[i] ELSE f[i - 1] \o q[i]

\* Its definition defines a function, as the one in Those does.
LEMMA FlattenDefined ==
  ASSUME NEW C, NEW q \in Seq(Seq(C)), Len(q) # 0
  PROVE  \E f : /\ \A i \in 1..Len(q) : f[i] = Joined(q, f, i)
                /\ FlattenSeq(q) = f[Len(q)]
<1> DEFINE G == {n \in Nat : \E f : f = [i \in 1..n |-> Joined(q, f, i)]}
<1>1. 0 \in G
  <2> DEFINE f == [i \in 1..0 |-> <<>>]
  <2>1. f = [i \in 1..0 |-> Joined(q, f, i)]
    OBVIOUS
  <2> HIDE DEF f
  <2> QED
    BY <2>1
<1>2. ASSUME NEW n \in G PROVE n + 1 \in G
  <2>1. PICK f : f = [i \in 1..n |-> Joined(q, f, i)]
    OBVIOUS
  <2>2. n \in Nat /\ \A i \in 1..n : f[i] = Joined(q, f, i)
    BY <2>1, Zenon
  <2> DEFINE g == [i \in 1..(n + 1) |-> IF i = n + 1 THEN Joined(q, f, n + 1) ELSE f[i]]
  <2>3. ASSUME NEW i \in 1..(n + 1) PROVE g[i] = Joined(q, g, i)
    <3>1. i # 1 => g[i - 1] = f[i - 1]
      BY <2>2
    <3>2. Joined(q, g, i) = Joined(q, f, i)
      <4> HIDE DEF g
      <4> QED
        BY <3>1 DEF Joined
    <3>3. g[i] = Joined(q, f, i)
      BY <2>2
    <3> QED
      BY <3>2, <3>3
  <2>4. g = [i \in 1..(n + 1) |-> g[i]]
    OBVIOUS
  <2> HIDE DEF g
  <2>5. g = [i \in 1..(n + 1) |-> Joined(q, g, i)]
    BY <2>3, <2>4
  <2> QED
    BY <2>2, <2>5
<1>3. Len(q) \in G
  <2>1. G \subseteq Nat
    OBVIOUS
  <2> HIDE DEF G
  <2>2. G = Nat
    BY <1>1, <1>2, <2>1, Induction
  <2> QED
    BY <2>2
<1>4. PICK f : f = [i \in 1..Len(q) |-> Joined(q, f, i)]
  BY <1>3
<1> DEFINE F == CHOOSE h : h = [i \in 1..Len(q) |-> Joined(q, h, i)]
<1>5. F = [i \in 1..Len(q) |-> Joined(q, F, i)]
  BY <1>4
<1>6. FlattenSeq(q) = F[Len(q)]
  BY DEF FlattenSeq, Joined
<1>7. \A i \in 1..Len(q) : F[i] = Joined(q, F, i)
  <2> HIDE DEF F
  <2> QED
    BY <1>5, Zenon
<1> HIDE DEF F
<1> QED
  BY <1>6, <1>7

\* A sequence of well-formed conversations joins into one, of the same messages.
LEMMA FlattenWellFormed ==
  ASSUME NEW q \in Seq(Seq(Good)), \A i \in DOMAIN q : WellFormed(q[i])
  PROVE  /\ FlattenSeq(q) \in Seq(Good)
         /\ WellFormed(FlattenSeq(q))
         /\ ToSet(FlattenSeq(q)) = UNION {ToSet(q[i]) : i \in DOMAIN q}
<1>1. CASE Len(q) = 0
  <2>1. FlattenSeq(q) = <<>> /\ q = <<>>
    BY <1>1 DEF FlattenSeq
  <2> QED
    BY <2>1 DEF WellFormed, ToSet
<1>2. CASE Len(q) # 0
  <2>1. PICK f : /\ \A i \in 1..Len(q) : f[i] = Joined(q, f, i)
                 /\ FlattenSeq(q) = f[Len(q)]
    BY <1>2, FlattenDefined
  <2> DEFINE All(n) == UNION {ToSet(q[i]) : i \in 1..n}
             H(n)   == f[n] \in Seq(Good) /\ WellFormed(f[n]) /\ ToSet(f[n]) = All(n)
             G      == {n \in Nat : n + 1 <= Len(q) => H(n + 1)}
  <2>2. \A n \in 1..Len(q) : q[n] \in Seq(Good) /\ WellFormed(q[n])
    OBVIOUS
  <2>3. 0 \in G
    <3>1. f[1] = q[1] /\ 1 \in 1..Len(q)
      BY <1>2, <2>1 DEF Joined
    <3>2. All(1) = ToSet(q[1])
      <4>1. \A i : i \in 1..1 <=> i = 1
        OBVIOUS
      <4> QED
        BY <4>1
    <3>3. H(1)
      BY <2>2, <3>1, <3>2
    <3> HIDE DEF H
    <3> QED
      BY <3>3
  <2>4. ASSUME NEW n \in G PROVE n + 1 \in G
    <3> SUFFICES ASSUME (n + 1) + 1 <= Len(q) PROVE H((n + 1) + 1)
      OBVIOUS
    <3>1. n \in Nat /\ n + 1 <= Len(q) /\ H(n + 1) /\ (n + 1) + 1 \in 1..Len(q)
      <4> HIDE DEF H
      <4> QED
        OBVIOUS
    <3> DEFINE k == n + 1
    <3>2. f[k + 1] = f[k] \o q[k + 1]
      <4>1. k + 1 # 1 /\ (k + 1) - 1 = k /\ k + 1 \in 1..Len(q)
        BY <3>1
      <4> HIDE DEF k
      <4>2. f[k + 1] = Joined(q, f, k + 1)
        BY <2>1, <4>1
      <4> QED
        BY <4>1, <4>2 DEF Joined
    <3>3. q[k + 1] \in Seq(Good) /\ WellFormed(q[k + 1])
      BY <2>2, <3>1
    <3>4. f[k + 1] \in Seq(Good) /\ WellFormed(f[k + 1])
      BY <3>1, <3>2, <3>3, WellFormedConcat
    <3>5. ToSet(f[k + 1]) = All(k) \cup ToSet(q[k + 1])
      BY <3>1, <3>2, <3>3, ToSetConcat
    <3>6. All(k + 1) = All(k) \cup ToSet(q[k + 1])
      <4>1. \A i : i \in 1..(k + 1) <=> i \in 1..k \/ i = k + 1
        BY <3>1
      <4> HIDE DEF k
      <4> QED
        BY <4>1, Zenon
    <3> QED
      BY <3>4, <3>5, <3>6
  <2>5. Len(q) - 1 \in G
    <3>1. G \subseteq Nat
      OBVIOUS
    <3> HIDE DEF G
    <3>2. G = Nat
      BY <2>3, <2>4, <3>1, Induction
    <3> QED
      BY <1>2, <3>2
  <2>6. H(Len(q))
    <3>1. (Len(q) - 1) + 1 = Len(q) /\ Len(q) \in Nat
      OBVIOUS
    <3> HIDE DEF H
    <3> QED
      BY <2>5, <3>1
  <2>7. DOMAIN q = 1..Len(q)
    OBVIOUS
  <2> QED
    BY <2>1, <2>6, <2>7
<1> QED
  BY <1>1, <1>2

\* What _fix_orphaned_tool_calls makes of a context.
LEMMA FixedProperties ==
  ASSUME NEW ms \in Seq(Good)
  PROVE  /\ Fixed(ms) \in Seq(Good) /\ WellFormed(Fixed(ms))
         /\ Asked(Fixed(ms)) = Asked(ms) /\ Answered(Fixed(ms)) = Asked(ms)
         /\ ToolMessages(Fixed(ms)) \subseteq
              ToolMessages(ms) \cup {Tool(c, "interrupted") : c \in Orphans(ms)}
<1> DEFINE told(c) == IF c \in Orphans(ms) THEN Tool(c, "interrupted") ELSE ResultIn(ms, c)
           rest    == Those(ms, {m \in ToSet(ms) : ~IsTool(m)})
           tail(i) == [j \in DOMAIN rest[i].calls |-> told(rest[i].calls[j])]
           q       == [i \in DOMAIN rest |-> <<rest[i]>> \o tail(i)]
<1>1. Fixed(ms) = FlattenSeq(q)
  BY DEF Fixed
<1>2. /\ rest \in Seq(Good)
      /\ ToSet(rest) = {m \in ToSet(ms) : ~IsTool(m)}
  <2>1. /\ rest \in Seq(Good)
        /\ ToSet(rest) = ToSet(ms) \cap {m \in ToSet(ms) : ~IsTool(m)}
    BY ThoseProperties
  <2> QED
    BY <2>1
<1>3. ASSUME NEW c \in Asked(ms)
      PROVE  /\ told(c) \in Good /\ IsTool(told(c)) /\ told(c).calls = <<c>>
             /\ told(c) \in ToolMessages(ms) \cup {Tool(d, "interrupted") : d \in Orphans(ms)}
  <2>1. CASE c \in Orphans(ms)
    <3>1. c \in Calls /\ "interrupted" \in Results
      BY <2>1, FiniteOrphans DEF Results
    <3> QED
      BY <2>1, <3>1, ToolIsGood
  <2>2. CASE c \notin Orphans(ms)
    <3>1. c \in Answered(ms)
      BY <2>2 DEF Orphans
    <3>2. /\ ResultIn(ms, c) \in ToSet(ms) /\ IsTool(ResultIn(ms, c))
          /\ ResultIn(ms, c).calls = <<c>>
      BY <3>1, ResultInContext
    <3>3. ResultIn(ms, c) \in Good
      BY <3>2 DEF ToSet
    <3> QED
      BY <2>2, <3>2, <3>3 DEF ToolMessages
  <2> QED
    BY <2>1, <2>2
<1> HIDE DEF told
<1>4. ASSUME NEW i \in DOMAIN rest
      PROVE  /\ rest[i] \in ToSet(ms) /\ ~IsTool(rest[i]) /\ rest[i] \in Good
             /\ rest[i].calls \in Seq(Calls) /\ ToSet(rest[i].calls) \subseteq Asked(ms)
  <2>1. rest[i] \in ToSet(rest)
    BY DEF ToSet
  <2>2. rest[i] \in ToSet(ms) /\ ~IsTool(rest[i]) /\ rest[i] \in Good
    BY <1>2, <2>1
  <2>3. rest[i].calls \in Seq(Calls)
    BY <2>2 DEF Good, Messages
  <2>4. ToSet(rest[i].calls) \subseteq Asked(ms)
    BY <2>2, AskedMembers
  <2> QED
    BY <2>2, <2>3, <2>4
<1> HIDE DEF rest
<1>5. ASSUME NEW i \in DOMAIN rest
      PROVE  /\ Tells(tail(i), rest[i].calls)
             /\ ToSet(tail(i)) = {told(c) : c \in ToSet(rest[i].calls)}
  <2> DEFINE cs == rest[i].calls
  <2>1. cs \in Seq(Calls) /\ ToSet(cs) \subseteq Asked(ms)
    BY <1>4
  <2> HIDE DEF cs
  <2>2. \A j \in DOMAIN cs : told(cs[j]) \in Good /\ IsTool(told(cs[j]))
                             /\ told(cs[j]).calls = <<cs[j]>>
    BY <1>3, <2>1 DEF ToSet
  <2> DEFINE t == [j \in DOMAIN cs |-> told(cs[j])]
  <2>3. t \in Seq(Good) /\ Len(t) = Len(cs) /\ DOMAIN t = DOMAIN cs
    BY <2>1, <2>2
  <2>4. Tells(t, cs)
    BY <2>2, <2>3 DEF Tells
  <2>5. ToSet(t) = {told(c) : c \in ToSet(cs)}
    BY DEF ToSet
  <2> QED
    BY <2>4, <2>5 DEF cs
<1>6. ASSUME NEW i \in DOMAIN rest
      PROVE  /\ q[i] \in Seq(Good) /\ WellFormed(q[i])
             /\ ToSet(q[i]) = {rest[i]} \cup {told(c) : c \in ToSet(rest[i].calls)}
  <2> DEFINE m == rest[i]
             cs == m.calls
             t == tail(i)
  <2>1. m \in Good /\ ~IsTool(m) /\ cs \in Seq(Calls)
    BY <1>4
  <2>2. Tells(t, cs)
    BY <1>5
  <2>3. q[i] = <<m>> \o t
    OBVIOUS
  <2> HIDE DEF t, m
  <2> DEFINE u == <<m>> \o t
  <2>4. /\ t \in Seq(Good) /\ Len(t) = Len(cs) /\ DOMAIN t = 1..Len(cs) /\ Len(cs) \in Nat
        /\ \A j \in 1..Len(cs) : IsTool(t[j]) /\ t[j].calls = <<cs[j]>>
    BY <2>1, <2>2 DEF Tells
  <2>5. /\ u \in Seq(Good) /\ DOMAIN u = 1..(Len(cs) + 1) /\ Len(u) = Len(cs) + 1 /\ u[1] = m
        /\ \A j \in 1..Len(cs) : u[1 + j] = t[j]
    BY <2>1, <2>4
  <2>6. ToSet(u) = {m} \cup ToSet(t)
    <3> DEFINE first == <<m>>
    <3>1. first \in Seq(Good) /\ ToSet(first) = {m}
      BY <2>1 DEF ToSet
    <3> HIDE DEF first
    <3>2. ToSet(first \o t) = ToSet(first) \cup ToSet(t)
      BY <2>4, <3>1, ToSetConcat
    <3> QED
      BY <3>1, <3>2 DEF first
  <2> HIDE DEF u
  <2>7. \A h \in 2..(Len(cs) + 1) : IsTool(u[h])
    <3> TAKE h \in 2..(Len(cs) + 1)
    <3>1. h - 1 \in 1..Len(cs) /\ 1 + (h - 1) = h
      BY <2>4
    <3> QED
      BY <2>4, <2>5, <3>1
  <2>8. WellFormed(u)
    <3> SUFFICES ASSUME NEW h \in 1..(Len(cs) + 1)
                 PROVE  /\ ~IsTool(u[h]) =>
                             \A j \in 1..Len(u[h].calls) :
                               /\ h + j <= Len(u)
                               /\ IsTool(u[h + j]) /\ u[h + j].calls = <<u[h].calls[j]>>
                        /\ IsTool(u[h]) =>
                             \E k \in 1..(h - 1) : ~IsTool(u[k]) /\ h <= k + Len(u[k].calls)
      BY <2>5 DEF WellFormed
    <3>1. CASE h = 1
      BY <2>1, <2>4, <2>5, <3>1
    <3>2. CASE h # 1
      <4>1. IsTool(u[h]) /\ 1 \in 1..(h - 1) /\ h <= 1 + Len(cs)
        BY <2>4, <2>7, <3>2
      <4> QED
        BY <2>1, <2>5, <4>1
    <3> QED
      BY <3>1, <3>2
  <2>9. ToSet(t) = {told(c) : c \in ToSet(cs)}
    BY <1>5 DEF t, m
  <2> QED
    BY <2>3, <2>5, <2>6, <2>8, <2>9 DEF u, m
<1>7. q \in Seq(Seq(Good)) /\ DOMAIN q = DOMAIN rest
  <2>1. DOMAIN rest = 1..Len(rest) /\ Len(rest) \in Nat
    BY <1>2
  <2>2. \A i \in DOMAIN rest : q[i] \in Seq(Good)
    BY <1>6
  <2>3. q = [i \in DOMAIN rest |-> q[i]]
    OBVIOUS
  <2> HIDE DEF q
  <2>4. q \in [1..Len(rest) -> Seq(Good)]
    BY <2>1, <2>2, <2>3
  <2> QED
    BY <2>1, <2>4
<1> HIDE DEF q
<1>8. /\ Fixed(ms) \in Seq(Good) /\ WellFormed(Fixed(ms))
      /\ ToSet(Fixed(ms)) = UNION {ToSet(q[i]) : i \in DOMAIN q}
  BY <1>1, <1>6, <1>7, FlattenWellFormed
\* The messages of the repaired context are the old ones that are no results, and
\* one result for each call.
<1>9. \A m : m \in ToSet(Fixed(ms)) <=>
         (m \in ToSet(ms) /\ ~IsTool(m)) \/ \E c \in Asked(ms) : m = told(c)
  <2> TAKE m
  <2>1. m \in ToSet(Fixed(ms)) <=>
          \E i \in DOMAIN rest : m = rest[i] \/ \E c \in ToSet(rest[i].calls) : m = told(c)
    BY <1>6, <1>7, <1>8
  <2>2. m \in ToSet(ms) /\ ~IsTool(m) <=> \E i \in DOMAIN rest : m = rest[i]
    BY <1>2 DEF ToSet
  <2>3. ASSUME NEW c
        PROVE  c \in Asked(ms) <=> \E i \in DOMAIN rest : c \in ToSet(rest[i].calls)
    <3>1. c \in Asked(ms) <=> \E n \in {n \in ToSet(ms) : ~IsTool(n)} : c \in ToSet(n.calls)
      BY AskedMembers
    <3>2. c \in Asked(ms) <=> \E n \in ToSet(rest) : c \in ToSet(n.calls)
      BY <1>2, <3>1
    <3>3. ToSet(rest) = {rest[i] : i \in DOMAIN rest}
      BY DEF ToSet
    <3> QED
      BY <3>2, <3>3
  <2> QED
    BY <2>1, <2>2, <2>3
<1>10. Asked(Fixed(ms)) = Asked(ms)
  <2> SUFFICES ASSUME NEW c PROVE c \in Asked(Fixed(ms)) <=> c \in Asked(ms)
    OBVIOUS
  <2>1. c \in Asked(Fixed(ms)) <=>
          \E m \in ToSet(Fixed(ms)) : ~IsTool(m) /\ c \in ToSet(m.calls)
    BY AskedMembers
  <2>2. c \in Asked(ms) <=> \E m \in ToSet(ms) : ~IsTool(m) /\ c \in ToSet(m.calls)
    BY AskedMembers
  <2> QED
    BY <1>3, <1>9, <2>1, <2>2
<1>11. Answered(Fixed(ms)) = Asked(ms)
  <2> SUFFICES ASSUME NEW c PROVE c \in Answered(Fixed(ms)) <=> c \in Asked(ms)
    OBVIOUS
  <2>1. c \in Answered(Fixed(ms)) <=> \E m \in ToSet(Fixed(ms)) : IsTool(m) /\ c = m.calls[1]
    BY AskedMembers
  <2>2. \A d \in Asked(ms) : IsTool(told(d)) /\ told(d).calls[1] = d
    BY <1>3
  <2> QED
    BY <1>9, <2>1, <2>2
<1>12. ToolMessages(Fixed(ms)) \subseteq
         ToolMessages(ms) \cup {Tool(c, "interrupted") : c \in Orphans(ms)}
  <2> SUFFICES ASSUME NEW m \in ToSet(Fixed(ms)), IsTool(m)
               PROVE  m \in ToolMessages(ms) \cup {Tool(c, "interrupted") : c \in Orphans(ms)}
    BY DEF ToolMessages
  <2>1. PICK c \in Asked(ms) : m = told(c)
    BY <1>9
  <2> QED
    BY <1>3, <2>1
<1> QED
  BY <1>8, <1>10, <1>11, <1>12

\* The conversation of a new session, and the context between turns.
LEMMA EmptyConversation ==
  /\ <<>> \in Seq(Good) /\ Asked(<<>>) = {} /\ Answered(<<>>) = {} /\ ToolMessages(<<>>) = {}
  /\ Sound(<<>>)
<1>1. <<>> \in Seq(Good) /\ ToSet(<<>>) = {} /\ DOMAIN <<>> = {}
  BY DEF ToSet
<1>2. Asked(<<>>) = {} /\ Answered(<<>>) = {}
  BY <1>1, AskedMembers
<1>3. ToolMessages(<<>>) = {}
  BY <1>1 DEF ToolMessages
<1> QED
  BY <1>1, <1>2, <1>3 DEF Sound, Unique, Ordered

\* One result for all the calls of s.
LEMMA TellsAll ==
  ASSUME NEW s \in Seq(Calls), NEW r \in Results
  PROVE  LET t == [i \in DOMAIN s |-> Tool(s[i], r)]
         IN  Tells(t, s) /\ ToSet(t) = {Tool(c, r) : c \in ToSet(s)}
<1> DEFINE t == [i \in DOMAIN s |-> Tool(s[i], r)]
<1>1. \A i \in DOMAIN s : Tool(s[i], r) \in Good /\ IsTool(Tool(s[i], r))
                          /\ Tool(s[i], r).calls = <<s[i]>>
  BY ToolIsGood
<1>2. t \in Seq(Good) /\ Len(t) = Len(s) /\ DOMAIN t = DOMAIN s
  BY <1>1
<1>3. Tells(t, s)
  BY <1>1, <1>2 DEF Tells
<1>4. ToSet(t) = {Tool(c, r) : c \in ToSet(s)}
  BY DEF ToSet
<1> QED
  BY <1>3, <1>4

\* Told gives the results of the calls that have one.
LEMMA ToldProperties ==
  ASSUME NEW cs \in Seq(Calls), IsInjective(cs), NEW res \in [Calls -> Results]
  PROVE  \E s \in Seq(Calls) :
           /\ IsInjective(s) /\ ToSet(s) = {c \in ToSet(cs) : res[c] # None}
           /\ Tells(Told(cs, res), s)
           /\ ToSet(Told(cs, res)) = {Tool(c, res[c]) : c \in ToSet(s)}
<1> DEFINE s == Those(cs, {c \in Calls : res[c] # None})
           t == [i \in DOMAIN s |-> Tool(s[i], res[s[i]])]
<1>1. /\ s \in Seq(Calls) /\ IsInjective(s)
      /\ ToSet(s) = ToSet(cs) \cap {c \in Calls : res[c] # None}
  BY ThoseProperties
<1>2. ToSet(cs) \subseteq Calls
  BY DEF ToSet
<1>3. Told(cs, res) = t
  BY DEF Told
<1> HIDE DEF s
<1>4. \A i \in DOMAIN s : Tool(s[i], res[s[i]]) \in Good /\ IsTool(Tool(s[i], res[s[i]]))
                          /\ Tool(s[i], res[s[i]]).calls = <<s[i]>>
  BY <1>1, ToolIsGood
<1>5. t \in Seq(Good) /\ Len(t) = Len(s) /\ DOMAIN t = DOMAIN s
  BY <1>1, <1>4
<1>6. Tells(t, s)
  BY <1>4, <1>5 DEF Tells
<1>7. ToSet(t) = {Tool(c, res[c]) : c \in ToSet(s)}
  BY DEF ToSet
<1> QED
  BY <1>1, <1>2, <1>3, <1>6, <1>7

\* What a context built from the store lacks, the store lacks, too: a result comes
\* after its call, so the boundary does not part them that way.
LEMMA VisibleProperties ==
  ASSUME NEW ms, Sound(ms), NEW b \in 0..Len(ms)
  PROVE  /\ Visible(ms, b) \in Seq(Good)
         /\ Asked(Visible(ms, b)) \subseteq Asked(ms)
         /\ Answered(Visible(ms, b)) \subseteq Answered(ms)
         /\ ToolMessages(Visible(ms, b)) \subseteq ToolMessages(ms)
         /\ Asked(Visible(ms, b)) \cap Answered(ms) \subseteq Answered(Visible(ms, b))
<1> DEFINE v == Visible(ms, b)
<1>1. /\ ms \in Seq(Good) /\ Len(ms) \in Nat /\ b \in Nat
      /\ v \in Seq(Good) /\ Len(v) = Len(ms) - b
      /\ \A i \in 1..Len(v) : v[i] = ms[b + i]
  BY DEF Sound, Visible
<1> HIDE DEF v
<1>2. \A m \in ToSet(v) : \E i \in 1..Len(ms) : i > b /\ m = ms[i]
  <2> TAKE m \in ToSet(v)
  <2>1. PICK i \in 1..Len(v) : m = v[i]
    BY <1>1 DEF ToSet
  <2>2. b + i \in 1..Len(ms) /\ b + i > b /\ m = ms[b + i]
    BY <1>1, <2>1
  <2> QED
    BY <2>2
<1>3. \A i \in 1..Len(ms) : i > b => ms[i] \in ToSet(v)
  <2> TAKE i \in 1..Len(ms)
  <2> HAVE i > b
  <2>1. i - b \in DOMAIN v /\ b + (i - b) = i /\ i - b \in 1..Len(v)
    BY <1>1
  <2>2. v[i - b] = ms[b + (i - b)]
    BY <1>1, <2>1
  <2> QED
    BY <2>1, <2>2 DEF ToSet
<1>4. ToSet(v) \subseteq ToSet(ms)
  <2>1. \A i \in 1..Len(ms) : ms[i] \in ToSet(ms)
    BY <1>1 DEF ToSet
  <2> QED
    BY <1>2, <2>1
<1>5. Asked(v) \subseteq Asked(ms) /\ Answered(v) \subseteq Answered(ms)
  BY <1>4, AskedMembers
<1>6. ToolMessages(v) \subseteq ToolMessages(ms)
  BY <1>4 DEF ToolMessages
<1>7. ASSUME NEW c \in Asked(v), c \in Answered(ms) PROVE c \in Answered(v)
  <2>1. PICK m \in ToSet(v) : ~IsTool(m) /\ c \in ToSet(m.calls)
    BY AskedMembers
  <2>2. PICK i \in 1..Len(ms) : i > b /\ m = ms[i]
    BY <1>2
  <2>3. PICK n \in ToSet(ms) : IsTool(n) /\ c = n.calls[1]
    BY <1>7, AskedMembers
  <2>4. PICK j \in 1..Len(ms) : n = ms[j]
    BY <1>1 DEF ToSet
  <2>5. i < j
    BY <1>1, <2>1, <2>2, <2>3, <2>4 DEF Sound, Ordered
  <2>6. n \in ToSet(v)
    BY <1>1, <1>3, <2>2, <2>4, <2>5
  <2> QED
    BY <2>3, <2>6, AskedMembers
<1> QED
  BY <1>1, <1>5, <1>6, <1>7 DEF v

-----------------------------------------------------------------------------
(* The inductive invariant *)

\* The types the argument needs.
Types ==
  /\ store \in Seq(Good) /\ context \in Seq(Good)
  /\ boundary \in 0..Len(store)
  /\ at \in Places
  /\ response \in Seq(Calls) /\ gated \in 0..Len(response)
  /\ resolved \in [Calls -> Refusal \cup {None, "answered"}]
  /\ outcome \in [Calls -> {None, "success", "error"}]
  /\ interactive \in Seq(Calls) /\ executable \in Seq(Calls)

\* The store has one result of a call at most, after the call; a call without one
\* was a repeat, was cut or is of this round.
StoreSound ==
  /\ Sound(store)
  /\ ran \subseteq Asked(store) /\ blocked \subseteq Asked(store)
  /\ blocked \cap ran = {}
  /\ Orphans(store) \subseteq blocked \cup cut \cup ToSet(response)

\* The context knows only calls of the store, and lacks no result of one of its
\* calls that the store has.
ContextSound ==
  /\ Asked(context) \subseteq Asked(store) /\ Answered(context) \subseteq Asked(store)
  /\ Asked(context) \cap Answered(store) \subseteq Answered(context)

\* In a round the calls gated so far have a result or wait in one of two lists;
\* between rounds there is nothing.
RoundShape ==
  /\ IsInjective(response) /\ IsInjective(interactive) /\ IsInjective(executable)
  /\ at \in {"idle", "top", "pause", "llm", "error"} => response = <<>>
  /\ at \notin InRound => gated = 0
  /\ at = "approval" => gated < Len(response)
  /\ at \in {"interact", "tools"} => gated = Len(response)
  /\ at = "tools" => interactive = <<>>
  /\ ToSet(interactive) \cap ToSet(executable) = {}
  /\ \A c \in Calls :
       resolved[c] # None \/ c \in ToSet(interactive) \/ c \in ToSet(executable) =>
         \E i \in 1..gated : c = response[i]
  /\ \A c \in ToSet(interactive) \cup ToSet(executable) : resolved[c] = None
  /\ \A i \in 1..gated : \/ resolved[response[i]] # None
                         \/ response[i] \in ToSet(interactive) \cup ToSet(executable)
  /\ \A c \in Calls : outcome[c] # None => at = "tools" /\ c \in ToSet(executable)

\* What is known of a call of the round, there and in the two conversations.
RoundSound ==
  /\ ToSet(response) \subseteq Asked(store)
  /\ ToSet(response) \cap (Asked(context) \cup Answered(context)) = {}
  /\ \A c \in ToSet(response) :
       /\ c \in Answered(store) <=> resolved[c] \notin {None, "blocked"}
       /\ c \in blocked <=> resolved[c] = "blocked"
       /\ c \in ran => c \in ToSet(executable) /\ at = "tools"
  /\ \A c \in Calls : outcome[c] = "success" => c \in ran

\* The inductive invariant.
IInv == Types /\ StoreSound /\ ContextSound /\ RoundShape /\ RoundSound /\ ResultTrue

\* A result is true of the call.
TellsTruth(m) ==
  /\ m.result = "success" => m.calls[1] \in ran
  /\ m.result \in Refusal => m.calls[1] \notin ran
  /\ m.result = "interrupted" => m.calls[1] \notin ran \/ m.calls[1] \in cut

\* Results stay true when calls without one come to run, and new ones may join.
LEMMA TruthKept ==
  ASSUME ResultTrue, ran \subseteq ran', cut \subseteq cut',
         (ran' \ ran) \cap (Answered(store) \cup Answered(context)) = {},
         NEW N, \A m \in N : TellsTruth(m)',
         ToolMessages(store') \cup ToolMessages(context')
           \subseteq ToolMessages(store) \cup ToolMessages(context) \cup N
  PROVE  ResultTrue'
<1> SUFFICES ASSUME NEW m \in ToolMessages(store') \cup ToolMessages(context')
             PROVE  TellsTruth(m)'
  BY DEF ResultTrue, TellsTruth
<1>1. CASE m \in N
  BY <1>1
<1>2. CASE m \in ToolMessages(store) \cup ToolMessages(context)
  <2>1. m.calls[1] \in Answered(store) \cup Answered(context)
    BY <1>2 DEF Answered
  <2>2. TellsTruth(m)
    BY <1>2 DEF ResultTrue, TellsTruth
  <2> QED
    BY <2>1, <2>2 DEF TellsTruth
<1> QED
  BY <1>1, <1>2

\* The invariant holds at the start.
LEMMA InitIInv == Init => IInv
<1> SUFFICES ASSUME Init PROVE IInv
  OBVIOUS
<1>1. /\ store = <<>> /\ context = <<>> /\ response = <<>> /\ interactive = <<>>
      /\ executable = <<>> /\ boundary = 0 /\ gated = 0 /\ at = "idle"
      /\ resolved = NoResults /\ outcome = NoResults /\ ran = {} /\ cut = {} /\ blocked = {}
  BY DEF Init
<1>2. Types
  BY <1>1, EmptyConversation DEF Types, NoResults, Places
<1>3. StoreSound
  BY <1>1, EmptyConversation DEF StoreSound, Orphans
<1>4. ContextSound
  BY <1>1, EmptyConversation DEF ContextSound
<1>5. RoundShape
  BY <1>1 DEF RoundShape, IsInjective, ToSet, NoResults, InRound
<1>6. RoundSound
  BY <1>1 DEF RoundSound, ToSet, NoResults, None
<1>7. ResultTrue
  BY <1>1, EmptyConversation DEF ResultTrue
<1> QED
  BY <1>2, <1>3, <1>4, <1>5, <1>6, <1>7 DEF IInv

\* A step that only moves: no round begins or ends.
moved == <<store, boundary, context, response, gated, resolved, interactive, executable,
           outcome, ran, cut, blocked>>

LEMMA Moves ==
  ASSUME IInv, UNCHANGED moved, at' \in Places,
         at = "tools" <=> at' = "tools",
         at' \in {"idle", "top", "pause", "llm", "error"} =>
           at \in {"idle", "top", "pause", "llm", "error"},
         at' \notin InRound => at \notin InRound,
         at' = "approval" => gated < Len(response),
         at' \in {"interact", "tools"} => gated = Len(response)
  PROVE  IInv'
<1> USE DEF IInv, moved
<1>1. Types'
  BY DEF Types
<1>2. StoreSound' /\ ContextSound'
  BY DEF StoreSound, ContextSound
<1>3. RoundShape'
  BY DEF RoundShape
<1>4. RoundSound'
  BY DEF RoundSound
<1>5. ResultTrue'
  BY DEF ResultTrue
<1> QED
  BY <1>1, <1>2, <1>3, <1>4, <1>5

\* No round, and nothing in the context.
LEMMA RoundOver ==
  ASSUME NoRound, at' \in {"idle", "top"}
  PROVE  /\ response' = <<>> /\ gated' = 0 /\ RoundShape' /\ RoundSound'
         /\ ToSet(response') = {}
         /\ response' \in Seq(Calls) /\ gated' \in 0..Len(response')
         /\ resolved' \in [Calls -> Refusal \cup {None, "answered"}]
         /\ outcome' \in [Calls -> {None, "success", "error"}]
         /\ interactive' \in Seq(Calls) /\ executable' \in Seq(Calls)
<1>1. /\ response' = <<>> /\ gated' = 0 /\ resolved' = NoResults /\ interactive' = <<>>
      /\ executable' = <<>> /\ outcome' = NoResults
  BY DEF NoRound
<1>2. ToSet(<<>>) = {} /\ IsInjective(<<>>)
  BY DEF ToSet, IsInjective
<1>3. RoundShape'
  BY <1>1, <1>2 DEF RoundShape, InRound, NoResults
<1>4. RoundSound'
  BY <1>1, <1>2 DEF RoundSound, NoResults, None
<1> QED
  BY <1>1, <1>2, <1>3, <1>4 DEF NoResults

\* The turn ends: what the store lacks then must be explained.
LEMMA TurnEnded ==
  ASSUME IInv, TurnOver, Sound(store'), boundary' = boundary, Len(store') >= Len(store),
         Asked(store') = Asked(store), blocked' = blocked, cut \subseteq cut',
         ran \subseteq ran', ran' \subseteq Asked(store), blocked \cap ran' = {},
         Orphans(store') \subseteq blocked \cup cut',
         ResultTrue'
  PROVE  IInv'
<1>1. at' = "idle" /\ context' = <<>> /\ NoRound
  BY DEF TurnOver
<1>2. Types'
  <2>1. store' \in Seq(Good) /\ boundary' \in 0..Len(store')
    BY DEF Sound, IInv, Types
  <2> QED
    BY <1>1, <2>1, RoundOver, EmptyConversation DEF Types, Places
<1>3. StoreSound'
  BY <1>1, RoundOver DEF IInv, StoreSound
<1>4. ContextSound'
  BY <1>1, EmptyConversation DEF ContextSound
<1> QED
  BY <1>1, <1>2, <1>3, <1>4, RoundOver DEF IInv

-----------------------------------------------------------------------------
(* The actions: between rounds, in the gate, in the prompts, and the ends. *)

\* A message of the user joins the store; the new context lacks what the store lacks.
LEMMA ChatStep == IInv /\ Chat => IInv'
<1> SUFFICES ASSUME IInv, Chat PROVE IInv'
  OBVIOUS
<1>1. /\ at = "idle" /\ at' = "top" /\ store' = Append(store, User) /\ boundary' = boundary
      /\ context' = Visible(store', boundary) /\ UNCHANGED <<roundVars, cut, blocked, ran>>
  BY DEF Chat
<1>2. response = <<>>
  BY <1>1 DEF IInv, RoundShape
<1>3. /\ Sound(store') /\ Asked(store') = Asked(store) /\ Answered(store') = Answered(store)
      /\ ToolMessages(store') = ToolMessages(store) /\ Len(store') = Len(store) + 1
  <2>1. <<>> \in Seq(Calls) /\ ToSet(<<>>) = {}
    BY DEF ToSet
  <2>2. User \in Good /\ ~IsTool(User) /\ ToSet(User.calls) = {}
    BY <2>1, OthersAreGood
  <2> QED
    BY <1>1, <2>2, AskStore DEF IInv, StoreSound
<1>4. boundary' \in 0..Len(store')
  BY <1>1, <1>3 DEF IInv, Types
<1>5. /\ context' \in Seq(Good) /\ Asked(context') \subseteq Asked(store)
      /\ Answered(context') \subseteq Answered(store)
      /\ ToolMessages(context') \subseteq ToolMessages(store)
      /\ Asked(context') \cap Answered(store) \subseteq Answered(context')
  BY <1>1, <1>3, <1>4, VisibleProperties
<1>6. Types'
  BY <1>1, <1>3, <1>4, <1>5 DEF IInv, Types, Sound, Places, roundVars
<1>7. StoreSound'
  BY <1>1, <1>3 DEF IInv, StoreSound, Orphans, roundVars
<1>8. ContextSound'
  BY <1>1, <1>3, <1>5 DEF IInv, ContextSound, StoreSound, Sound
<1>9. RoundShape' /\ RoundSound'
  <2>1. RoundShape'
    BY <1>1, <1>2 DEF IInv, RoundShape, roundVars, InRound
  <2>2. RoundSound'
    <3>1. ToSet(response') = {}
      BY <1>1, <1>2 DEF ToSet, roundVars
    <3> QED
      BY <1>1, <3>1 DEF IInv, RoundSound, roundVars
  <2> QED
    BY <2>1, <2>2
<1>10. ResultTrue'
  BY <1>1, <1>3, <1>5 DEF IInv, ResultTrue
<1> QED
  BY <1>6, <1>7, <1>8, <1>9, <1>10 DEF IInv

\* The repair of the context, and of the store: what the one lacks, the other lacks,
\* and what the store lacks between rounds was not run, or cut.
LEMMA RequestStep == IInv /\ Request => IInv' /\ WellFormed(context')
<1> SUFFICES ASSUME IInv, Request PROVE IInv' /\ WellFormed(context')
  OBVIOUS
<1> DEFINE os == SetToSeq(Orphans(context))
           t  == [i \in DOMAIN os |-> Tool(os[i], "interrupted")]
<1>1. /\ at = "top" /\ at' = "llm" /\ context' = Fixed(context) /\ store' = store \o t
      /\ boundary' = boundary /\ UNCHANGED <<roundVars, cut, blocked, ran>>
  BY DEF Request
<1>2. response = <<>> /\ ToSet(response) = {}
  BY <1>1 DEF IInv, RoundShape, ToSet
<1>3. /\ os \in Seq(Calls) /\ ToSet(os) = Orphans(context) /\ IsInjective(os)
  <2>1. IsFiniteSet(Orphans(context)) /\ Orphans(context) \subseteq Calls
    BY FiniteOrphans DEF IInv, Types
  <2>2. os \in Seq(Orphans(context)) /\ ToSet(os) = Orphans(context) /\ IsInjective(os)
    BY <2>1, SetToSeqProperties
  <2> HIDE DEF os
  <2> QED
    BY <2>1, <2>2
<1> HIDE DEF os
<1>4. Tells(t, os) /\ ToSet(t) = {Tool(c, "interrupted") : c \in Orphans(context)}
  BY <1>3, TellsAll DEF Results
<1>5. Orphans(context) \subseteq Asked(store) /\ Orphans(context) \cap Answered(store) = {}
  BY DEF IInv, ContextSound, Orphans
<1>6. /\ Sound(store') /\ Asked(store') = Asked(store)
      /\ Answered(store') = Answered(store) \cup Orphans(context)
      /\ ToolMessages(store') = ToolMessages(store) \cup ToSet(t)
      /\ Len(store') >= Len(store)
  <2> HIDE DEF t
  <2> QED
    BY <1>1, <1>3, <1>4, <1>5, TellStore DEF IInv, StoreSound
<1>7. /\ context' \in Seq(Good) /\ WellFormed(context')
      /\ Asked(context') = Asked(context) /\ Answered(context') = Asked(context)
      /\ ToolMessages(context') \subseteq ToolMessages(context) \cup ToSet(t)
  BY <1>1, <1>4, FixedProperties DEF IInv, Types
<1> HIDE DEF t
<1>8. Types'
  BY <1>1, <1>6, <1>7 DEF IInv, Types, Sound, Places, roundVars
<1>9. StoreSound'
  BY <1>1, <1>6 DEF IInv, StoreSound, Orphans, roundVars
<1>10. ContextSound'
  BY <1>6, <1>7 DEF IInv, ContextSound
<1>11. RoundShape' /\ RoundSound'
  <2>1. RoundShape'
    BY <1>1, <1>2 DEF IInv, RoundShape, roundVars, InRound
  <2>2. RoundSound'
    BY <1>1, <1>2 DEF IInv, RoundSound, roundVars
  <2> QED
    BY <2>1, <2>2
<1>12. ResultTrue'
  <2>1. ASSUME NEW m \in ToSet(t) PROVE TellsTruth(m)'
    <3>1. PICK c \in Orphans(context) : m = Tool(c, "interrupted")
      BY <1>4
    <3>2. c \in Orphans(store)
      BY <1>5 DEF Orphans
    <3>3. c \notin ran' \/ c \in cut'
      BY <1>1, <1>2, <3>2 DEF IInv, StoreSound
    <3>4. m.calls[1] = c /\ m.result = "interrupted"
      BY <3>1 DEF Tool
    <3> QED
      BY <3>3, <3>4 DEF TellsTruth, Refusal
  <2> QED
    BY <1>1, <1>6, <1>7, <2>1, TruthKept DEF IInv
<1> QED
  BY <1>7, <1>8, <1>9, <1>10, <1>11, <1>12 DEF IInv

\* A reply opens a round, of calls nobody has seen.
LEMMA ReplyStep ==
  ASSUME IInv, NEW cs \in Replies, Reply(cs)
  PROVE  IInv'
<1>1. /\ at = "llm" /\ at' = "replied" /\ store' = Append(store, Assistant(cs))
      /\ response' = cs
      /\ UNCHANGED <<boundary, context, gated, resolved, interactive, executable, outcome,
                     ran, cut, blocked>>
  BY DEF Reply, historyVars
<1>2. cs \in Seq(Calls) /\ IsInjective(cs) /\ ToSet(cs) \cap Asked(store) = {}
  <2>1. cs \in Seq(Calls \ Asked(store)) /\ IsInjective(cs)
    BY ConstantsAssumption DEF Replies, SeqOf, Used
  <2>2. ToSet(cs) \subseteq Calls \ Asked(store)
    BY <2>1 DEF ToSet
  <2>3. cs \in Seq(Calls)
    BY <2>1
  <2> QED
    BY <2>1, <2>2, <2>3
<1>3. /\ Sound(store') /\ Asked(store') = Asked(store) \cup ToSet(cs)
      /\ Answered(store') = Answered(store) /\ ToolMessages(store') = ToolMessages(store)
      /\ Len(store') = Len(store) + 1
  BY <1>1, <1>2, OthersAreGood, AskStore DEF IInv, StoreSound
<1>4. gated = 0
  BY <1>1 DEF IInv, RoundShape, InRound
<1>5. Types'
  <2>1. store' \in Seq(Good) /\ boundary' \in 0..Len(store')
    BY <1>1, <1>3 DEF IInv, Types, Sound
  <2>2. response' \in Seq(Calls) /\ gated' \in 0..Len(response')
    BY <1>1, <1>2, <1>4
  <2> QED
    BY <1>1, <2>1, <2>2 DEF IInv, Types, Places
<1>6. StoreSound'
  <2>1. ToSet(response) = {}
    BY <1>1 DEF IInv, RoundShape, ToSet
  <2> QED
    BY <1>1, <1>3, <2>1 DEF IInv, StoreSound, Orphans
<1>7. ContextSound'
  BY <1>1, <1>3 DEF IInv, ContextSound
<1>8. RoundShape'
  BY <1>1, <1>2, <1>4 DEF IInv, RoundShape, InRound
<1>9. RoundSound'
  <2>1. ToSet(cs) \cap (Asked(context) \cup Answered(context)) = {}
    BY <1>2 DEF IInv, ContextSound
  <2>2. \A c \in ToSet(cs) : c \notin Answered(store) /\ c \notin blocked /\ c \notin ran
    BY <1>2 DEF IInv, StoreSound, Sound
  <2>3. \A c \in ToSet(cs) : resolved[c] = None
    <3>1. ToSet(cs) \subseteq Calls
      BY <1>2 DEF ToSet
    <3> QED
      BY <1>4, <3>1 DEF IInv, RoundShape
  <2>4. \A c \in Calls : outcome[c] = "success" => c \in ran
    BY DEF IInv, RoundSound
  <2> QED
    BY <1>1, <1>3, <2>1, <2>2, <2>3, <2>4 DEF RoundSound, None
<1>10. ResultTrue'
  BY <1>1, <1>3 DEF IInv, ResultTrue
<1> QED
  BY <1>5, <1>6, <1>7, <1>8, <1>9, <1>10 DEF IInv

\* Compaction leaves a context without calls; the round's are still in the store.
LEMMA CompactedStep == IInv /\ Compacted => IInv'
<1> SUFFICES ASSUME IInv, Compacted PROVE IInv'
  OBVIOUS
<1>1. /\ at = "compact" /\ at' = "proceed" /\ store' = Append(store, Summary)
      /\ boundary' = Len(store) /\ context' = Visible(store', boundary')
      /\ UNCHANGED <<roundVars, ran, cut, blocked>>
  BY DEF Compacted, historyVars
<1>2. <<>> \in Seq(Calls) /\ ToSet(<<>>) = {}
  BY DEF ToSet
<1>3. /\ Sound(store') /\ Asked(store') = Asked(store) /\ Answered(store') = Answered(store)
      /\ ToolMessages(store') = ToolMessages(store) /\ Len(store') = Len(store) + 1
  <2>1. Summary \in Good /\ ~IsTool(Summary) /\ ToSet(Summary.calls) = {}
    BY <1>2, OthersAreGood
  <2> QED
    BY <1>1, <2>1, AskStore DEF IInv, StoreSound
<1>4. boundary' \in 0..Len(store')
  BY <1>1, <1>3 DEF IInv, Types
<1>5. /\ context' \in Seq(Good)
      /\ ToolMessages(context') \subseteq ToolMessages(store)
  BY <1>1, <1>3, <1>4, VisibleProperties
<1>6. Asked(context') = {} /\ Answered(context') = {}
  <2>1. Len(context') = 1 /\ context'[1] = Summary
    BY <1>1, <1>3 DEF IInv, Types, Visible
  <2>2. ToSet(context') = {Summary}
    BY <1>5, <2>1 DEF ToSet
  <2>3. ~IsTool(Summary) /\ ToSet(Summary.calls) = {}
    BY <1>2, OthersAreGood
  <2> QED
    BY <2>2, <2>3, AskedMembers
<1>7. Types'
  BY <1>1, <1>3, <1>4, <1>5 DEF IInv, Types, Sound, Places, roundVars
<1>8. StoreSound'
  BY <1>1, <1>3 DEF IInv, StoreSound, Orphans, roundVars
<1>9. ContextSound'
  BY <1>6 DEF ContextSound
<1>10. RoundShape'
  BY <1>1 DEF IInv, RoundShape, roundVars, InRound
<1>11. RoundSound'
  BY <1>1, <1>3, <1>6 DEF IInv, RoundSound, roundVars
<1>12. ResultTrue'
  BY <1>1, <1>3, <1>5 DEF IInv, ResultTrue
<1> QED
  BY <1>7, <1>8, <1>9, <1>10, <1>11, <1>12 DEF IInv

\* The call at hand has no result yet, and waits nowhere.
LEMMA CallIsOpen ==
  ASSUME IInv, gated < Len(response)
  PROVE  /\ Call \in Calls /\ Call \in ToSet(response) /\ Call = response[gated + 1]
         /\ gated + 1 \in 1..Len(response) /\ gated \in Nat
         /\ \A i \in 1..gated : response[i] # Call
         /\ resolved[Call] = None
         /\ Call \notin ToSet(interactive) /\ Call \notin ToSet(executable)
<1>1. gated \in Nat /\ gated + 1 \in 1..Len(response) /\ response \in Seq(Calls)
  BY DEF IInv, Types
<1>2. Call = response[gated + 1] /\ Call \in Calls /\ Call \in ToSet(response)
  BY <1>1 DEF Call, ToSet
<1>3. \A i \in 1..gated : response[i] # Call
  BY <1>1, <1>2 DEF IInv, RoundShape, IsInjective
<1> QED
  BY <1>1, <1>2, <1>3 DEF IInv, RoundShape

\* A call of the round without a result has none in the store, none in the context.
LEMMA CallIsUnanswered ==
  ASSUME IInv, NEW c \in ToSet(response), resolved[c] = None
  PROVE  /\ c \in Calls /\ c \in Asked(store) /\ c \notin Answered(store)
         /\ c \notin Answered(context) /\ c \notin blocked
<1>1. c \in Calls
  BY DEF IInv, Types, ToSet
<1> QED
  BY <1>1 DEF IInv, RoundSound, None

\* A result is stored: c of the round gets r, and the round goes on.
LEMMA ResultStored ==
  ASSUME IInv, NEW c \in ToSet(response), resolved[c] = None, NEW r \in Results
  PROVE  LET ms == Append(store, Tool(c, r)) IN
           /\ Sound(ms) /\ Asked(ms) = Asked(store) /\ Answered(ms) = Answered(store) \cup {c}
           /\ ToolMessages(ms) = ToolMessages(store) \cup {Tool(c, r)}
           /\ Len(ms) = Len(store) + 1 /\ ms \in Seq(Good)
<1>1. c \in Calls /\ c \in Asked(store) /\ c \notin Answered(store)
  BY CallIsUnanswered
<1> DEFINE t == <<Tool(c, r)>>
           s == <<c>>
           ms == Append(store, Tool(c, r))
<1>2. Tells(t, s) /\ IsInjective(s) /\ ToSet(s) = {c} /\ ToSet(t) = {Tool(c, r)}
  BY <1>1, TellsOne
<1>3. s \in Seq(Calls)
  BY <1>1
<1>4. ms = store \o t /\ Len(ms) = Len(store) + 1 /\ ms \in Seq(Good)
  <2>1. Tool(c, r) \in Good
    BY <1>1, ToolIsGood
  <2> QED
    BY <2>1 DEF IInv, Types
<1> HIDE DEF s, t, ms
<1>5. /\ Sound(store \o t)
      /\ Asked(store \o t) = Asked(store)
      /\ Answered(store \o t) = Answered(store) \cup ToSet(s)
      /\ ToolMessages(store \o t) = ToolMessages(store) \cup ToSet(t)
  BY <1>1, <1>2, <1>3, TellStore DEF IInv, StoreSound
<1>6. /\ Sound(ms) /\ Asked(ms) = Asked(store) /\ Answered(ms) = Answered(store) \cup {c}
      /\ ToolMessages(ms) = ToolMessages(store) \cup {Tool(c, r)}
      /\ Len(ms) = Len(store) + 1 /\ ms \in Seq(Good)
  BY <1>2, <1>4, <1>5
<1> QED
  BY <1>6 DEF ms

\* A gated call gets a result, in the store unless it is a repeat.
LEMMA GateRefuses ==
  ASSUME IInv, gated < Len(response), at \in {"gate", "approval"}, at' = "gate",
         NEW r \in {"blocked", "denied", "rejected"},
         resolved' = [resolved EXCEPT ![Call] = r], gated' = gated + 1,
         IF r = "blocked" THEN store' = store /\ blocked' = blocked \cup {Call}
                          ELSE store' = Append(store, Tool(Call, r)) /\ blocked' = blocked,
         UNCHANGED <<boundary, context, response, interactive, executable, outcome, ran, cut>>
  PROVE  IInv'
<1> DEFINE d == Call
<1>1. /\ d \in Calls /\ d \in ToSet(response) /\ d = response[gated + 1]
      /\ gated + 1 \in 1..Len(response) /\ gated \in Nat
      /\ \A i \in 1..gated : response[i] # d
      /\ resolved[d] = None
      /\ d \notin ToSet(interactive) /\ d \notin ToSet(executable)
  BY CallIsOpen
<1>2. resolved' = [resolved EXCEPT ![d] = r]
  OBVIOUS
<1>3. r # "blocked" => store' = Append(store, Tool(d, r))
  OBVIOUS
<1>4. blocked' = IF r = "blocked" THEN blocked \cup {d} ELSE blocked
  OBVIOUS
<1> HIDE DEF d
<1>5. /\ d \in Asked(store) /\ d \notin Answered(store) /\ d \notin Answered(context)
      /\ d \notin ran
  BY <1>1, CallIsUnanswered DEF IInv, RoundSound
<1>6. /\ Sound(store') /\ Asked(store') = Asked(store)
      /\ Answered(store') = IF r = "blocked" THEN Answered(store) ELSE Answered(store) \cup {d}
      /\ ToolMessages(store') \subseteq ToolMessages(store) \cup {Tool(d, r)}
      /\ Len(store') >= Len(store) /\ store' \in Seq(Good)
  <2>1. CASE r = "blocked"
    BY <2>1 DEF IInv, StoreSound, Types
  <2>2. CASE r # "blocked"
    <3>1. r \in Results
      BY DEF Results, Refusal
    <3>2. Len(store) \in Nat
      BY DEF IInv, Types
    <3> DEFINE ms == Append(store, Tool(d, r))
    <3>3. /\ Sound(ms) /\ Asked(ms) = Asked(store) /\ Answered(ms) = Answered(store) \cup {d}
          /\ ToolMessages(ms) = ToolMessages(store) \cup {Tool(d, r)}
          /\ Len(ms) = Len(store) + 1 /\ ms \in Seq(Good)
      BY <1>1, <3>1, ResultStored
    <3> HIDE DEF ms
    <3>4. store' = ms
      BY <1>3, <2>2 DEF ms
    <3> QED
      BY <2>2, <3>2, <3>3, <3>4
  <2> QED
    BY <2>1, <2>2
<1>7. Types'
  <2>1. boundary' \in 0..Len(store') /\ gated' \in 0..Len(response')
    BY <1>1, <1>6 DEF IInv, Types
  <2>2. resolved' \in [Calls -> Refusal \cup {None, "answered"}]
    BY <1>1, <1>2 DEF IInv, Types, Refusal
  <2> QED
    BY <1>6, <2>1, <2>2 DEF IInv, Types, Places
<1>8. StoreSound'
  <2>1. Sound(store') /\ Orphans(store') \subseteq Orphans(store)
    BY <1>6 DEF Orphans
  <2>2. blocked \subseteq blocked' /\ blocked' \subseteq blocked \cup {d}
    BY <1>4
  <2> QED
    BY <1>5, <1>6, <2>1, <2>2 DEF IInv, StoreSound
<1>9. ContextSound'
  <2>1. d \notin Asked(context)
    BY <1>1 DEF IInv, RoundSound
  <2> QED
    BY <1>6, <2>1 DEF IInv, ContextSound
<1>10. \A c \in Calls : resolved'[c] = IF c = d THEN r ELSE resolved[c]
  BY <1>1, <1>2 DEF IInv, Types
<1>11. r # None
  BY DEF None
<1>12. RoundShape'
  <2>1. /\ IsInjective(response') /\ IsInjective(interactive') /\ IsInjective(executable')
        /\ ToSet(interactive') \cap ToSet(executable') = {}
        /\ at' \notin {"idle", "top", "pause", "llm", "error", "approval", "interact", "tools"}
        /\ at' \in InRound
    BY DEF IInv, RoundShape, InRound
  <2>2. \A c \in Calls :
          resolved'[c] # None \/ c \in ToSet(interactive') \/ c \in ToSet(executable') =>
            \E i \in 1..gated' : c = response'[i]
    BY <1>1, <1>10 DEF IInv, RoundShape
  <2>3. \A c \in ToSet(interactive') \cup ToSet(executable') : resolved'[c] = None
    BY <1>1, <1>10 DEF IInv, RoundShape, Types, ToSet
  <2>4. \A i \in 1..gated' : \/ resolved'[response'[i]] # None
                             \/ response'[i] \in ToSet(interactive') \cup ToSet(executable')
    <3> TAKE i \in 1..gated'
    <3>1. response[i] \in Calls
      BY <1>1 DEF IInv, Types
    <3>2. i = gated + 1 \/ i \in 1..gated
      BY <1>1
    <3> QED
      BY <1>1, <1>10, <1>11, <3>1, <3>2 DEF IInv, RoundShape
  <2>5. \A c \in Calls : outcome'[c] # None => at' = "tools" /\ c \in ToSet(executable')
    BY DEF IInv, RoundShape
  <2> QED
    BY <2>1, <2>2, <2>3, <2>4, <2>5 DEF RoundShape
<1>13. RoundSound'
  <2>1. ToSet(response) \subseteq Calls
    BY DEF IInv, Types, ToSet
  <2>2. ASSUME NEW c \in ToSet(response)
        PROVE  /\ c \in Answered(store') <=> resolved'[c] \notin {None, "blocked"}
               /\ c \in blocked' <=> resolved'[c] = "blocked"
               /\ c \in ran' => c \in ToSet(executable') /\ at' = "tools"
    <3>1. /\ c \in Answered(store) <=> resolved[c] \notin {None, "blocked"}
          /\ c \in blocked <=> resolved[c] = "blocked"
          /\ c \notin ran
      BY DEF IInv, RoundSound
    <3>2. CASE c = d
      <4>1. resolved'[c] = r /\ c \notin ran'
        BY <1>1, <1>5, <1>10, <3>2
      <4>2. c \in Answered(store') <=> r # "blocked"
        BY <1>5, <1>6, <3>2
      <4>3. c \in blocked' <=> r = "blocked"
        BY <1>1, <1>4, <3>1, <3>2 DEF None
      <4> QED
        BY <1>11, <4>1, <4>2, <4>3
    <3>3. CASE c # d
      BY <1>4, <1>6, <1>10, <2>1, <3>1, <3>3
    <3> QED
      BY <3>2, <3>3
  <2> QED
    BY <1>6, <2>2 DEF IInv, RoundSound
<1>14. ResultTrue'
  <2> DEFINE N == {Tool(d, r)}
  <2>1. ASSUME NEW m \in N PROVE TellsTruth(m)'
    <3>1. m.calls[1] = d /\ m.result = r
      BY DEF Tool
    <3> QED
      BY <1>5, <3>1 DEF TellsTruth
  <2>2. ToolMessages(store') \subseteq ToolMessages(store) \cup N
    BY <1>6
  <2> HIDE DEF N
  <2> QED
    BY <2>1, <2>2, TruthKept DEF IInv
<1> QED
  BY <1>7, <1>8, <1>9, <1>12, <1>13, <1>14 DEF IInv

\* A call is let through.
LEMMA GateAllows ==
  ASSUME IInv, gated < Len(response), at \in {"gate", "approval"}, at' = "gate", Classify,
         UNCHANGED <<store, boundary, context, response, resolved, outcome, ran, cut, blocked>>
  PROVE  IInv'
<1> DEFINE d == Call
<1>1. /\ d \in Calls /\ d \in ToSet(response) /\ d = response[gated + 1]
      /\ gated + 1 \in 1..Len(response) /\ gated \in Nat
      /\ \A i \in 1..gated : response[i] # d
      /\ resolved[d] = None
      /\ d \notin ToSet(interactive) /\ d \notin ToSet(executable)
  BY CallIsOpen
<1>2. /\ gated' = gated + 1
      /\ \/ interactive' = Append(interactive, d) /\ executable' = executable
         \/ interactive' = interactive /\ executable' = Append(executable, d)
  BY DEF Classify
<1> HIDE DEF d
<1>3. /\ interactive' \in Seq(Calls) /\ executable' \in Seq(Calls)
      /\ IsInjective(interactive') /\ IsInjective(executable')
      /\ ToSet(interactive') \cap ToSet(executable') = {}
      /\ ToSet(interactive') \cup ToSet(executable')
           = ToSet(interactive) \cup ToSet(executable) \cup {d}
      /\ ToSet(executable) \subseteq ToSet(executable')
  <2>0. /\ interactive \in Seq(Calls) /\ executable \in Seq(Calls)
        /\ IsInjective(interactive) /\ IsInjective(executable)
        /\ ToSet(interactive) \cap ToSet(executable) = {}
    BY DEF IInv, Types, RoundShape
  <2>1. CASE interactive' = Append(interactive, d) /\ executable' = executable
    <3>1. ToSet(interactive') = ToSet(interactive) \cup {d}
      BY <1>1, <2>0, <2>1, ToSetAppend
    <3>2. IsInjective(interactive')
      BY <1>1, <2>0, <2>1, InjectiveAppend
    <3>3. interactive' \in Seq(Calls)
      BY <1>1, <2>0, <2>1
    <3> QED
      BY <1>1, <2>0, <2>1, <3>1, <3>2, <3>3
  <2>2. CASE interactive' = interactive /\ executable' = Append(executable, d)
    <3>1. ToSet(executable') = ToSet(executable) \cup {d}
      BY <1>1, <2>0, <2>2, ToSetAppend
    <3>2. IsInjective(executable')
      BY <1>1, <2>0, <2>2, InjectiveAppend
    <3>3. executable' \in Seq(Calls)
      BY <1>1, <2>0, <2>2
    <3> QED
      BY <1>1, <2>0, <2>2, <3>1, <3>2, <3>3
  <2> QED
    BY <1>2, <2>1, <2>2
<1>4. Types'
  BY <1>1, <1>2, <1>3 DEF IInv, Types, Places
<1>5. StoreSound' /\ ContextSound'
  BY DEF IInv, StoreSound, ContextSound
<1>6. RoundShape'
  <2>1. \A c \in Calls :
          resolved'[c] # None \/ c \in ToSet(interactive') \/ c \in ToSet(executable') =>
            \E i \in 1..gated' : c = response'[i]
    BY <1>1, <1>2, <1>3 DEF IInv, RoundShape
  <2>2. \A c \in ToSet(interactive') \cup ToSet(executable') : resolved'[c] = None
    BY <1>1, <1>3 DEF IInv, RoundShape
  <2>3. \A i \in 1..gated' : \/ resolved'[response'[i]] # None
                             \/ response'[i] \in ToSet(interactive') \cup ToSet(executable')
    BY <1>1, <1>2, <1>3 DEF IInv, RoundShape
  <2>4. \A c \in Calls : outcome'[c] # None => at' = "tools" /\ c \in ToSet(executable')
    BY DEF IInv, RoundShape
  <2> QED
    BY <1>3, <2>1, <2>2, <2>3, <2>4 DEF IInv, RoundShape, InRound
<1>7. RoundSound'
  BY DEF IInv, RoundSound
<1>8. ResultTrue'
  BY DEF IInv, ResultTrue
<1> QED
  BY <1>4, <1>5, <1>6, <1>7, <1>8 DEF IInv


\* A call that waits is one of the round, without a result.
LEMMA WaitingIsOpen ==
  ASSUME IInv, NEW c \in ToSet(interactive) \cup ToSet(executable)
  PROVE  c \in ToSet(response) /\ c \in Calls /\ resolved[c] = None
<1>1. c \in Calls /\ resolved[c] = None
  BY DEF IInv, Types, RoundShape, ToSet
<1>2. PICK i \in 1..gated : c = response[i]
  BY <1>1 DEF IInv, RoundShape
<1>3. i \in DOMAIN response
  BY <1>2 DEF IInv, Types
<1> QED
  BY <1>1, <1>2, <1>3 DEF ToSet

\* The queue of interactive calls without its head.
LEMMA TailProperties ==
  ASSUME NEW C, NEW s \in Seq(C), s # <<>>, IsInjective(s)
  PROVE  /\ Head(s) \in ToSet(s) /\ Tail(s) \in Seq(C) /\ IsInjective(Tail(s))
         /\ ToSet(Tail(s)) = ToSet(s) \ {Head(s)}
<1> DEFINE t == Tail(s)
<1>1. /\ Len(s) \in Nat /\ Len(s) >= 1 /\ Head(s) = s[1]
      /\ t \in Seq(C) /\ Len(t) = Len(s) - 1
      /\ \A i \in 1..Len(t) : t[i] = s[i + 1]
  OBVIOUS
<1> HIDE DEF t
<1>2. \A i, j \in 1..Len(s) : s[i] = s[j] => i = j
  BY DEF IsInjective
<1>3. IsInjective(t)
  <2> SUFFICES ASSUME NEW i \in 1..Len(t), NEW j \in 1..Len(t), t[i] = t[j] PROVE i = j
    BY <1>1 DEF IsInjective
  <2>1. s[i + 1] = s[j + 1] /\ i + 1 \in 1..Len(s) /\ j + 1 \in 1..Len(s)
    BY <1>1
  <2>2. i + 1 = j + 1
    BY <1>2, <2>1
  <2> QED
    BY <1>1, <2>2
<1>4. ASSUME NEW x \in ToSet(t) PROVE x \in ToSet(s) \ {Head(s)}
  <2>1. PICK i \in 1..Len(t) : x = t[i]
    BY <1>1 DEF ToSet
  <2>2. x = s[i + 1] /\ i + 1 \in 1..Len(s) /\ i + 1 # 1 /\ 1 \in 1..Len(s)
    BY <1>1, <2>1
  <2>3. x # s[1]
    BY <1>2, <2>2
  <2> QED
    BY SMTT(30), <1>1, <2>2, <2>3 DEF ToSet
<1>5. ASSUME NEW x \in ToSet(s) \ {Head(s)} PROVE x \in ToSet(t)
  <2>1. PICK i \in 1..Len(s) : x = s[i]
    BY <1>1 DEF ToSet
  <2>2. i - 1 \in 1..Len(t) /\ x = t[i - 1]
    BY <1>1, <2>1
  <2>3. i - 1 \in DOMAIN t
    BY <1>1, <2>2
  <2> QED
    BY <2>2, <2>3 DEF ToSet
<1>6. Head(s) \in ToSet(s)
  BY <1>1 DEF ToSet
<1> QED
  BY <1>1, <1>3, <1>4, <1>5, <1>6 DEF t

\* An interactive call is answered.
LEMMA Answers ==
  ASSUME IInv, Interacting, at' = at,
         store' = Append(store, Tool(Head(interactive), "answered")),
         resolved' = [resolved EXCEPT ![Head(interactive)] = "answered"],
         interactive' = Tail(interactive),
         UNCHANGED <<boundary, context, response, gated, executable, outcome, ran, cut,
                     blocked>>
  PROVE  IInv'
<1> DEFINE d == Head(interactive)
<1>1. /\ interactive \in Seq(Calls) /\ IsInjective(interactive) /\ interactive # <<>>
      /\ at = "interact"
  BY DEF IInv, Types, RoundShape, Interacting
<1>2. /\ d \in ToSet(interactive) /\ interactive' \in Seq(Calls) /\ IsInjective(interactive')
      /\ ToSet(interactive') = ToSet(interactive) \ {d}
  BY <1>1, TailProperties
<1>3. resolved' = [resolved EXCEPT ![d] = "answered"]
  OBVIOUS
<1>4. store' = Append(store, Tool(d, "answered"))
  OBVIOUS
<1> HIDE DEF d
<1>5. d \in ToSet(response) /\ d \in Calls /\ resolved[d] = None
  BY <1>2, WaitingIsOpen
<1>6. /\ d \in Asked(store) /\ d \notin Answered(store) /\ d \notin Answered(context)
      /\ d \notin blocked /\ d \notin ran /\ d \notin ToSet(executable)
  BY <1>1, <1>2, <1>5, CallIsUnanswered DEF IInv, RoundSound, RoundShape
<1>7. /\ Sound(store') /\ Asked(store') = Asked(store)
      /\ Answered(store') = Answered(store) \cup {d}
      /\ ToolMessages(store') = ToolMessages(store) \cup {Tool(d, "answered")}
      /\ Len(store') >= Len(store) /\ store' \in Seq(Good)
  <2> DEFINE ms == Append(store, Tool(d, "answered"))
  <2>1. "answered" \in Results /\ Len(store) \in Nat
    BY DEF Results, IInv, Types
  <2>2. /\ Sound(ms) /\ Asked(ms) = Asked(store) /\ Answered(ms) = Answered(store) \cup {d}
        /\ ToolMessages(ms) = ToolMessages(store) \cup {Tool(d, "answered")}
        /\ Len(ms) = Len(store) + 1 /\ ms \in Seq(Good)
    BY <1>5, <2>1, ResultStored
  <2>3. store' = ms
    BY <1>4
  <2> HIDE DEF ms
  <2>4. Len(store') = Len(store) + 1
    BY <2>2, <2>3
  <2>5. Len(store') >= Len(store)
    BY <2>1, <2>4
  <2>6. /\ Sound(store') /\ Asked(store') = Asked(store) /\ store' \in Seq(Good)
        /\ Answered(store') = Answered(store) \cup {d}
        /\ ToolMessages(store') = ToolMessages(store) \cup {Tool(d, "answered")}
    BY <2>2, <2>3, Zenon
  <2> QED
    BY <2>5, <2>6
<1>8. \A c \in Calls : resolved'[c] = IF c = d THEN "answered" ELSE resolved[c]
  BY <1>3 DEF IInv, Types
<1>9. Types'
  <2>1. boundary' \in 0..Len(store')
    BY <1>7 DEF IInv, Types
  <2>2. resolved' \in [Calls -> Refusal \cup {None, "answered"}]
    BY <1>3, <1>5 DEF IInv, Types
  <2> QED
    BY <1>1, <1>2, <1>7, <2>1, <2>2 DEF IInv, Types
<1>10. StoreSound'
  <2>1. Orphans(store') \subseteq Orphans(store)
    BY <1>7 DEF Orphans
  <2> QED
    BY <1>7, <2>1 DEF IInv, StoreSound
<1>11. ContextSound'
  <2>1. d \notin Asked(context)
    BY <1>5 DEF IInv, RoundSound
  <2> QED
    BY <1>7, <2>1 DEF IInv, ContextSound
<1>12. RoundShape'
  <2>1. \A c \in Calls :
          resolved'[c] # None \/ c \in ToSet(interactive') \/ c \in ToSet(executable') =>
            \E i \in 1..gated' : c = response'[i]
    <3>1. \E i \in 1..gated : d = response[i]
      BY <1>2, <1>5 DEF IInv, RoundShape
    <3> QED
      BY <1>2, <1>8, <3>1 DEF IInv, RoundShape
  <2>2. \A c \in ToSet(interactive') \cup ToSet(executable') : resolved'[c] = None
    <3>1. \A c \in ToSet(interactive) \cup ToSet(executable) :
            c \in Calls /\ resolved[c] = None
      BY WaitingIsOpen
    <3> QED
      BY <1>2, <1>6, <1>8, <3>1
  <2>3. \A i \in 1..gated' : \/ resolved'[response'[i]] # None
                             \/ response'[i] \in ToSet(interactive') \cup ToSet(executable')
    <3> TAKE i \in 1..gated'
    <3>1. response[i] \in Calls
      BY DEF IInv, Types
    <3>2. \/ resolved[response[i]] # None
          \/ response[i] \in ToSet(interactive) \cup ToSet(executable)
      BY DEF IInv, RoundShape
    <3> QED
      BY <1>2, <1>8, <3>1, <3>2 DEF None
  <2>4. \A c \in Calls : outcome'[c] # None => at' = "tools" /\ c \in ToSet(executable')
    BY DEF IInv, RoundShape
  <2>5. ToSet(interactive') \cap ToSet(executable') = {}
    BY <1>2 DEF IInv, RoundShape
  <2> QED
    BY <1>1, <1>2, <2>1, <2>2, <2>3, <2>4, <2>5 DEF IInv, RoundShape, InRound
<1>13. RoundSound'
  <2>1. ToSet(response) \subseteq Calls
    BY DEF IInv, Types, ToSet
  <2>2. ASSUME NEW c \in ToSet(response)
        PROVE  /\ c \in Answered(store') <=> resolved'[c] \notin {None, "blocked"}
               /\ c \in blocked' <=> resolved'[c] = "blocked"
               /\ c \in ran' => c \in ToSet(executable') /\ at' = "tools"
    <3>1. /\ c \in Answered(store) <=> resolved[c] \notin {None, "blocked"}
          /\ c \in blocked <=> resolved[c] = "blocked"
          /\ c \in ran => c \in ToSet(executable) /\ at = "tools"
      BY DEF IInv, RoundSound
    <3>2. CASE c = d
      <4>1. /\ resolved'[c] = "answered" /\ c \in Answered(store')
            /\ c \notin blocked' /\ c \notin ran'
        BY <1>5, <1>6, <1>7, <1>8, <3>2
      <4> QED
        BY <4>1 DEF None
    <3>3. CASE c # d
      BY <1>7, <1>8, <2>1, <3>1, <3>3
    <3> QED
      BY <3>2, <3>3
  <2> QED
    BY <1>7, <2>2 DEF IInv, RoundSound
<1>14. ResultTrue'
  <2> DEFINE N == {Tool(d, "answered")}
  <2>1. ASSUME NEW m \in N PROVE TellsTruth(m)'
    <3>1. m.result = "answered"
      BY DEF Tool
    <3> QED
      BY <3>1 DEF TellsTruth, Refusal
  <2>2. ToolMessages(store') \subseteq ToolMessages(store) \cup N
    BY <1>7
  <2> HIDE DEF N
  <2> QED
    BY <2>1, <2>2, TruthKept DEF IInv
<1> QED
  BY <1>9, <1>10, <1>11, <1>12, <1>13, <1>14 DEF IInv

\* A rejection ends the turn: every call of the round has a result then, or was a
\* repeat, and none ran.
LEMMA RejectionEnds ==
  ASSUME IInv, at \in {"approval", "interact"}, NEW c \in ToSet(response), resolved[c] = None,
         NEW r \in {"rejected", "cancelled"}, EndRejected(c, r)
  PROVE  IInv'
<1> DEFINE res  == [resolved EXCEPT ![c] = r]
           rest == Skipped(res)
           skip == [i \in DOMAIN rest |-> Tool(rest[i], "skipped")]
           ms   == Append(store, Tool(c, r))
<1>1. /\ store' = ms \o skip /\ TurnOver
      /\ UNCHANGED <<boundary, cut, blocked, ran>>
  BY DEF EndRejected
<1>2. /\ r \in Results /\ r \in Refusal /\ r # None
      /\ "skipped" \in Results /\ "skipped" \in Refusal
  BY DEF Results, Refusal, None
<1>3. /\ Sound(ms) /\ Asked(ms) = Asked(store) /\ Answered(ms) = Answered(store) \cup {c}
      /\ ToolMessages(ms) = ToolMessages(store) \cup {Tool(c, r)}
      /\ Len(ms) = Len(store) + 1
  BY <1>2, ResultStored
<1> HIDE DEF ms
<1>4. c \in Calls /\ ToSet(response) \subseteq Calls
  BY DEF IInv, Types, ToSet
<1>5. \A x \in Calls : res[x] = IF x = c THEN r ELSE resolved[x]
  BY <1>4 DEF IInv, Types
<1>6. /\ rest \in Seq(Calls) /\ IsInjective(rest)
      /\ ToSet(rest) = ToSet(response) \cap {x \in Calls : res[x] = None}
  <2>1. response \in Seq(Calls) /\ IsInjective(response)
    BY DEF IInv, Types, RoundShape
  <2> HIDE DEF res
  <2> QED
    BY <2>1, ThoseProperties DEF Skipped
<1> HIDE DEF res
<1>7. Tells(skip, rest) /\ ToSet(skip) = {Tool(x, "skipped") : x \in ToSet(rest)}
  <2> HIDE DEF rest
  <2> QED
    BY <1>2, <1>6, TellsAll
<1> HIDE DEF skip, rest
<1>8. \A x \in ToSet(response) : x \notin ran
  BY DEF IInv, RoundSound
<1>9. \A x \in ToSet(rest) : /\ x \in ToSet(response) /\ x \in Asked(store)
                             /\ x \notin Answered(store) /\ x # c
  <2> TAKE x \in ToSet(rest)
  <2>1. x \in ToSet(response) /\ x \in Calls /\ x # c /\ resolved[x] = None
    BY <1>2, <1>5, <1>6
  <2> QED
    BY <2>1, CallIsUnanswered
<1>10. /\ Sound(store') /\ Asked(store') = Asked(store)
       /\ Answered(store') = Answered(store) \cup {c} \cup ToSet(rest)
       /\ ToolMessages(store') = ToolMessages(store) \cup {Tool(c, r)} \cup ToSet(skip)
       /\ Len(store') >= Len(store)
  <2>1. /\ Sound(ms \o skip) /\ Asked(ms \o skip) = Asked(ms)
        /\ Answered(ms \o skip) = Answered(ms) \cup ToSet(rest)
        /\ ToolMessages(ms \o skip) = ToolMessages(ms) \cup ToSet(skip)
        /\ Len(ms \o skip) >= Len(ms)
    BY <1>3, <1>6, <1>7, <1>9, TellStore
  <2>2. Len(store) \in Nat
    BY DEF IInv, Types
  <2>3. Len(ms \o skip) \in Nat
    BY <2>1 DEF Sound
  <2> QED
    BY <1>1, <1>3, <2>1, <2>2, <2>3
<1>11. Orphans(store') \subseteq blocked \cup cut'
  <2> SUFFICES ASSUME NEW x \in Orphans(store'), x \in ToSet(response) PROVE x \in blocked
    BY <1>1, <1>10 DEF IInv, StoreSound, Orphans
  <2>1. x \notin Answered(store) /\ x # c /\ x \notin ToSet(rest)
    BY <1>10 DEF Orphans
  <2>2. resolved[x] # None
    BY <1>4, <1>5, <1>6, <2>1
  <2> QED
    BY <2>1, <2>2 DEF IInv, RoundSound
<1>12. ResultTrue'
  <2> DEFINE N == {Tool(c, r)} \cup ToSet(skip)
  <2>1. ASSUME NEW m \in N PROVE TellsTruth(m)'
    <3>1. PICK x \in ToSet(response), q \in Refusal : m = Tool(x, q)
      BY <1>2, <1>7, <1>9
    <3>2. m.calls[1] = x /\ m.result = q /\ x \notin ran'
      BY <1>1, <1>8, <3>1 DEF Tool
    <3> QED
      BY <3>2 DEF TellsTruth, Refusal
  <2>2. ToolMessages(store') \subseteq ToolMessages(store) \cup N
    BY <1>10
  <2>3. ToolMessages(context') = {}
    BY <1>1, EmptyConversation DEF TurnOver
  <2> HIDE DEF N
  <2> QED
    BY <1>1, <2>1, <2>2, <2>3, TruthKept DEF IInv
<1>13. ran' \subseteq Asked(store) /\ blocked \cap ran' = {}
  BY <1>1 DEF IInv, StoreSound
<1> QED
  BY <1>1, <1>10, <1>11, <1>12, <1>13, TurnEnded DEF IInv

\* The turn ends between rounds, or after a reply without calls.
LEMMA EndsIdle ==
  ASSUME IInv, TurnOver, UNCHANGED <<store, boundary, ran, cut, blocked>>, ToSet(response) = {}
  PROVE  IInv'
<1>1. /\ Sound(store') /\ Asked(store') = Asked(store) /\ Len(store') >= Len(store)
      /\ ran' \subseteq Asked(store) /\ blocked \cap ran' = {}
      /\ Orphans(store') \subseteq blocked \cup cut'
  BY DEF IInv, StoreSound, Types
<1>2. ToolMessages(context') = {}
  BY EmptyConversation DEF TurnOver
<1>3. ResultTrue'
  BY <1>2 DEF IInv, ResultTrue
<1> QED
  BY <1>1, <1>3, TurnEnded

\* Whoever has no result of a round is counted as cut: the others had one stored, or
\* were repeats.
LEMMA CutExplains ==
  ASSUME IInv, cut' = cut \cup Unresolved
  PROVE  Orphans(store) \subseteq blocked \cup cut'
<1> SUFFICES ASSUME NEW x \in Orphans(store), x \in ToSet(response), resolved[x] # None
             PROVE  x \in blocked
  BY DEF IInv, StoreSound, Unresolved
<1> QED
  BY DEF IInv, RoundSound, Orphans

\* A Stop cuts the round: what has no stored result is counted as cut.
LEMMA StopRoundStep == IInv /\ StopRound => IInv'
<1> SUFFICES ASSUME IInv, StopRound PROVE IInv'
  OBVIOUS
<1>1. /\ at \in {"replied", "compact", "proceed", "tools", "interact"}
      /\ TurnOver /\ UNCHANGED <<store, boundary, blocked>>
      /\ cut' = cut \cup Unresolved
  BY DEF StopRound, Interacting
<1>2. ran \subseteq ran' /\ ran' \subseteq ran \cup Running
  BY DEF StopRound
<1>3. \A c \in Running : /\ c \in Asked(store) /\ c \notin Answered(store)
                         /\ c \notin Answered(context) /\ c \notin blocked
  <2> TAKE c \in Running
  <2>1. c \in ToSet(response) /\ resolved[c] = None
    BY WaitingIsOpen DEF Running
  <2> QED
    BY <2>1, CallIsUnanswered
<1>4. /\ Sound(store') /\ Asked(store') = Asked(store) /\ Len(store') >= Len(store)
      /\ ran' \subseteq Asked(store) /\ blocked \cap ran' = {} /\ cut \subseteq cut'
  BY <1>1, <1>2, <1>3 DEF IInv, StoreSound, Types
<1>5. Orphans(store') \subseteq blocked \cup cut'
  BY <1>1, CutExplains
<1>6. ResultTrue'
  <2> DEFINE N == ToolMessages(<<>>)
  <2>1. N = {} /\ ToolMessages(context') = {}
    BY <1>1, EmptyConversation DEF TurnOver
  <2>2. ToolMessages(store') \cup ToolMessages(context')
          \subseteq ToolMessages(store) \cup ToolMessages(context) \cup N
    BY <1>1, <2>1
  <2>3. (ran' \ ran) \cap (Answered(store) \cup Answered(context)) = {}
    BY <1>2, <1>3
  <2>4. \A m \in N : TellsTruth(m)'
    BY <2>1
  <2> HIDE DEF N
  <2> QED
    BY <1>2, <1>4, <2>2, <2>3, <2>4, TruthKept DEF IInv
<1> QED
  BY <1>1, <1>2, <1>4, <1>5, <1>6, TurnEnded

\* Arguments that raise cut the round before any of its calls has run.
LEMMA ArgumentsRaiseStep == IInv /\ ArgumentsRaise => IInv'
<1> SUFFICES ASSUME IInv, ArgumentsRaise PROVE IInv'
  OBVIOUS
<1>1. /\ TurnOver /\ UNCHANGED <<store, boundary, ran, blocked>>
      /\ cut' = cut \cup Unresolved
  BY DEF ArgumentsRaise, Raised
<1>2. /\ Sound(store') /\ Asked(store') = Asked(store) /\ Len(store') >= Len(store)
      /\ ran' \subseteq Asked(store) /\ blocked \cap ran' = {} /\ cut \subseteq cut'
  BY <1>1 DEF IInv, StoreSound, Types
<1>3. Orphans(store') \subseteq blocked \cup cut'
  BY <1>1, CutExplains
<1>4. ToolMessages(context') = {}
  BY <1>1, EmptyConversation DEF TurnOver
<1>5. ResultTrue'
  BY <1>1, <1>2, <1>4 DEF IInv, ResultTrue
<1> QED
  BY <1>1, <1>2, <1>3, <1>5, TurnEnded

\* A call runs to its end, or fails.
LEMMA RunEnds ==
  ASSUME IInv, at = "tools", at' = at, NEW c \in Running, NEW r \in {"success", "error"},
         outcome' = [outcome EXCEPT ![c] = r],
         ran \subseteq ran', ran' \subseteq ran \cup {c}, r = "success" => c \in ran',
         UNCHANGED <<store, boundary, context, response, gated, resolved, interactive,
                     executable, cut, blocked>>
  PROVE  IInv'
<1>1. c \in ToSet(executable) /\ c \in ToSet(response) /\ c \in Calls /\ resolved[c] = None
  BY WaitingIsOpen DEF Running
<1>2. /\ c \in Asked(store) /\ c \notin Answered(store) /\ c \notin Answered(context)
      /\ c \notin blocked
  BY <1>1, CallIsUnanswered
<1>3. \A x \in Calls : outcome'[x] = IF x = c THEN r ELSE outcome[x]
  BY DEF IInv, Types
<1>4. Types'
  BY DEF IInv, Types
<1>5. StoreSound' /\ ContextSound'
  BY <1>2 DEF IInv, StoreSound, ContextSound
<1>6. RoundShape'
  <2>1. \A x \in Calls : outcome'[x] # None => at' = "tools" /\ x \in ToSet(executable')
    BY <1>1, <1>3 DEF IInv, RoundShape
  <2> QED
    BY <2>1 DEF IInv, RoundShape
<1>7. RoundSound'
  <2>1. \A x \in Calls : outcome'[x] = "success" => x \in ran'
    BY <1>3 DEF IInv, RoundSound
  <2>2. \A x \in ToSet(response) : x \in ran' => x \in ToSet(executable') /\ at' = "tools"
    BY <1>1 DEF IInv, RoundSound
  <2> QED
    BY <2>1, <2>2 DEF IInv, RoundSound
<1>8. ResultTrue'
  <2> DEFINE N == ToolMessages(<<>>)
  <2>1. N = {}
    BY EmptyConversation
  <2>2. (ran' \ ran) \cap (Answered(store) \cup Answered(context)) = {}
    BY <1>2
  <2>3. \A m \in N : TellsTruth(m)'
    BY <2>1
  <2> HIDE DEF N
  <2> QED
    BY <2>2, <2>3, TruthKept DEF IInv
<1> QED
  BY <1>4, <1>5, <1>6, <1>7, <1>8 DEF IInv

\* A round is over when each of its calls has a result: res tells them.
LEMMA Merged ==
  ASSUME IInv, NEW res \in [Calls -> Results], Merge(res),
         UNCHANGED <<boundary, ran, cut, blocked>>,
         Sound(store'), Asked(store') = Asked(store), Len(store') >= Len(store),
         Answered(store) \subseteq Answered(store'),
         Orphans(store') \subseteq blocked \cup cut,
         \A c \in ToSet(response) : res[c] # None /\ TellsTruth(Tool(c, res[c])),
         ToolMessages(store') \subseteq
           ToolMessages(store) \cup {Tool(c, res[c]) : c \in ToSet(response)},
         Answered(store') \subseteq Answered(store) \cup ToSet(response)
  PROVE  IInv'
<1> DEFINE a == Append(context, Assistant(response))
           t == Told(response, res)
<1>1. context' = a \o t /\ at' = "top" /\ NoRound
  BY DEF Merge
<1>2. response \in Seq(Calls) /\ IsInjective(response) /\ context \in Seq(Good)
  BY DEF IInv, Types, RoundShape
<1>3. PICK s \in Seq(Calls) :
        /\ ToSet(s) = {c \in ToSet(response) : res[c] # None}
        /\ Tells(t, s) /\ ToSet(t) = {Tool(c, res[c]) : c \in ToSet(s)}
  BY <1>2, ToldProperties
<1>4. ToSet(s) = ToSet(response)
  BY <1>3
<1>5. /\ a \in Seq(Good) /\ Asked(a) = Asked(context) \cup ToSet(response)
      /\ Answered(a) = Answered(context) /\ ToolMessages(a) = ToolMessages(context)
  <2> DEFINE one == <<Assistant(response)>>
             m == Assistant(response)
  <2>1. m \in Good /\ ~IsTool(m) /\ m.calls = response
    BY <1>2, OthersAreGood
  <2>2. one \in Seq(Good) /\ a = context \o one /\ ToSet(one) = {m}
    BY <1>2, <2>1 DEF ToSet
  <2> HIDE DEF one, m, a
  <2>3. Asked(one) = ToSet(response) /\ Answered(one) = {} /\ ToolMessages(one) = {}
    <3>1. \A c : c \in Asked(one) <=> c \in ToSet(response)
      BY <2>1, <2>2, AskedMembers
    <3>2. \A c : c \notin Answered(one)
      BY <2>1, <2>2, AskedMembers
    <3>3. ToolMessages(one) = {}
      BY <2>1, <2>2 DEF ToolMessages
    <3> QED
      BY <3>1, <3>2, <3>3
  <2>4. /\ context \o one \in Seq(Good)
        /\ Asked(context \o one) = Asked(context) \cup Asked(one)
        /\ Answered(context \o one) = Answered(context) \cup Answered(one)
        /\ ToolMessages(context \o one) = ToolMessages(context) \cup ToolMessages(one)
    BY <1>2, <2>2, ConcatConversations
  <2> QED
    BY <2>2, <2>3, <2>4
<1>6. /\ context' \in Seq(Good) /\ Asked(context') = Asked(context) \cup ToSet(response)
      /\ Answered(context') = Answered(context) \cup ToSet(response)
      /\ ToolMessages(context') = ToolMessages(context) \cup ToSet(t)
  <2> HIDE DEF a, t
  <2>1. /\ t \in Seq(Good) /\ Asked(t) = {} /\ Answered(t) = ToSet(s)
        /\ ToolMessages(t) = ToSet(t)
    BY <1>3, TellsConversation DEF Tells
  <2>2. /\ a \o t \in Seq(Good) /\ Asked(a \o t) = Asked(a) \cup Asked(t)
        /\ Answered(a \o t) = Answered(a) \cup Answered(t)
        /\ ToolMessages(a \o t) = ToolMessages(a) \cup ToolMessages(t)
    BY <1>5, <2>1, ConcatConversations
  <2> QED
    BY <1>1, <1>4, <1>5, <2>1, <2>2
<1> HIDE DEF a, t
<1>7. Types'
  <2>1. store' \in Seq(Good) /\ boundary' \in 0..Len(store')
    BY DEF Sound, IInv, Types
  <2> QED
    BY <1>1, <1>6, <2>1, RoundOver DEF Types, Places
<1>8. StoreSound'
  BY <1>1, RoundOver DEF IInv, StoreSound
<1>9. ContextSound'
  BY <1>6 DEF IInv, ContextSound, RoundSound
<1>10. ResultTrue'
  <2> DEFINE N == {Tool(c, res[c]) : c \in ToSet(response)}
  <2>1. ASSUME NEW m \in N PROVE TellsTruth(m)'
    <3>1. TellsTruth(m)
      OBVIOUS
    <3> QED
      BY <3>1 DEF TellsTruth
  <2>2. ToolMessages(store') \cup ToolMessages(context')
          \subseteq ToolMessages(store) \cup ToolMessages(context) \cup N
    BY <1>3, <1>4, <1>6
  <2>3. ran \subseteq ran' /\ cut \subseteq cut'
        /\ (ran' \ ran) \cap (Answered(store) \cup Answered(context)) = {}
    OBVIOUS
  <2> HIDE DEF N
  <2> QED
    BY <2>1, <2>2, <2>3, TruthKept DEF IInv
<1> QED
  BY <1>1, <1>7, <1>8, <1>9, <1>10, RoundOver DEF IInv

\* All calls are gated and the interactive ones dealt with: the others have a result.
LEMMA AllDealtWith ==
  ASSUME IInv, at \in {"interact", "tools"}, interactive = <<>>
  PROVE  \A c \in ToSet(response) : resolved[c] # None \/ c \in ToSet(executable)
<1> TAKE c \in ToSet(response)
<1>1. PICK i \in DOMAIN response : c = response[i]
  BY DEF ToSet
<1>2. i \in 1..gated
  BY DEF IInv, RoundShape, Types
<1>3. ToSet(<<>>) = {}
  BY DEF ToSet
<1> QED
  BY <1>1, <1>2, <1>3 DEF IInv, RoundShape

\* A round without executable calls.
LEMMA MergeOnlyStep == IInv /\ MergeOnly => IInv'
<1> SUFFICES ASSUME IInv, MergeOnly PROVE IInv'
  OBVIOUS
<1>1. /\ at = "interact" /\ interactive = <<>> /\ executable = <<>> /\ Merge(resolved)
      /\ UNCHANGED <<store, boundary, ran, cut, blocked>>
  BY DEF MergeOnly, historyVars
<1>2. ToSet(executable) = {}
  BY <1>1 DEF ToSet
<1>3. \A c \in ToSet(response) : c \in Calls /\ resolved[c] # None /\ c \notin ran
  BY <1>1, <1>2, AllDealtWith DEF IInv, RoundSound, Types, ToSet
<1>4. \A c \in ToSet(response) : TellsTruth(Tool(c, resolved[c]))
  <2> TAKE c \in ToSet(response)
  <2> DEFINE m == Tool(c, resolved[c])
  <2>1. m.calls[1] = c /\ m.result = resolved[c]
    BY DEF Tool
  <2>2. resolved[c] \in Refusal \cup {None, "answered"}
    BY <1>3 DEF IInv, Types
  <2> HIDE DEF m
  <2>3. TellsTruth(m)
    BY <1>3, <2>1, <2>2 DEF TellsTruth, Refusal, None
  <2> QED
    BY <2>3 DEF m
<1>5. resolved \in [Calls -> Results]
  BY DEF IInv, Types, Results
<1>6. Orphans(store') \subseteq blocked \cup cut
  <2> SUFFICES ASSUME NEW x \in Orphans(store), x \in ToSet(response) PROVE x \in blocked
    BY <1>1 DEF IInv, StoreSound
  <2> QED
    BY <1>3 DEF IInv, RoundSound, Orphans
<1>7. Sound(store') /\ Asked(store') = Asked(store) /\ Len(store') >= Len(store)
  BY <1>1 DEF IInv, StoreSound, Types
<1> QED
  BY <1>1, <1>3, <1>4, <1>5, <1>6, <1>7, Merged

\* A round whose executable calls have all come to an end.
LEMMA CollectStep == IInv /\ Collect => IInv'
<1> SUFFICES ASSUME IInv, Collect PROVE IInv'
  OBVIOUS
<1> DEFINE res == [c \in Calls |-> IF c \in ToSet(executable) THEN outcome[c] ELSE resolved[c]]
           t   == Told(executable, outcome)
<1>1. /\ at = "tools" /\ Running = {} /\ store' = store \o t /\ Merge(res)
      /\ UNCHANGED <<boundary, ran, cut, blocked>>
  BY DEF Collect
<1>2. /\ executable \in Seq(Calls) /\ IsInjective(executable) /\ interactive = <<>>
      /\ outcome \in [Calls -> {None, "success", "error"}]
      /\ resolved \in [Calls -> Refusal \cup {None, "answered"}]
  BY <1>1 DEF IInv, Types, RoundShape
<1>3. \A c \in ToSet(executable) : /\ c \in ToSet(response) /\ c \in Calls
                                   /\ outcome[c] \in {"success", "error"}
                                   /\ c \in Asked(store) /\ c \notin Answered(store)
  <2> TAKE c \in ToSet(executable)
  <2>1. c \in ToSet(response) /\ c \in Calls /\ resolved[c] = None
    BY WaitingIsOpen
  <2>2. outcome[c] # None
    BY <1>1 DEF Running
  <2> QED
    BY <1>2, <2>1, <2>2, CallIsUnanswered
<1>4. PICK s \in Seq(Calls) :
        /\ IsInjective(s) /\ ToSet(s) = {c \in ToSet(executable) : outcome[c] # None}
        /\ Tells(t, s) /\ ToSet(t) = {Tool(c, outcome[c]) : c \in ToSet(s)}
  <2>1. outcome \in [Calls -> Results]
    BY <1>2 DEF Results
  <2> QED
    BY <1>2, <2>1, ToldProperties
<1>5. ToSet(s) = ToSet(executable)
  BY <1>3, <1>4 DEF None
<1> HIDE DEF t
<1>6. /\ Sound(store') /\ Asked(store') = Asked(store)
      /\ Answered(store') = Answered(store) \cup ToSet(executable)
      /\ ToolMessages(store') = ToolMessages(store) \cup ToSet(t)
      /\ Len(store') >= Len(store)
  BY <1>1, <1>3, <1>4, <1>5, TellStore DEF IInv, StoreSound
<1>7. \A c \in ToSet(response) :
        /\ c \in Calls
        /\ res[c] = IF c \in ToSet(executable) THEN outcome[c] ELSE resolved[c]
  BY DEF IInv, Types, ToSet
<1>8. res \in [Calls -> Results]
  BY <1>2 DEF Results
<1> HIDE DEF res
<1>9. \A c \in ToSet(response) : res[c] # None
  BY <1>1, <1>2, <1>3, <1>7, AllDealtWith DEF None
<1>10. \A c \in ToSet(response) : TellsTruth(Tool(c, res[c]))
  <2> TAKE c \in ToSet(response)
  <2> DEFINE m == Tool(c, res[c])
  <2>1. m.calls[1] = c /\ m.result = res[c]
    BY DEF Tool
  <2> HIDE DEF m
  <2>2. CASE c \in ToSet(executable)
    <3>1. m.result \in {"success", "error"} /\ (m.result = "success" => c \in ran)
      BY <1>3, <1>7, <2>1, <2>2 DEF IInv, RoundSound
    <3> QED
      BY <2>1, <3>1 DEF TellsTruth, Refusal, m
  <2>3. CASE c \notin ToSet(executable)
    <3>1. m.result \in Refusal \cup {None, "answered"} /\ c \notin ran
      BY <1>2, <1>7, <2>1, <2>3 DEF IInv, RoundSound
    <3> QED
      BY <2>1, <3>1 DEF TellsTruth, Refusal, None, m
  <2> QED
    BY <2>2, <2>3 DEF m
<1>11. Orphans(store') \subseteq blocked \cup cut
  <2> SUFFICES ASSUME NEW x \in Orphans(store'), x \in ToSet(response) PROVE x \in blocked
    BY <1>6 DEF IInv, StoreSound, Orphans
  <2>1. x \notin Answered(store) /\ x \notin ToSet(executable)
    BY <1>6 DEF Orphans
  <2>2. resolved[x] # None
    BY <1>1, <1>2, <2>1, AllDealtWith
  <2> QED
    BY <2>1, <2>2 DEF IInv, RoundSound
<1>12. ToSet(t) \subseteq {Tool(c, res[c]) : c \in ToSet(response)}
  <2> SUFFICES ASSUME NEW c \in ToSet(executable)
               PROVE  Tool(c, outcome[c]) \in {Tool(x, res[x]) : x \in ToSet(response)}
    BY <1>4, <1>5
  <2>1. c \in ToSet(response) /\ res[c] = outcome[c]
    BY <1>3, <1>7
  <2> QED
    BY <2>1
<1>13. /\ Answered(store) \subseteq Answered(store')
       /\ Answered(store') \subseteq Answered(store) \cup ToSet(response)
       /\ ToolMessages(store') \subseteq
            ToolMessages(store) \cup {Tool(c, res[c]) : c \in ToSet(response)}
  BY <1>3, <1>6, <1>12
<1> QED
  BY <1>1, <1>6, <1>8, <1>9, <1>10, <1>11, <1>13, Merged

\* What the beginning of a sequence of calls has of it.
LEMMA PrefixProperties ==
  ASSUME NEW s \in Seq(Calls), IsInjective(s), NEW k \in 0..Len(s)
  PROVE  /\ SubSeq(s, 1, k) \in Seq(Calls) /\ IsInjective(SubSeq(s, 1, k))
         /\ ToSet(SubSeq(s, 1, k)) \subseteq ToSet(s)
<1> DEFINE p == SubSeq(s, 1, k)
<1>1. /\ p \in Seq(Calls) /\ DOMAIN p = 1..k /\ 1..k \subseteq DOMAIN s
      /\ \A i \in 1..k : p[i] = s[i]
  OBVIOUS
<1> HIDE DEF p
<1>2. IsInjective(p) /\ ToSet(p) \subseteq ToSet(s)
  BY <1>1 DEF IsInjective, ToSet
<1> QED
  BY <1>1, <1>2 DEF p

\* An exception among the outcomes: those before it are stored, the rest is cut.
LEMMA CollectRaisesStep ==
  ASSUME IInv, NEW i \in DOMAIN executable, CollectRaises(i)
  PROVE  IInv'
<1> DEFINE told == SubSeq(executable, 1, i - 1)
           t    == Told(told, outcome)
<1>1. /\ at = "tools" /\ Running = {} /\ TurnOver /\ store' = store \o t
      /\ UNCHANGED <<boundary, ran, blocked>> /\ cut' = cut \cup (Unresolved \ ToSet(told))
  BY DEF CollectRaises, Raised
<1>2. /\ executable \in Seq(Calls) /\ IsInjective(executable)
      /\ outcome \in [Calls -> {None, "success", "error"}] /\ i - 1 \in 0..Len(executable)
  BY DEF IInv, Types, RoundShape
<1>3. /\ told \in Seq(Calls) /\ IsInjective(told) /\ ToSet(told) \subseteq ToSet(executable)
  BY <1>2, PrefixProperties
<1> HIDE DEF told
<1>4. \A c \in ToSet(told) : /\ c \in ToSet(response) /\ c \in Calls
                             /\ outcome[c] \in {"success", "error"}
                             /\ c \in Asked(store) /\ c \notin Answered(store)
  <2> TAKE c \in ToSet(told)
  <2>1. c \in ToSet(response) /\ c \in Calls /\ resolved[c] = None
    BY <1>3, WaitingIsOpen
  <2>2. outcome[c] # None
    BY <1>1, <1>3 DEF Running
  <2> QED
    BY <1>2, <2>1, <2>2, CallIsUnanswered
<1>5. PICK s \in Seq(Calls) :
        /\ IsInjective(s) /\ ToSet(s) = {c \in ToSet(told) : outcome[c] # None}
        /\ Tells(t, s) /\ ToSet(t) = {Tool(c, outcome[c]) : c \in ToSet(s)}
  <2>1. outcome \in [Calls -> Results]
    BY <1>2 DEF Results
  <2> QED
    BY <1>3, <2>1, ToldProperties
<1>6. ToSet(s) = ToSet(told)
  BY <1>4, <1>5 DEF None
<1> HIDE DEF t
<1>7. /\ Sound(store') /\ Asked(store') = Asked(store)
      /\ Answered(store') = Answered(store) \cup ToSet(told)
      /\ ToolMessages(store') = ToolMessages(store) \cup ToSet(t)
      /\ Len(store') >= Len(store)
  BY <1>1, <1>4, <1>5, <1>6, TellStore DEF IInv, StoreSound
<1>8. ran' \subseteq Asked(store) /\ blocked \cap ran' = {} /\ cut \subseteq cut'
  BY <1>1 DEF IInv, StoreSound
<1>9. Orphans(store') \subseteq blocked \cup cut'
  <2> SUFFICES ASSUME NEW x \in Orphans(store), x \notin ToSet(told), x \in ToSet(response),
                      resolved[x] # None
               PROVE  x \in blocked
    BY <1>1, <1>7 DEF IInv, StoreSound, Orphans, Unresolved
  <2> QED
    BY DEF IInv, RoundSound, Orphans
<1>10. ResultTrue'
  <2> DEFINE N == {Tool(c, outcome[c]) : c \in ToSet(told)}
  <2>1. ASSUME NEW c \in ToSet(told), NEW m, m = Tool(c, outcome[c]) PROVE TellsTruth(m)'
    <3>1. m.calls[1] = c /\ m.result = outcome[c]
      BY <2>1 DEF Tool
    <3>2. m.result \in {"success", "error"} /\ (m.result = "success" => c \in ran)
      BY <1>4, <3>1 DEF IInv, RoundSound
    <3>3. TellsTruth(m) /\ ran' = ran
      BY <1>1, <3>1, <3>2 DEF TellsTruth, Refusal
    <3> QED
      BY <1>8, <3>3 DEF TellsTruth
  <2>2. \A m \in N : TellsTruth(m)'
    BY <2>1
  <2>3. ToolMessages(context') = {}
    BY <1>1, EmptyConversation DEF TurnOver
  <2>4. ToolMessages(store') \cup ToolMessages(context')
          \subseteq ToolMessages(store) \cup ToolMessages(context) \cup N
    BY <1>5, <1>6, <1>7, <2>3
  <2>5. ran \subseteq ran' /\ (ran' \ ran) \cap (Answered(store) \cup Answered(context)) = {}
    BY <1>1
  <2> HIDE DEF N
  <2> QED
    BY <1>8, <2>2, <2>4, <2>5, TruthKept DEF IInv
<1> QED
  BY <1>1, <1>7, <1>8, <1>9, <1>10, TurnEnded

\* Every step keeps the invariant.
LEMMA IInvNext == IInv /\ [Next]_vars => IInv'
<1> SUFFICES ASSUME IInv, [Next]_vars PROVE IInv'
  OBVIOUS
<1>1. CASE Chat
  BY <1>1, ChatStep
<1>2. CASE Request
  BY <1>2, RequestStep
<1>3. ASSUME NEW cs \in Replies, Reply(cs) PROVE IInv'
  BY <1>3, ReplyStep
<1>4. CASE Compacted
  BY <1>4, CompactedStep
<1>5. CASE Pause \/ Continue \/ ProviderError \/ Retry \/ StartCompaction \/ CompactionFails
           \/ Proceed \/ Ask \/ EndGate \/ RunTools
  <2>1. UNCHANGED moved /\ at' \in Places
    BY <1>5 DEF Pause, Continue, ProviderError, Retry, StartCompaction, CompactionFails,
                Proceed, Ask, EndGate, RunTools, moved, convVars, roundVars, historyVars,
                Places, IInv, Types
  <2>2. CASE Pause \/ Continue \/ ProviderError \/ Retry \/ StartCompaction \/ CompactionFails
             \/ Proceed
    <3>1. /\ at \notin {"tools", "gate", "approval", "interact"}
          /\ at' \in {"pause", "top", "error", "compact", "proceed", "gate"}
          /\ at' \in {"pause", "top", "error"} => at \in {"top", "pause", "llm", "error"}
      BY <2>2 DEF Pause, Continue, ProviderError, Retry, StartCompaction, CompactionFails,
                  Proceed
    <3> QED
      BY <2>1, <3>1, Moves DEF InRound
  <2>3. CASE Ask
    BY <2>1, <2>3, Moves DEF Ask, Gating, InRound
  <2>4. CASE EndGate
    BY <2>1, <2>4, Moves DEF EndGate, InRound
  <2>5. CASE RunTools
    <3>1. /\ at = "interact" /\ interactive = <<>> /\ at' = "tools" /\ UNCHANGED moved
      BY <2>1, <2>5 DEF RunTools
    <3> USE DEF IInv, moved
    <3>2. Types'
      BY <3>1 DEF Types, Places
    <3>3. StoreSound' /\ ContextSound'
      BY <3>1 DEF StoreSound, ContextSound
    <3>4. RoundShape'
      BY <3>1 DEF RoundShape, InRound
    <3>5. RoundSound'
      BY <3>1 DEF RoundSound
    <3>6. ResultTrue'
      BY <3>1 DEF ResultTrue
    <3> QED
      BY <3>2, <3>3, <3>4, <3>5, <3>6
  <2> QED
    BY <1>5, <2>2, <2>3, <2>4, <2>5
<1>6. CASE StopAtCap \/ Finish \/ GiveUp \/ StopTurn
  <2>1. TurnOver /\ UNCHANGED <<store, boundary, ran, cut, blocked>>
    BY <1>6 DEF StopAtCap, Finish, GiveUp, StopTurn, otherVars
  <2>2. response = <<>>
    BY <1>6 DEF StopAtCap, Finish, GiveUp, StopTurn, IInv, RoundShape
  <2>3. ToSet(response) = {}
    BY <2>2 DEF ToSet
  <2> QED
    BY <2>1, <2>3, EndsIdle
<1>7. CASE StopRound
  BY <1>7, StopRoundStep
<1>8. CASE RefuseRepeat
  BY <1>8, GateRefuses DEF RefuseRepeat, Gating, convVars
<1>9. CASE Deny
  BY <1>9, GateRefuses DEF Deny, Gating, historyVars
<1>10. CASE RejectedWithFeedback
  <2>1. gated < Len(response) /\ at = "approval"
    BY <1>10 DEF RejectedWithFeedback, IInv, RoundShape
  <2> QED
    BY <1>10, <2>1, GateRefuses DEF RejectedWithFeedback, historyVars
<1>11. CASE Allow
  BY <1>11, GateAllows DEF Allow, Gating, convVars, historyVars
<1>12. CASE Approved
  <2>1. gated < Len(response) /\ at = "approval"
    BY <1>12 DEF Approved, IInv, RoundShape
  <2> QED
    BY <1>12, <2>1, GateAllows DEF Approved, convVars, historyVars
<1>13. CASE Rejected \/ StopApproval
  <2>1. at = "approval" /\ gated < Len(response)
    BY <1>13 DEF Rejected, StopApproval, IInv, RoundShape
  <2>2. Call \in ToSet(response) /\ resolved[Call] = None
    BY <2>1, CallIsOpen
  <2>3. EndRejected(Call, "rejected") \/ EndRejected(Call, "cancelled")
    BY <1>13 DEF Rejected, StopApproval
  <2> QED
    BY <2>1, <2>2, <2>3, RejectionEnds
<1>14. CASE PlanRejected \/ StopPlan
  <2>1. at = "interact" /\ interactive # <<>> /\ EndRejected(Head(interactive), "rejected")
    BY <1>14 DEF PlanRejected, StopPlan, Interacting
  <2>2. Head(interactive) \in ToSet(interactive)
    BY <2>1, TailProperties DEF IInv, Types, RoundShape
  <2>3. Head(interactive) \in ToSet(response) /\ resolved[Head(interactive)] = None
    BY <2>2, WaitingIsOpen
  <2> QED
    BY <2>1, <2>3, RejectionEnds
<1>15. CASE Interacted \/ StopClarify
  <2>1. Interacting /\ at' = at
    BY <1>15 DEF Interacted, StopClarify
  <2> QED
    BY <1>15, <2>1, Answers DEF Interacted, StopClarify, historyVars
<1>16. CASE MergeOnly
  BY <1>16, MergeOnlyStep
<1>17. CASE Collect
  BY <1>17, CollectStep
<1>18. ASSUME NEW c \in Calls, ToolSucceeds(c) PROVE IInv'
  BY <1>18, RunEnds DEF ToolSucceeds, convVars
<1>19. ASSUME NEW c \in Calls, ToolFails(c) PROVE IInv'
  <2>1. ran \subseteq ran' /\ ran' \subseteq ran \cup {c}
    BY <1>19 DEF ToolFails
  <2> QED
    BY <1>19, <2>1, RunEnds DEF ToolFails, convVars
<1>20. CASE ArgumentsRaise
  BY <1>20, ArgumentsRaiseStep
<1>21. ASSUME NEW i \in DOMAIN executable, CollectRaises(i) PROVE IInv'
  BY <1>21, CollectRaisesStep
<1>22. CASE UNCHANGED vars
  <2>1. UNCHANGED moved /\ at' = at
    BY <1>22 DEF vars, moved, convVars, roundVars, historyVars
  <2> QED
    BY <2>1, Moves DEF IInv, Types, RoundShape
<1> QED
  BY <1>1, <1>2, <1>3, <1>4, <1>5, <1>6, <1>7, <1>8, <1>9, <1>10, <1>11, <1>12, <1>13,
     <1>14, <1>15, <1>16, <1>17, <1>18, <1>19, <1>20, <1>21, <1>22
  DEF Next, LoopStep, UserStep, Stop

\* So it holds throughout.
LEMMA InvariantHolds == Spec => []IInv
  BY InitIInv, IInvNext, PTL DEF Spec

-----------------------------------------------------------------------------
(* The properties *)

\* Only Request calls the LLM, with the context it has just repaired.
LEMMA RequestNext == IInv /\ RequestWellFormed /\ [Next]_vars => RequestWellFormed'
<1> SUFFICES ASSUME IInv, RequestWellFormed, [Next]_vars, at' = "llm"
             PROVE  WellFormed(context')
  BY DEF RequestWellFormed
<1>1. Request \/ (at = "llm" /\ context' = context)
  BY DEF Next, LoopStep, UserStep, Stop, Chat, Pause, StopAtCap, TurnOver, Continue,
         ProviderError, Retry, GiveUp, Reply, StartCompaction, Compacted, CompactionFails,
         Finish, Proceed, RefuseRepeat, Deny, Allow, Ask, Approved, RejectedWithFeedback,
         Rejected, EndRejected, EndGate, Interacted, PlanRejected, RunTools, MergeOnly, Merge,
         ToolSucceeds, ToolFails, Collect, ArgumentsRaise, CollectRaises, Raised, StopTurn,
         StopRound, StopApproval, StopClarify, StopPlan, Gating, Interacting, vars, convVars
<1>2. CASE Request
  BY <1>2, RequestStep
<1>3. CASE at = "llm" /\ context' = context
  BY <1>3 DEF RequestWellFormed, WellFormed
<1> QED
  BY <1>1, <1>2, <1>3

\* Every request has the form the provider requires: each assistant message is followed by
\* one result of each of its calls, whatever Stop, errors and compaction have left in the
\* context, since _fix_orphaned_tool_calls repairs any context the loop can come to.
THEOREM RequestsWellFormed == Spec => []RequestWellFormed
<1>1. Init => RequestWellFormed
  BY DEF Init, RequestWellFormed
<1> QED
  BY <1>1, InitIInv, IInvNext, RequestNext, PTL DEF Spec

\* No call gets a second result in the store, whichever of the paths of stream_response it
\* took: tool, prompt, rejection, skip, Stop, or the repair of a later turn.
THEOREM NoSecondResult == Spec => []OneResultPerCall
<1>1. IInv => OneResultPerCall
  BY DEF IInv, StoreSound, Sound, Unique, OneResultPerCall
<1> QED
  BY <1>1, InvariantHolds, PTL

\* What the model is told of a call, in the store or the context, is what happened to it: a
\* success ran, a refused call did not and never does, "interrupted" did not run or was cut.
THEOREM ResultsTrue == Spec => []ResultTrue
<1>1. IInv => ResultTrue
  BY DEF IInv
<1> QED
  BY <1>1, InvariantHolds, PTL

\* Between turns a call without a stored result was refused as a repeat, or cut by a Stop or
\* an exception: no other way through the loop forgets to store one.
THEOREM NothingElseOrphaned == Spec => []OrphansExplained
<1>1. IInv => OrphansExplained
  <2> SUFFICES ASSUME IInv, at = "idle" PROVE Orphans(store) \subseteq blocked \cup cut
    BY DEF OrphansExplained
  <2>1. ToSet(response) = {}
    BY DEF IInv, RoundShape, ToSet
  <2> QED
    BY <2>1 DEF IInv, StoreSound
<1> QED
  BY <1>1, InvariantHolds, PTL

\* What is left of the types: what the turn remembers and the histories.
Remembered ==
  /\ interrupted \in BOOLEAN /\ noCompact \in BOOLEAN
  /\ failed \subseteq {Sig[c] : c \in Calls}
  /\ turns \in 0..MaxTurns /\ requests \in 0..(MaxRequests + 1)
  /\ failures \subseteq Calls /\ cut \subseteq Calls

\* The calls whose outcomes are told before one raises are calls of the round.
LEMMA PrefixIsExecutable ==
  ASSUME IInv, NEW i \in DOMAIN executable
  PROVE  ToSet(SubSeq(executable, 1, i)) \subseteq ToSet(executable)
<1>1. executable \in Seq(Calls) /\ IsInjective(executable)
  BY DEF IInv, Types, RoundShape
<1>2. i \in 0..Len(executable)
  BY <1>1
<1> QED
  BY <1>1, <1>2, PrefixProperties

\* What a step does to them: it leaves or resets them, or adds to them what a round or a
\* turn adds.
LEMMA Remembering ==
  ASSUME IInv, [Next]_vars, Remembered
  PROVE  /\ interrupted' \in BOOLEAN /\ noCompact' \in BOOLEAN
         /\ cut' \subseteq cut \cup ToSet(response)
         /\ turns' = turns \/ (turns < MaxTurns /\ turns' = turns + 1)
         /\ \/ requests' \in {requests, 0}
            \/ ~(requests > MaxRequests) /\ requests' = requests + 1
         /\ \/ failed' \in {failed, {}} /\ failures' \in {failures, {}}
            \/ \E cs \in SUBSET ToSet(executable) : RecordFailures(cs)
<1> USE DEF Next, LoopStep, UserStep, Stop, Chat, Pause, StopAtCap, TurnOver, Continue,
            ProviderError, Retry, GiveUp, Reply, StartCompaction, Compacted, CompactionFails,
            Finish, Proceed, RefuseRepeat, Deny, Allow, Ask, Approved, RejectedWithFeedback,
            Rejected, EndRejected, EndGate, Interacted, PlanRejected, RunTools, MergeOnly,
            Merge, ToolSucceeds, ToolFails, Collect, ArgumentsRaise, CollectRaises, Raised,
            StopTurn, StopRound, StopApproval, StopClarify, StopPlan, Request, vars
<1>1. interrupted' \in BOOLEAN /\ noCompact' \in BOOLEAN
  BY DEF Remembered, budgetVars, otherVars
<1>2. cut' \subseteq cut \cup ToSet(response)
  <2>1. Unresolved \subseteq ToSet(response)
    BY DEF Unresolved
  <2> QED
    BY <2>1 DEF historyVars, otherVars
<1>3. turns' = turns \/ (turns < MaxTurns /\ turns' = turns + 1)
  BY DEF historyVars, otherVars
<1>4. requests' \in {requests, 0} \/ (~(requests > MaxRequests) /\ requests' = requests + 1)
  BY DEF historyVars, otherVars
<1>5. CASE Collect
  <2>1. RecordFailures({c \in ToSet(executable) : outcome[c] = "error"})
    BY <1>5
  <2> QED
    BY <1>1, <1>2, <1>3, <1>4, <2>1
<1>6. ASSUME NEW i \in DOMAIN executable, CollectRaises(i)
      PROVE  \E cs \in SUBSET ToSet(executable) : RecordFailures(cs)
  <2>1. ToSet(SubSeq(executable, 1, i)) \subseteq ToSet(executable)
    BY PrefixIsExecutable
  <2>2. RecordFailures({c \in ToSet(SubSeq(executable, 1, i)) : outcome[c] = "error"})
    BY <1>6
  <2> QED
    BY <2>1, <2>2
<1>7. CASE ~Collect /\ ~\E i \in DOMAIN executable : CollectRaises(i)
  <2> HIDE DEF Collect, CollectRaises
  <2>1. failed' \in {failed, {}} /\ failures' \in {failures, {}}
    BY <1>7 DEF historyVars, otherVars
  <2> QED
    BY <1>1, <1>2, <1>3, <1>4, <2>1
<1> HIDE DEF Next, Collect, CollectRaises
<1> QED
  BY <1>1, <1>2, <1>3, <1>4, <1>5, <1>6, <1>7

\* So they keep their types: counters stop at their caps, sets hold calls of rounds.
LEMMA RememberedNext == IInv /\ Remembered /\ [Next]_vars => Remembered'
<1> SUFFICES ASSUME IInv, Remembered, [Next]_vars PROVE Remembered'
  OBVIOUS
<1>1. ToSet(response) \subseteq Calls /\ ToSet(executable) \subseteq Calls
  BY DEF IInv, Types, ToSet
<1>2. interrupted' \in BOOLEAN /\ noCompact' \in BOOLEAN /\ cut' \subseteq Calls
  BY <1>1, Remembering DEF Remembered
<1>3. failed' \subseteq {Sig[c] : c \in Calls} /\ failures' \subseteq Calls
  <2>1. ASSUME NEW cs \in SUBSET ToSet(executable), RecordFailures(cs)
        PROVE  failed' \subseteq {Sig[c] : c \in Calls} /\ failures' \subseteq Calls
    BY <1>1, <2>1 DEF RecordFailures, Remembered
  <2>2. CASE failed' \in {failed, {}} /\ failures' \in {failures, {}}
    BY <2>2 DEF Remembered
  <2> QED
    BY <2>1, <2>2, Remembering
<1>4. turns' \in 0..MaxTurns
  <2>1. MaxTurns \in Nat
    BY ConstantsAssumption
  <2> QED
    BY <2>1, Remembering DEF Remembered
<1>5. requests' \in 0..(MaxRequests + 1)
  <2> DEFINE cap == MaxRequests
  <2>1. cap \in Nat
    BY NatTimes, ConstantsAssumption DEF MaxRequests
  <2>2. requests' \in {requests, 0} \/ (~(requests > cap) /\ requests' = requests + 1)
    BY Remembering
  <2>3. requests \in 0..(cap + 1)
    BY DEF Remembered
  <2>4. requests' \in 0..(cap + 1)
    <3> HIDE DEF cap
    <3> QED
      BY <2>1, <2>2, <2>3
  <2> QED
    BY <2>4
<1> QED
  BY <1>2, <1>3, <1>4, <1>5 DEF Remembered

\* Every variable of the loop keeps its type, and the Continues stay below their cap.
THEOREM TypeCorrect == Spec => []TypeOK
<1>1. Init => Remembered
  <2>2. MaxRequests \in Nat /\ MaxTurns \in Nat
    BY NatTimes, ConstantsAssumption DEF MaxRequests
  <2> DEFINE cap == MaxRequests
  <2>3. /\ Init => /\ interrupted = FALSE /\ noCompact = FALSE /\ failed = {} /\ turns = 0
                  /\ requests = 0 /\ failures = {} /\ cut = {}
        /\ cap \in Nat
    BY <2>2 DEF Init
  <2>4. 0 \in 0..(cap + 1) /\ 0 \in 0..MaxTurns
    <3> HIDE DEF cap
    <3> QED
      BY <2>2, <2>3
  <2> QED
    BY <2>3, <2>4 DEF Remembered
<1>2. IInv /\ Counted /\ Remembered => TypeOK
  <2> SUFFICES ASSUME IInv, Counted, Remembered PROVE TypeOK
    OBVIOUS
  <2>1. \A s : s \in Seq(Good) => s \in Seq(Messages)
    BY DEF Good
  <2>2. \A c \in Asked(store) : c \in Calls
    <3> TAKE c \in Asked(store)
    <3>1. PICK m \in ToSet(store) : c \in ToSet(m.calls)
      BY AskedMembers
    <3>2. m.calls \in Seq(Calls)
      BY DEF IInv, Types, ToSet, Good, Messages
    <3> QED
      BY <3>1, <3>2 DEF ToSet
  <2>3. ran \subseteq Calls /\ blocked \subseteq Calls
    BY <2>2 DEF IInv, StoreSound
  <2>4. resolved \in [Calls -> Results] /\ outcome \in [Calls -> Results]
    BY DEF IInv, Types, Results
  <2>5. continues \in 0..MaxContinues
    BY ConstantsAssumption DEF Counted
  <2> QED
    BY <2>1, <2>3, <2>4, <2>5 DEF TypeOK, IInv, Types, Counted, Remembered
<1>3. Init => Counted
  <2>1. 0 * MaxIterations = 0
    BY ConstantsAssumption
  <2> QED
    BY <2>1, ConstantsAssumption DEF Init, Counted
<1> QED
  BY <1>1, <1>2, <1>3, InitIInv, IInvNext, RememberedNext, CountedNext, PTL DEF Spec

=============================================================================
