---------------------------- MODULE Beads_proofs ----------------------------
(***************************************************************************)
(* What holds of the task tracker for any tasks, sessions and bounds: types,*)
(* that a claim is one session's, that a task it holds is offered to others *)
(* only when stale, and that the audit trail is true.                       *)
(***************************************************************************)
EXTENDS Beads, TLAPS

-----------------------------------------------------------------------------
(* Types                                                                    *)

LEMMA KindsDistinct ==
  /\ None \notin Kinds /\ Idle \in Ops
  /\ \A k \in Kinds : ~IsClaim(k) => NewStatus(k) \in Statuses
  BY DEF None, Kinds, Idle, Ops, IsClaim, NewStatus, Statuses

LEMMA OpTypes ==
  ASSUME TypeOK, NEW s \in Sessions, op[s].kind \in Kinds
  PROVE  /\ op[s].bead \in Beads /\ op[s].seen \in Sessions \cup {Agent}
         /\ Claimant(s, op[s].kind) \in Sessions \cup {Agent}
<1>1. op[s] \in Ops
  BY DEF TypeOK
<1>2. op[s] # Idle
  BY KindsDistinct DEF Idle
<1> QED
  BY <1>1, <1>2 DEF Ops, Claimant

LEMMA EventType ==
  ASSUME TypeOK, NEW b \in Beads, NEW st \in Statuses, Event(b, st)
  PROVE  /\ status' \in [Beads -> Statuses \cup {"absent"}]
         /\ said' \in [Beads -> Statuses \cup {"absent"}]
         /\ raced' \in SUBSET Beads /\ fresh' \in [Beads -> BOOLEAN]
  BY DEF TypeOK, Event

LEMMA DoneType ==
  ASSUME TypeOK, NEW s \in Sessions, NEW got \in SUBSET Beads, Done(s, got)
  PROVE  /\ op' \in [Sessions -> Ops] /\ told' \in [Sessions -> SUBSET Beads]
         /\ UNCHANGED <<fileVars, releasing, life, ops, blocks>>
<1>1. op' \in [Sessions -> Ops]
  BY KindsDistinct DEF Done, TypeOK
<1>2. told' \in [Sessions -> SUBSET Beads]
  BY DEF Done, TypeOK
<1> QED
  BY <1>1, <1>2 DEF Done

LEMMA TypeStep ==
  ASSUME TypeOK, [Next]_vars
  PROVE  TypeOK'
<1> USE ConstantsAssumption
<1>1. CASE Create \/ Rebuild \/ Export \/ Lost
  <2>1. UNCHANGED <<beadVars, otherVars, ops>>
    BY <1>1 DEF Create, Rebuild, Export, Lost
  <2>2. db' \in BOOLEAN /\ jsonl' \in BOOLEAN
    BY <1>1, Zenon DEF Create, Rebuild, Export, Lost, TypeOK
  <2>3. depth' \in Nat
    BY <1>1, SMT DEF Create, Rebuild, Export, Lost, TypeOK
  <2>4. raised' \in BOOLEAN
    BY <1>1, Zenon DEF Create, Rebuild, Export, Lost, TypeOK
  <2> QED
    BY <2>1, <2>2, <2>3, <2>4 DEF TypeOK, beadVars, otherVars
<1>2. ASSUME NEW b \in Beads, Age(b) \/ DateComes(b)
      PROVE  TypeOK'
  <2>1. fresh' \in [Beads -> BOOLEAN] /\ until' \in [Beads -> {None, "future", "past"}]
    <3>1. CASE Age(b)
      BY <3>1 DEF Age, TypeOK
    <3>2. CASE DateComes(b)
      BY <3>2 DEF DateComes, TypeOK
    <3> QED
      BY <1>2, <3>1, <3>2
  <2>2. UNCHANGED <<fileVars, status, assignee, blocks, said, raced, otherVars, ops>>
    BY <1>2, Zenon DEF Age, DateComes
  <2> QED
    BY <2>1, <2>2 DEF TypeOK, fileVars, otherVars
<1>3. ASSUME NEW s \in Sessions, Update(s)
      PROVE  TypeOK'
  <2>1. op[s].bead \in Beads /\ op[s].kind \in Kinds /\ ~IsClaim(op[s].kind)
    BY <1>3, OpTypes DEF Update
  <2>2. Event(op[s].bead, NewStatus(op[s].kind)) /\ Done(s, {})
    BY <1>3 DEF Update
  <2>3. until' \in [Beads -> {None, "future", "past"}]
    BY <1>3, <2>1 DEF Update, TypeOK
  <2>4. UNCHANGED assignee
    BY <1>3 DEF Update
  <2> QED
    BY <2>1, <2>2, <2>3, <2>4, KindsDistinct, EventType, DoneType DEF TypeOK, fileVars
<1>4. ASSUME NEW s \in Sessions, Claim(s)
      PROVE  TypeOK'
  <2>1. op[s].kind \in Kinds
    BY <1>4 DEF Claim, IsClaim, Kinds
  <2>2. op[s].bead \in Beads /\ Claimant(s, op[s].kind) \in Sessions \cup {Agent}
    BY <2>1, OpTypes
  <2>3. CASE assignee[op[s].bead] = Agent
    <3>1. /\ assignee' = [assignee EXCEPT ![op[s].bead] = Claimant(s, op[s].kind)]
          /\ Event(op[s].bead, "in_progress") /\ UNCHANGED until
          /\ Done(s, IF op[s].kind = "claim" THEN {op[s].bead} ELSE {})
      BY <1>4, <2>3 DEF Claim
    <3>2. assignee' \in [Beads -> Sessions \cup {Agent}]
      BY <3>1, <2>2 DEF TypeOK
    <3>3. (IF op[s].kind = "claim" THEN {op[s].bead} ELSE {}) \in SUBSET Beads
      BY <2>2
    <3> QED
      BY <3>1, <3>2, <3>3, <2>2, EventType, DoneType DEF TypeOK, fileVars, Statuses
  <2>4. CASE assignee[op[s].bead] # Agent
    <3>1. UNCHANGED <<status, assignee, until, fresh, said, raced>> /\ Done(s, {})
      BY <1>4, <2>4 DEF Claim
    <3> QED
      BY <3>1, DoneType DEF TypeOK, fileVars
  <2> QED
    BY <2>3, <2>4
<1>5. ASSUME NEW s \in Sessions, Touch(s)
      PROVE  TypeOK'
  <2>1. fresh' \in [Beads -> BOOLEAN]
    BY <1>5 DEF Touch, InProgress, TypeOK
  <2>2. UNCHANGED <<fileVars, status, assignee, until, blocks, said, raced, otherVars, ops>>
    BY <1>5, Zenon DEF Touch
  <2> QED
    BY <2>1, <2>2 DEF TypeOK, fileVars, otherVars
<1>6. ASSUME NEW s \in Sessions, Shutdown(s)
      PROVE  TypeOK'
  <2>1. Mine(s) \in SUBSET Beads
    BY DEF Mine, InProgress
  <2>2. /\ life' \in [Sessions -> {"on", "ended", "crashed"}]
        /\ told' \in [Sessions -> SUBSET Beads]
        /\ releasing' \in [Sessions -> SUBSET Beads]
    BY <1>6, <2>1 DEF Shutdown, TypeOK
  <2>3. UNCHANGED <<fileVars, beadVars, op, ops>>
    BY <1>6, Zenon DEF Shutdown
  <2> QED
    BY <2>2, <2>3 DEF TypeOK, fileVars, beadVars
<1>7. ASSUME NEW s \in Sessions, Release(s)
      PROVE  TypeOK'
  <2>1. Mine(s) \in SUBSET Beads /\ releasing[s] \in SUBSET Beads
    BY DEF Mine, InProgress, TypeOK
  <2>2. /\ status' \in [Beads -> Statuses \cup {"absent"}]
        /\ said' \in [Beads -> Statuses \cup {"absent"}]
        /\ assignee' \in [Beads -> Sessions \cup {Agent}]
    BY <1>7 DEF Release, TypeOK, Statuses
  <2>3. fresh' \in [Beads -> BOOLEAN]
    <3>1. fresh' = [b \in Beads |-> b \in Mine(s) \/ fresh[b]]
      BY <1>7 DEF Release
    <3>2. \A b \in Beads : (b \in Mine(s) \/ fresh[b]) \in BOOLEAN
      OBVIOUS
    <3> QED
      BY <3>1, <3>2
  <2>4. raced' \in SUBSET Beads /\ releasing' \in [Sessions -> SUBSET Beads]
    BY <1>7, <2>1 DEF Release, TypeOK
  <2> QED
    BY <1>7, <2>2, <2>3, <2>4 DEF Release, TypeOK, fileVars
<1>8. ASSUME NEW s \in Sessions, Crash(s)
      PROVE  TypeOK'
  <2>1. /\ life' \in [Sessions -> {"on", "ended", "crashed"}]
        /\ told' \in [Sessions -> SUBSET Beads]
        /\ op' \in [Sessions -> Ops]
    BY <1>8, KindsDistinct DEF Crash, TypeOK
  <2>2. UNCHANGED <<fileVars, beadVars, releasing, ops>>
    BY <1>8, Zenon DEF Crash
  <2> QED
    BY <2>1, <2>2 DEF TypeOK, fileVars, beadVars
<1>9. ASSUME NEW s \in Sessions, NEW b \in Beads, AddBead(s, b)
      PROVE  TypeOK'
  <2>1. Event(b, "open") /\ "open" \in Statuses
    BY <1>9 DEF AddBead, Statuses
  <2>2. ops' \in Nat
    BY <1>9 DEF AddBead, Writes, TypeOK
  <2>3. UNCHANGED <<fileVars, assignee, until, blocks, otherVars>>
    BY <1>9, Zenon DEF AddBead
  <2> QED
    BY <2>1, <2>2, <2>3, EventType DEF TypeOK, fileVars, otherVars
<1>10. ASSUME NEW s \in Sessions, NEW b \in Beads, ClaimAgain(s, b)
       PROVE  TypeOK'
  <2>1. told' \in [Sessions -> SUBSET Beads]
    BY <1>10 DEF ClaimAgain, TypeOK
  <2>2. UNCHANGED <<fileVars, beadVars, op, releasing, life, ops>>
    BY <1>10, Zenon DEF ClaimAgain
  <2> QED
    BY <2>1, <2>2 DEF TypeOK, fileVars, beadVars
<1>11. ASSUME NEW s \in Sessions, NEW a \in Beads, NEW b \in Beads, AddDependency(s, a, b)
       PROVE  TypeOK'
  <2>1. blocks' \in SUBSET (Beads \X Beads) /\ ops' \in Nat
    BY <1>11 DEF AddDependency, Writes, TypeOK
  <2>2. UNCHANGED <<fileVars, status, assignee, until, fresh, said, raced, otherVars>>
    BY <1>11, Zenon DEF AddDependency
  <2> QED
    BY <2>1, <2>2 DEF TypeOK, fileVars, otherVars
<1>12. ASSUME NEW s \in Sessions, NEW b \in Beads, NEW k \in Kinds, Select(s, k, b)
       PROVE  TypeOK'
  <2>1. [kind |-> k, bead |-> b, seen |-> assignee[b]] \in Ops
    BY DEF Ops, TypeOK
  <2> QED
    BY <1>12, <2>1 DEF Select, Writes, TypeOK, fileVars, beadVars
<1>13. CASE UNCHANGED vars
  BY <1>13 DEF vars, fileVars, beadVars, otherVars, TypeOK
<1> QED
  BY <1>1, <1>2, <1>3, <1>4, <1>5, <1>6, <1>7, <1>8, <1>9, <1>10, <1>11, <1>12, <1>13 DEF Next

\* For any tasks and sessions, every variable of the tracker keeps its type.
THEOREM TypeCorrect == Spec => []TypeOK
<1>1. Init => TypeOK
  <2> SUFFICES ASSUME Init PROVE TypeOK
    OBVIOUS
  <2>1. /\ db \in BOOLEAN /\ jsonl \in BOOLEAN /\ raised \in BOOLEAN
    BY Zenon DEF Init
  <2>2. fresh \in [Beads -> BOOLEAN]
    BY DEF Init
  <2>3. op \in [Sessions -> Ops]
    BY KindsDistinct DEF Init
  <2>4. depth \in Nat /\ ops \in Nat /\ blocks \in SUBSET (Beads \X Beads)
    BY DEF Init
  <2> QED
    BY <2>1, <2>2, <2>3, <2>4 DEF Init, TypeOK, Statuses
<1> QED
  BY <1>1, TypeStep, PTL DEF Spec

-----------------------------------------------------------------------------
(* Claims                                                                   *)

\* Only a session that is on has been told something, and only one that has ended
\* is releasing: what makes ClaimExclusive inductive.
EndedHoldsNothing ==
  \A s \in Sessions :
    /\ life[s] # "on" => told[s] = {}
    /\ life[s] = "on" => releasing[s] = {}

CInv == ClaimExclusive /\ EndedHoldsNothing

LEMMA ClaimStep ==
  ASSUME TypeOK, CInv, [Next]_vars
  PROVE  CInv'
<1> USE ConstantsAssumption DEF CInv
<1>1. CASE Create \/ Rebuild \/ Export \/ Lost
  <2>1. UNCHANGED <<assignee, told, life, releasing>>
    BY <1>1 DEF Create, Rebuild, Export, Lost, beadVars, otherVars
  <2> QED
    BY <2>1 DEF ClaimExclusive, EndedHoldsNothing
<1>2. ASSUME NEW b \in Beads, Age(b) \/ DateComes(b)
      PROVE  CInv'
  <2>1. UNCHANGED <<assignee, told, life, releasing>>
    BY <1>2 DEF Age, DateComes, otherVars
  <2> QED
    BY <2>1 DEF ClaimExclusive, EndedHoldsNothing
<1>3. ASSUME NEW s \in Sessions, Update(s)
      PROVE  CInv'
  <2>1. UNCHANGED <<assignee, life, releasing>> /\ Done(s, {})
    BY <1>3 DEF Update, Done
  <2>2. told' = told
    BY <2>1 DEF Done, TypeOK
  <2> QED
    BY <2>1, <2>2 DEF ClaimExclusive, EndedHoldsNothing
<1>4. ASSUME NEW s \in Sessions, Claim(s)
      PROVE  CInv'
  <2> DEFINE b == op[s].bead
             got == IF op[s].kind = "claim" THEN {b} ELSE {}
  <2>1. op[s].kind \in Kinds /\ b \in Beads
    BY <1>4, OpTypes DEF Claim, IsClaim, Kinds
  <2>2. CASE assignee[b] = Agent
    <3>1. /\ assignee' = [assignee EXCEPT ![b] = Claimant(s, op[s].kind)]
          /\ Done(s, got)
      BY <1>4, <2>2 DEF Claim
    <3>2. UNCHANGED <<life, releasing>>
      BY <3>1 DEF Done
    <3>3. told' = [told EXCEPT ![s] = IF life[s] = "on" THEN @ \cup got ELSE @]
      BY <3>1 DEF Done
    <3>4. op[s].kind = "claim" => Claimant(s, op[s].kind) = s
      BY DEF Claimant
    <3> HIDE DEF b
    <3>5. ASSUME NEW t \in Sessions, NEW c \in told'[t]
          PROVE  assignee'[c] = t
      <4>1. CASE c \in told[t]
        <5>1. assignee[c] = t /\ t # Agent /\ c \in Beads
          BY <4>1 DEF ClaimExclusive, TypeOK
        <5> QED
          BY <5>1, <3>1, <2>2 DEF TypeOK
      <4>2. CASE c \notin told[t]
        <5>1. t = s /\ c \in got
          BY <3>3, <3>5, <4>2 DEF TypeOK
        <5>2. c = b /\ op[s].kind = "claim"
          BY <5>1
        <5> QED
          BY <5>1, <5>2, <3>1, <3>4, <2>1 DEF TypeOK
      <4> QED
        BY <4>1, <4>2
    <3>6. EndedHoldsNothing'
      BY <3>2, <3>3 DEF EndedHoldsNothing, TypeOK
    <3> QED
      BY <3>5, <3>6 DEF ClaimExclusive
  <2>3. CASE assignee[b] # Agent
    <3>1. UNCHANGED assignee /\ Done(s, {})
      BY <1>4, <2>3 DEF Claim
    <3>2. told' = told /\ UNCHANGED <<life, releasing>>
      BY <3>1 DEF Done, TypeOK
    <3> QED
      BY <3>1, <3>2 DEF ClaimExclusive, EndedHoldsNothing
  <2> QED
    BY <2>2, <2>3
<1>5. ASSUME NEW s \in Sessions, Touch(s)
      PROVE  CInv'
  <2>1. UNCHANGED <<assignee, told, life, releasing>>
    BY <1>5 DEF Touch, otherVars
  <2> QED
    BY <2>1 DEF ClaimExclusive, EndedHoldsNothing
<1>6. ASSUME NEW s \in Sessions, Shutdown(s) \/ Crash(s)
      PROVE  CInv'
  <2>1. /\ UNCHANGED assignee
        /\ told' = [told EXCEPT ![s] = {}]
        /\ \E l \in {"ended", "crashed"} : life' = [life EXCEPT ![s] = l]
        /\ \A t \in Sessions \ {s} : releasing'[t] = releasing[t]
    BY <1>6 DEF Shutdown, Crash, beadVars, TypeOK
  <2>2. ClaimExclusive'
    BY <2>1 DEF ClaimExclusive, TypeOK
  <2>3. EndedHoldsNothing'
    BY <2>1 DEF EndedHoldsNothing, TypeOK
  <2> QED
    BY <2>2, <2>3
<1>7. ASSUME NEW s \in Sessions, Release(s)
      PROVE  CInv'
  <2>1. /\ releasing[s] # {}
        /\ assignee' = [b \in Beads |-> IF b \in Mine(s) THEN Agent ELSE assignee[b]]
        /\ releasing' = [releasing EXCEPT ![s] = {}]
        /\ UNCHANGED <<life, told>>
    BY <1>7 DEF Release
  <2>2. told[s] = {}
    BY <2>1 DEF EndedHoldsNothing
  <2>3. ASSUME NEW t \in Sessions, NEW c \in told[t]
        PROVE  assignee'[c] = t
    <3>1. t # s /\ assignee[c] = t /\ c \in Beads
      BY <2>2, <2>3 DEF ClaimExclusive, TypeOK
    <3>2. c \notin Mine(s)
      BY <3>1 DEF Mine
    <3> QED
      BY <3>1, <3>2, <2>1
  <2>4. ClaimExclusive'
    BY <2>1, <2>3 DEF ClaimExclusive
  <2>5. EndedHoldsNothing'
    BY <2>1 DEF EndedHoldsNothing, TypeOK
  <2> QED
    BY <2>4, <2>5
<1>8. ASSUME NEW s \in Sessions, NEW b \in Beads, AddBead(s, b)
      PROVE  CInv'
  <2>1. UNCHANGED <<assignee, told, life, releasing>>
    BY <1>8 DEF AddBead, otherVars
  <2> QED
    BY <2>1 DEF ClaimExclusive, EndedHoldsNothing
<1>9. ASSUME NEW s \in Sessions, NEW b \in Beads, ClaimAgain(s, b)
      PROVE  CInv'
  <2>1. /\ assignee[b] = s /\ life[s] = "on"
        /\ told' = [told EXCEPT ![s] = @ \cup {b}]
        /\ UNCHANGED <<assignee, life, releasing>>
    BY <1>9 DEF ClaimAgain, HasIt, Claimant, beadVars
  <2>2. ClaimExclusive'
    BY <2>1 DEF ClaimExclusive, TypeOK
  <2>3. EndedHoldsNothing'
    BY <2>1 DEF EndedHoldsNothing, TypeOK
  <2> QED
    BY <2>2, <2>3
<1>10. ASSUME NEW s \in Sessions, NEW a \in Beads, NEW b \in Beads, AddDependency(s, a, b)
       PROVE  CInv'
  <2>1. UNCHANGED <<assignee, told, life, releasing>>
    BY <1>10 DEF AddDependency, otherVars
  <2> QED
    BY <2>1 DEF ClaimExclusive, EndedHoldsNothing
<1>11. ASSUME NEW s \in Sessions, NEW b \in Beads, NEW k \in Kinds, Select(s, k, b)
       PROVE  CInv'
  <2>1. UNCHANGED <<assignee, told, life, releasing>>
    BY <1>11 DEF Select, beadVars
  <2> QED
    BY <2>1 DEF ClaimExclusive, EndedHoldsNothing
<1>12. CASE UNCHANGED vars
  BY <1>12 DEF vars, beadVars, otherVars, ClaimExclusive, EndedHoldsNothing
<1> QED
  BY <1>1, <1>2, <1>3, <1>4, <1>5, <1>6, <1>7, <1>8, <1>9, <1>10, <1>11, <1>12 DEF Next

\* For any number of sessions, a bead a session was told it has claimed stays its
\* own until it ends, whatever the others do between their reads and writes.
THEOREM ClaimExclusiveCorrect == Spec => []ClaimExclusive
<1>1. Init => CInv
  BY DEF Init, CInv, ClaimExclusive, EndedHoldsNothing
<1>2. TypeOK /\ CInv /\ [Next]_vars => CInv'
  BY ClaimStep
<1>3. CInv => ClaimExclusive
  BY DEF CInv
<1> QED
  BY <1>1, <1>2, <1>3, TypeCorrect, PTL DEF Spec

\* So task_list offers a claimed bead to others only when the claim is stale.
THEOREM NotOfferedTwiceCorrect == Spec => []NotOfferedTwice
<1>1. ClaimExclusive => NotOfferedTwice
  BY ConstantsAssumption DEF ClaimExclusive, NotOfferedTwice, Ready
<1> QED
  BY <1>1, ClaimExclusiveCorrect, PTL

-----------------------------------------------------------------------------
(* The audit trail                                                          *)

LEMMA AuditEvent ==
  ASSUME TypeOK, AuditTruth, NEW b \in Beads, NEW st, Event(b, st)
  PROVE  AuditTruth'
  BY DEF Event, AuditTruth, TypeOK

LEMMA AuditStep ==
  ASSUME TypeOK, AuditTruth, [Next]_vars
  PROVE  AuditTruth'
<1>1. CASE Create \/ Rebuild \/ Export \/ Lost
  BY <1>1 DEF Create, Rebuild, Export, Lost, beadVars, AuditTruth
<1>2. ASSUME NEW b \in Beads, Age(b) \/ DateComes(b)
      PROVE  AuditTruth'
  BY <1>2 DEF Age, DateComes, AuditTruth
<1>3. ASSUME NEW s \in Sessions, Update(s)
      PROVE  AuditTruth'
  <2>1. op[s].bead \in Beads
    BY <1>3, OpTypes DEF Update
  <2> QED
    BY <1>3, <2>1, AuditEvent DEF Update
<1>4. ASSUME NEW s \in Sessions, Claim(s)
      PROVE  AuditTruth'
  <2>1. op[s].bead \in Beads
    BY <1>4, OpTypes DEF Claim, IsClaim, Kinds
  <2>2. Event(op[s].bead, "in_progress") \/ UNCHANGED <<status, said, raced>>
    BY <1>4 DEF Claim
  <2> QED
    BY <2>1, <2>2, AuditEvent DEF AuditTruth
<1>5. ASSUME NEW s \in Sessions, Touch(s) \/ Shutdown(s) \/ Crash(s)
      PROVE  AuditTruth'
  BY <1>5 DEF Touch, Shutdown, Crash, beadVars, AuditTruth
<1>6. ASSUME NEW s \in Sessions, Release(s)
      PROVE  AuditTruth'
  <2> DEFINE reset == Mine(s)
  <2>1. /\ status' = [b \in Beads |-> IF b \in reset THEN "open" ELSE status[b]]
        /\ said' = [b \in Beads |-> IF b \in releasing[s] THEN "open" ELSE said[b]]
        /\ raced' = (raced \ releasing[s]) \cup (releasing[s] \ reset) \cup (reset \ releasing[s])
    BY <1>6 DEF Release
  <2> HIDE DEF reset
  <2>2. ASSUME NEW b \in Beads \ raced'
        PROVE  said'[b] = status'[b]
    <3>1. CASE b \in reset
      BY <3>1, <2>1, <2>2
    <3>2. CASE b \notin reset
      <4>1. b \notin releasing[s] /\ b \notin raced
        BY <3>2, <2>1, <2>2
      <4> QED
        BY <4>1, <3>2, <2>1 DEF AuditTruth
    <3> QED
      BY <3>1, <3>2
  <2> QED
    BY <2>2 DEF AuditTruth
<1>7. ASSUME NEW s \in Sessions, NEW b \in Beads, AddBead(s, b) \/ ClaimAgain(s, b)
      PROVE  AuditTruth'
  <2>1. Event(b, "open") \/ UNCHANGED <<status, said, raced>>
    BY <1>7 DEF AddBead, ClaimAgain, beadVars
  <2> QED
    BY <2>1, AuditEvent DEF AuditTruth
<1>8. ASSUME NEW s \in Sessions, NEW a \in Beads, NEW b \in Beads, AddDependency(s, a, b)
      PROVE  AuditTruth'
  BY <1>8 DEF AddDependency, AuditTruth
<1>9. ASSUME NEW s \in Sessions, NEW b \in Beads, NEW k \in Kinds, Select(s, k, b)
      PROVE  AuditTruth'
  BY <1>9 DEF Select, beadVars, AuditTruth
<1>10. CASE UNCHANGED vars
  BY <1>10 DEF vars, beadVars, AuditTruth
<1> QED
  BY <1>1, <1>2, <1>3, <1>4, <1>5, <1>6, <1>7, <1>8, <1>9, <1>10 DEF Next

\* For any number of sessions, the last event of a bead tells its status, unless a
\* release raced with another session's write of it.
THEOREM AuditTruthCorrect == Spec => []AuditTruth
<1>1. Init => AuditTruth
  BY DEF Init, AuditTruth
<1>2. TypeOK /\ AuditTruth /\ [Next]_vars => AuditTruth'
  BY AuditStep
<1> QED
  BY <1>1, <1>2, TypeCorrect, PTL DEF Spec

=============================================================================
