---------------------------- MODULE Stdio_proofs ----------------------------
(***************************************************************************)
(* The two ends of the stdio connection.  Of ServerLoop, for queues of any  *)
(* size and any number of lines: types, and that the chat messages the      *)
(* server accepted are served in their order.  Of AgentConnection, for any  *)
(* number of agents, restarts and messages: types, that starts stay within  *)
(* the budget of attempts, and that a live agent is not let go of without   *)
(* cause.                                                                   *)
(***************************************************************************)
EXTENDS ServerLoop, AgentConnection, SequenceTheorems, NaturalsInduction, WellFoundedInduction, TLAPS

-----------------------------------------------------------------------------
(* The chat messages of a queue                                             *)

\* m < n, as a relation.
NatLess == {p \in Nat \X Nat : p[1] < p[2]}

\* A nonempty set of naturals has a least element.
LEMMA Least ==
  ASSUME NEW S, S \subseteq Nat, S # {}
  PROVE  \E n \in S : \A m \in S : n <= m
<1>1. IsWellFoundedOn(NatLess, Nat)
  BY NatLessThanWellFounded DEF OpToRel, NatLess
<1>2. PICK n \in S : \A m \in S : <<m, n>> \notin NatLess
  BY <1>1, WFMin
<1>3. ASSUME NEW m \in S PROVE n <= m
  <2>1. m \in Nat /\ n \in Nat /\ <<m, n>> \in Nat \X Nat
    OBVIOUS
  <2>2. ~(<<m, n>>[1] < <<m, n>>[2])
    BY <1>2, <2>1 DEF NatLess
  <2> QED
    BY <2>1, <2>2
<1> QED
  BY <1>3

\* A set of naturals with 0 and all successors is Nat.
LEMMA AllNaturals ==
  ASSUME NEW S, S \subseteq Nat, 0 \in S, \A n \in S : n + 1 \in S
  PROVE  S = Nat
<1>1. SUFFICES ASSUME Nat \ S # {} PROVE FALSE
  OBVIOUS
<1>2. PICK n \in Nat \ S : \A m \in Nat \ S : n <= m
  BY <1>1, Least
<1>3. n - 1 \in S
  BY <1>2
<1> QED
  BY <1>2, <1>3

\* What the function in ChatsOf is for i, when it is f for less.
Grown(q, f, i) ==
  IF i = 0 THEN <<>>
  ELSE IF IsChat(q[i]) THEN Append(f[i - 1], q[i]) ELSE f[i - 1]

IsGrown(q, f) == \A i \in 0..Len(q) : f[i] = Grown(q, f, i)

\* The lines of q, after the first d of r.
Within(q, r, d) == Len(q) + d <= Len(r) /\ \A i \in 1..Len(q) : r[i + d] = q[i]

\* What g has from d on is what it has at d, then what f has.
Carries(C, q, f, g, d) == \A n \in 0..Len(q) : f[n] \in Seq(C) /\ g[n + d] = g[d] \o f[n]

\* The recursive definition in ChatsOf defines a function: there is one on every
\* prefix, since it extends the one on the prefix that is shorter by one.
LEMMA ChatsDefined ==
  ASSUME NEW C, NEW q \in Seq(C)
  PROVE  \E f : IsGrown(q, f) /\ ChatsOf(q) = f[Len(q)]
<1> DEFINE G == {n \in Nat : \E f : f = [i \in 0..n |-> Grown(q, f, i)]}
<1>1. 0 \in G
  <2> DEFINE f == [i \in 0..0 |-> <<>>]
  <2>1. f = [i \in 0..0 |-> Grown(q, f, i)]
    BY DEF Grown
  <2> HIDE DEF f
  <2> QED
    BY <2>1
<1>2. ASSUME NEW n \in G PROVE n + 1 \in G
  <2>1. PICK f : f = [i \in 0..n |-> Grown(q, f, i)]
    OBVIOUS
  <2>2. n \in Nat /\ \A i \in 0..n : f[i] = Grown(q, f, i)
    BY <2>1, Zenon
  <2> DEFINE g == [i \in 0..(n + 1) |-> IF i = n + 1 THEN Grown(q, f, n + 1) ELSE f[i]]
  <2>3. ASSUME NEW i \in 0..(n + 1) PROVE g[i] = Grown(q, g, i)
    <3>1. i # 0 => g[i - 1] = f[i - 1]
      BY <2>2
    <3>2. Grown(q, g, i) = Grown(q, f, i)
      <4> HIDE DEF g
      <4> QED
        BY <3>1 DEF Grown
    <3>3. g[i] = Grown(q, f, i)
      BY <2>2
    <3> QED
      BY <3>2, <3>3
  <2>4. g = [i \in 0..(n + 1) |-> g[i]]
    OBVIOUS
  <2> HIDE DEF g
  <2>5. g = [i \in 0..(n + 1) |-> Grown(q, g, i)]
    BY <2>3, <2>4
  <2> QED
    BY <2>2, <2>5
<1>3. Len(q) \in G
  <2>1. G \subseteq Nat
    OBVIOUS
  <2> HIDE DEF G
  <2>2. G = Nat
    BY <1>1, <1>2, <2>1, AllNaturals
  <2> QED
    BY <2>2
<1>4. PICK f : f = [i \in 0..Len(q) |-> Grown(q, f, i)]
  BY <1>3
<1> DEFINE F == CHOOSE h : h = [i \in 0..Len(q) |-> Grown(q, h, i)]
<1>5. F = [i \in 0..Len(q) |-> Grown(q, F, i)]
  BY <1>4
<1>6. ChatsOf(q) = F[Len(q)]
  BY DEF ChatsOf, Grown
<1> HIDE DEF F
<1>7. IsGrown(q, F)
  BY <1>5, Zenon DEF IsGrown
<1> QED
  BY <1>6, <1>7

LEMMA AppendAtEnd ==
  ASSUME NEW C, NEW s \in Seq(C), NEW t \in Seq(C), NEW e \in C
  PROVE  s \o Append(t, e) = Append(s \o t, e) /\ Append(t, e) \in Seq(C)
<1>1. /\ Append(t, e) = t \o <<e>> /\ Append(s \o t, e) = (s \o t) \o <<e>>
      /\ <<e>> \in Seq(C) /\ s \o t \in Seq(C)
  BY AppendIsConcat, ConcatProperties
<1>2. (s \o t) \o <<e>> = s \o (t \o <<e>>)
  BY <1>1, ConcatAssociative
<1> QED
  BY <1>1, <1>2

\* Prefixes that agree have the same chat messages, after any beginning.
LEMMA SameChats ==
  ASSUME NEW C, NEW q \in Seq(C), NEW r \in Seq(C), NEW d \in Nat,
         NEW f, NEW g, IsGrown(q, f), IsGrown(r, g), Within(q, r, d), g[d] \in Seq(C)
  PROVE  Carries(C, q, f, g, d)
<1> DEFINE p == g[d]
<1>0. p \in Seq(C)
  OBVIOUS
<1> HIDE DEF p
<1> DEFINE H(n) == f[n] \in Seq(C) /\ g[n + d] = p \o f[n]
           G == {n \in Nat : n <= Len(q) => H(n)}
<1>1. 0 \in G
  <2>1. f[0] = <<>> /\ 0 + d = d /\ p = g[d]
    BY DEF IsGrown, Grown, p
  <2>2. p \o <<>> = p /\ <<>> \in Seq(C)
    BY <1>0, ConcatEmptySeq
  <2>3. H(0)
    BY <2>1, <2>2
  <2> QED
    BY <2>3
<1>2. ASSUME NEW n \in G PROVE n + 1 \in G
  <2> SUFFICES ASSUME n + 1 <= Len(q) PROVE H(n + 1)
    OBVIOUS
  <2>1. n \in Nat /\ n \in 0..Len(q) /\ n + 1 \in 1..Len(q) /\ H(n) /\ q[n + 1] \in C
    OBVIOUS
  <2>2. f[n + 1] = IF IsChat(q[n + 1]) THEN Append(f[n], q[n + 1]) ELSE f[n]
    BY <2>1 DEF IsGrown, Grown
  <2>3. r[n + 1 + d] = q[n + 1] /\ n + 1 + d \in 1..Len(r) /\ n + 1 + d # 0
        /\ (n + 1 + d) - 1 = n + d
    BY <2>1 DEF Within
  <2>4. g[n + 1 + d] = IF IsChat(q[n + 1]) THEN Append(g[n + d], q[n + 1]) ELSE g[n + d]
    BY <2>3 DEF IsGrown, Grown
  <2>5. /\ p \o Append(f[n], q[n + 1]) = Append(p \o f[n], q[n + 1])
        /\ Append(f[n], q[n + 1]) \in Seq(C)
    <3> DEFINE t == f[n]
               e == q[n + 1]
    <3>1. t \in Seq(C) /\ e \in C
      BY <2>1
    <3> HIDE DEF t, e, G, H
    <3>2. p \o Append(t, e) = Append(p \o t, e) /\ Append(t, e) \in Seq(C)
      BY <1>0, <3>1, AppendAtEnd
    <3> QED
      BY <3>2 DEF t, e
  <2>6. CASE IsChat(q[n + 1])
    BY <2>1, <2>2, <2>4, <2>5, <2>6
  <2>7. CASE ~IsChat(q[n + 1])
    BY <2>1, <2>2, <2>4, <2>7
  <2> QED
    BY <2>6, <2>7
<1>3. \A n \in 0..Len(q) : H(n)
  <2>1. G \subseteq Nat
    OBVIOUS
  <2>2. G = Nat
    <3> HIDE DEF G
    <3> QED
      BY <1>1, <1>2, <2>1, AllNaturals
  <2>3. ASSUME NEW n \in 0..Len(q) PROVE H(n)
    <3>1. n \in Nat /\ n <= Len(q)
      OBVIOUS
    <3>2. n \in G
      <4> HIDE DEF G
      <4> QED
        BY <2>2, <3>1
    <3> QED
      BY <3>1, <3>2
  <2> QED
    BY <2>3
<1> QED
  BY <1>3 DEF Carries, p

LEMMA ChatsEmpty == ChatsOf(<<>>) = <<>>
<1>1. PICK f : f[0] = Grown(<<>>, f, 0) /\ ChatsOf(<<>>) = f[0]
  <2>1. <<>> \in Seq({}) /\ Len(<<>>) = 0 /\ 0 \in 0..0
    OBVIOUS
  <2> QED
    BY <2>1, ChatsDefined DEF IsGrown
<1> QED
  BY <1>1 DEF Grown

\* A queue that grows by a line.
LEMMA ChatsAppend ==
  ASSUME NEW C, NEW q \in Seq(C), NEW l \in C
  PROVE  /\ ChatsOf(q) \in Seq(C)
         /\ ChatsOf(Append(q, l)) = IF IsChat(l) THEN Append(ChatsOf(q), l) ELSE ChatsOf(q)
<1> DEFINE r == Append(q, l)
<1>1. r \in Seq(C) /\ Len(r) = Len(q) + 1 /\ r[Len(q) + 1] = l
      /\ \A i \in 1..Len(q) : r[i] = q[i]
  OBVIOUS
<1> HIDE DEF r
<1>2. PICK f : IsGrown(q, f) /\ ChatsOf(q) = f[Len(q)]
  BY ChatsDefined
<1>3. PICK g : IsGrown(r, g) /\ ChatsOf(r) = g[Len(r)]
  BY <1>1, ChatsDefined
<1>4. g[0] = <<>>
  BY <1>1, <1>3 DEF IsGrown, Grown
<1>5. f[Len(q)] \in Seq(C) /\ g[Len(q) + 0] = <<>> \o f[Len(q)]
  <2>1. <<>> \in Seq(C) /\ 0 \in Nat /\ Len(q) \in 0..Len(q) /\ Within(q, r, 0)
    BY <1>1 DEF Within
  <2>2. Carries(C, q, f, g, 0)
    BY <2>1, <1>1, <1>2, <1>3, <1>4, SameChats
  <2> QED
    BY <1>4, <2>1, <2>2 DEF Carries
<1>6. g[Len(q)] = f[Len(q)]
  BY <1>5
<1>7. g[Len(q) + 1] = IF IsChat(l) THEN Append(g[Len(q)], l) ELSE g[Len(q)]
  BY <1>1, <1>3 DEF IsGrown, Grown
<1> QED
  BY <1>1, <1>2, <1>3, <1>5, <1>6, <1>7 DEF r

\* A queue whose first line is taken.
LEMMA ChatsTail ==
  ASSUME NEW C, NEW q \in Seq(C), q # <<>>
  PROVE  /\ ChatsOf(Tail(q)) \in Seq(C) /\ ChatsOf(q) \in Seq(C)
         /\ ChatsOf(q) = IF IsChat(Head(q)) THEN <<Head(q)>> \o ChatsOf(Tail(q)) ELSE ChatsOf(Tail(q))
<1> DEFINE t == Tail(q)
<1>1. /\ t \in Seq(C) /\ Len(q) = Len(t) + 1 /\ Len(t) \in Nat /\ q[1] = Head(q) /\ q[1] \in C
      /\ \A i \in 1..Len(t) : q[i + 1] = t[i]
  OBVIOUS
<1> HIDE DEF t
<1>2. PICK f : IsGrown(t, f) /\ ChatsOf(t) = f[Len(t)]
  BY <1>1, ChatsDefined
<1>3. PICK g : IsGrown(q, g) /\ ChatsOf(q) = g[Len(q)]
  BY ChatsDefined
<1> DEFINE p == IF IsChat(q[1]) THEN <<q[1]>> ELSE <<>>
<1>4. g[1] = p /\ p \in Seq(C)
  <2>1. g[0] = <<>>
    BY <1>1, <1>3 DEF IsGrown, Grown
  <2>2. g[1] = IF IsChat(q[1]) THEN Append(g[0], q[1]) ELSE g[0]
    BY <1>1, <1>3 DEF IsGrown, Grown
  <2> QED
    BY <2>1, <2>2, <1>1
<1> HIDE DEF p
<1>5. f[Len(t)] \in Seq(C) /\ g[Len(t) + 1] = p \o f[Len(t)]
  <2>1. 1 \in Nat /\ Len(t) \in 0..Len(t) /\ Within(t, q, 1)
    BY <1>1 DEF Within
  <2>2. Carries(C, t, f, g, 1)
    BY <2>1, <1>1, <1>2, <1>3, <1>4, SameChats
  <2> QED
    BY <1>4, <2>1, <2>2 DEF Carries
<1>6. ChatsOf(q) = p \o ChatsOf(t) /\ ChatsOf(t) \in Seq(C)
  BY <1>1, <1>2, <1>3, <1>5
<1> QED
  BY <1>1, <1>4, <1>6 DEF p, t

-----------------------------------------------------------------------------
(* Types                                                                    *)

LEMMA LinesAre ==
  /\ Chats \subseteq Lines /\ Refused \in Lines /\ Stop \in Lines /\ Eof \in Lines /\ Note \notin Chats
  /\ \A n \in 1..MaxSends : Chat(n) \in Chats
  /\ \A n \in 1..MaxPrompts : Answer(n) \in Lines
  /\ \A l \in Lines : IsChat(l) <=> l \in Chats
  /\ \A l \in Chats \cup {Note} : IsChat(l) <=> l \in Chats
  BY DEF Lines, Chats, Refused, Stop, Eof, Note, Chat, Answer, IsChat

\* What a line that is written does.
LEMMA WriteTypes ==
  ASSUME TypeOK, NEW l \in Lines, Write(l)
  PROVE  pipe' \in Seq(Lines)
  BY DEF Write, TypeOK

\* What the receive loop takes is a line.
LEMMA GetTypes ==
  ASSUME TypeOK, NEW l, Get(l)
  PROVE  /\ l \in Lines /\ stdinQ # <<>> /\ l = Head(stdinQ) /\ stdinQ' = Tail(stdinQ)
         /\ stdinQ' \in Seq(Lines) /\ Len(stdinQ') <= MaxStdin
         /\ receiving /\ putting = {}
         /\ UNCHANGED <<extensionVars, pipe, accepted, lost, mainVars, prompts, notes>>
<1>1. stdinQ # <<>> /\ l = Head(stdinQ) /\ stdinQ' = Tail(stdinQ) /\ stdinQ \in Seq(Lines)
  BY DEF Get, TypeOK
<1>2. /\ Head(stdinQ) \in Lines /\ Tail(stdinQ) \in Seq(Lines) /\ Len(Tail(stdinQ)) = Len(stdinQ) - 1
      /\ Len(stdinQ) \in Nat
  BY <1>1
<1>3. Len(stdinQ) <= MaxStdin /\ MaxStdin \in Nat
  BY ConstantsAssumption DEF TypeOK
<1> QED
  BY <1>1, <1>2, <1>3 DEF Get, Idle

\* A chat queue that grows by a line, while there is room.
LEMMA ChatQueueGrows ==
  ASSUME TypeOK, NEW l \in Chats \cup {Note}, Len(chatQ) < MaxChat
  PROVE  /\ Append(chatQ, l) \in Seq(Chats \cup {Note})
         /\ Len(Append(chatQ, l)) <= MaxChat
<1>1. chatQ \in Seq(Chats \cup {Note}) /\ MaxChat \in Nat
  BY ConstantsAssumption DEF TypeOK
<1> QED
  BY <1>1

QueueTypes ==
  /\ pipe \in Seq(Lines) /\ stdinQ \in Seq(Lines) /\ Len(stdinQ) <= MaxStdin
  /\ accepted \in Seq(Chats) /\ lost \in SUBSET Lines

LoopTypes ==
  /\ chatQ \in Seq(Chats \cup {Note}) /\ Len(chatQ) <= MaxChat
  /\ putting \in SUBSET Chats /\ receiving \in BOOLEAN
  /\ main \in {"poll", "took", "turn", "stopped"} /\ current \in Chats \cup {Note}
  /\ served \in Seq(Chats)

OtherTypes ==
  /\ gone \in BOOLEAN /\ interrupted \in BOOLEAN /\ closed \in BOOLEAN
  /\ task \in {"none", "run", "ask", "cancelled"}
  /\ sends \in 0 .. MaxSends /\ prompts \in 0 .. MaxPrompts
  /\ stops \in 0 .. MaxStops /\ notes \in 0 .. MaxNotes

LEMMA TypeParts == TypeOK <=> QueueTypes /\ LoopTypes /\ OtherTypes
  BY Zenon DEF TypeOK, QueueTypes, LoopTypes, OtherTypes

LEMMA TypePartsNext == TypeOK' <=> QueueTypes' /\ LoopTypes' /\ OtherTypes'
  BY Zenon DEF TypeOK, QueueTypes, LoopTypes, OtherTypes

LEMMA TypeInit == Init => TypeOK
<1> SUFFICES ASSUME Init PROVE TypeOK
  OBVIOUS
<1>1. QueueTypes
  BY ConstantsAssumption DEF Init, QueueTypes
<1>2. LoopTypes
  BY ConstantsAssumption DEF Init, LoopTypes
<1>3. OtherTypes
  <2>1. gone \in BOOLEAN /\ interrupted \in BOOLEAN /\ closed \in BOOLEAN
    BY Zenon DEF Init
  <2>2. sends = 0 /\ prompts = 0 /\ stops = 0 /\ notes = 0 /\ task = "none"
    BY DEF Init
  <2> QED
    BY <2>1, <2>2, ConstantsAssumption DEF OtherTypes
<1> QED
  BY <1>1, <1>2, <1>3, TypeParts

\* A turn's task is there while the turn is, and who waits for an answer has asked.
TaskInv ==
  /\ task # "none" => main = "turn"
  /\ task = "ask" => prompts # 0

LEMMA TaskStep ==
  ASSUME TypeOK, TaskInv, [Next]_vars
  PROVE  TaskInv'
<1>1. prompts \in Nat
  BY ConstantsAssumption DEF TypeOK
<1>2. CASE User \/ Enqueue \/ PutWakes \/ FlushNotifications \/ SendFails \/ UNCHANGED vars
  <2>1. UNCHANGED <<mainVars, turnVars>>
    BY <1>2 DEF User, SendChat, PressStop, SendAnswer, Leave, Write, Enqueue, PutWakes,
                FlushNotifications, SendFails, vars
  <2> QED
    BY <2>1 DEF TaskInv, mainVars, turnVars
<1>3. CASE ReceiveChat \/ RefuseChat \/ ReceiveAnswer \/ ReceiveStop \/ ReceiveEof
  <2>1. ASSUME NEW l, Get(l) PROVE UNCHANGED <<mainVars, prompts>>
    BY <2>1, GetTypes
  <2>2. UNCHANGED <<mainVars, prompts>>
    BY <1>3, <2>1 DEF ReceiveChat, RefuseChat, ReceiveAnswer, ReceiveStop, ReceiveEof
  <2>3. (task' # "none" => task # "none") /\ (task' = "ask" => task = "ask")
    BY <1>3 DEF ReceiveChat, RefuseChat, ReceiveAnswer, ReceiveStop, ReceiveEof
  <2> QED
    BY <2>2, <2>3 DEF TaskInv, mainVars
<1>4. CASE TakeMessage \/ StartTurn \/ EndTurn \/ ShutDown
  BY <1>4 DEF TakeMessage, StartTurn, EndTurn, ShutDown, TaskInv, turnVars
<1>5. CASE Ask
  BY <1>1, <1>5 DEF Ask, TaskInv, mainVars
<1> QED
  BY <1>2, <1>3, <1>4, <1>5 DEF Next, Receive, Turn

LEMMA QueueStep ==
  ASSUME TypeOK, TaskInv, [Next]_vars
  PROVE  QueueTypes'
<1>1. QueueTypes
  BY TypeParts
<1>2. CASE User
  <2>1. ASSUME NEW l \in Lines, Write(l) PROVE QueueTypes'
    <3>1. pipe' \in Seq(Lines)
      BY <2>1, WriteTypes
    <3>2. stdinQ' = stdinQ /\ accepted' = accepted /\ lost' = lost
      BY <2>1 DEF Write
    <3>3. /\ stdinQ' \in Seq(Lines) /\ Len(stdinQ') <= MaxStdin
          /\ accepted' \in Seq(Chats) /\ lost' \in SUBSET Lines
      BY <1>1, <3>2 DEF QueueTypes
    <3> QED
      BY <3>1, <3>3 DEF QueueTypes
  <2>2. CASE SendChat
    <3>1. sends' \in 1..MaxSends /\ (Write(Chat(sends')) \/ Write(Refused))
      BY <2>2, ConstantsAssumption DEF SendChat, TypeOK
    <3> QED
      BY <2>1, <3>1, LinesAre
  <2>3. CASE PressStop
    BY <2>1, <2>3, LinesAre DEF PressStop
  <2>4. CASE SendAnswer
    <3>1. Write(Answer(prompts)) /\ prompts \in 1..MaxPrompts
      BY <2>4, ConstantsAssumption DEF SendAnswer, TypeOK, TaskInv
    <3> QED
      BY <2>1, <3>1, LinesAre
  <2>5. CASE Leave
    BY <2>1, <2>5, LinesAre DEF Leave
  <2> QED
    BY <1>2, <2>2, <2>3, <2>4, <2>5 DEF User
<1>3. CASE Enqueue
  <2>1. /\ pipe \in Seq(Lines) /\ pipe # <<>> /\ pipe' = Tail(pipe)
        /\ stdinQ \in Seq(Lines) /\ MaxStdin \in Nat
    BY <1>3, ConstantsAssumption DEF Enqueue, TypeOK
  <2>2. Head(pipe) \in Lines /\ pipe' \in Seq(Lines)
    BY <2>1
  <2>3. CASE Len(stdinQ) < MaxStdin
    <3>1. /\ stdinQ' = Append(stdinQ, Head(pipe)) /\ lost' = lost
          /\ accepted' = IF IsChat(Head(pipe)) THEN Append(accepted, Head(pipe)) ELSE accepted
      BY <1>3, <2>3 DEF Enqueue
    <3>2. stdinQ' \in Seq(Lines) /\ Len(stdinQ') <= MaxStdin
      BY <2>1, <2>2, <2>3, <3>1
    <3>3. accepted' \in Seq(Chats)
      BY <1>1, <2>2, <3>1, LinesAre DEF QueueTypes
    <3> QED
      BY <1>1, <2>2, <3>1, <3>2, <3>3 DEF QueueTypes
  <2>4. CASE ~(Len(stdinQ) < MaxStdin)
    BY <1>1, <1>3, <2>2, <2>4 DEF Enqueue, QueueTypes
  <2> QED
    BY <2>3, <2>4
<1>4. CASE Receive
  <2>1. ASSUME NEW l, Get(l) PROVE QueueTypes'
    BY <2>1, <1>1, GetTypes DEF QueueTypes
  <2> QED
    BY <1>1, <1>4, <2>1
       DEF Receive, ReceiveChat, RefuseChat, PutWakes, ReceiveAnswer, ReceiveStop, ReceiveEof, QueueTypes, queueVars
<1>5. CASE Turn \/ FlushNotifications \/ Ask \/ SendFails \/ UNCHANGED vars
  <2>1. UNCHANGED queueVars
    BY <1>5 DEF Turn, TakeMessage, StartTurn, EndTurn, ShutDown, FlushNotifications, Ask, SendFails, vars
  <2> QED
    BY <1>1, <2>1 DEF QueueTypes, queueVars
<1> QED
  BY <1>2, <1>3, <1>4, <1>5 DEF Next

LEMMA LoopStep ==
  ASSUME TypeOK, [Next]_vars
  PROVE  LoopTypes'
<1>1. LoopTypes
  BY TypeParts
<1>2. CASE User \/ Enqueue \/ Ask \/ SendFails \/ UNCHANGED vars
  <2>1. UNCHANGED <<chatQ, receiveVars, mainVars>>
    BY <1>2 DEF User, SendChat, PressStop, SendAnswer, Leave, Write, Enqueue, Ask, SendFails, vars
  <2> QED
    BY <1>1, <2>1 DEF LoopTypes, receiveVars, mainVars
<1>3. CASE ReceiveChat
  <2>1. PICK n \in 1..MaxSends :
          /\ Get(Chat(n)) /\ receiving' = receiving
          /\ IF Len(chatQ) < MaxChat
             THEN chatQ' = Append(chatQ, Chat(n)) /\ UNCHANGED putting
             ELSE putting' = putting \cup {Chat(n)} /\ UNCHANGED chatQ
    BY <1>3 DEF ReceiveChat
  <2>2. UNCHANGED mainVars /\ Chat(n) \in Chats
    BY <2>1, GetTypes, LinesAre
  <2>3. CASE Len(chatQ) < MaxChat
    BY <1>1, <2>1, <2>2, <2>3, ChatQueueGrows DEF LoopTypes, mainVars
  <2>4. CASE ~(Len(chatQ) < MaxChat)
    BY <1>1, <2>1, <2>2, <2>4 DEF LoopTypes, mainVars
  <2> QED
    BY <2>3, <2>4
<1>4. CASE PutWakes
  <2>1. PICK l \in putting : chatQ' = Append(chatQ, l) /\ putting' = putting \ {l}
    BY <1>4 DEF PutWakes
  <2>2. Len(chatQ) < MaxChat /\ l \in Chats /\ UNCHANGED <<receiving, mainVars>>
    BY <1>1, <1>4, <2>1 DEF PutWakes, LoopTypes
  <2> QED
    BY <1>1, <2>1, <2>2, ChatQueueGrows DEF LoopTypes, mainVars
<1>5. CASE RefuseChat \/ ReceiveAnswer \/ ReceiveStop \/ ReceiveEof
  <2>1. ASSUME NEW l, Get(l) PROVE UNCHANGED mainVars
    BY <2>1, GetTypes
  <2>2. UNCHANGED <<mainVars, putting, chatQ>> /\ receiving' \in BOOLEAN
    BY <1>1, <1>5, <2>1 DEF RefuseChat, ReceiveAnswer, ReceiveStop, ReceiveEof, receiveVars, LoopTypes
  <2> QED
    BY <1>1, <2>2 DEF LoopTypes, mainVars
<1>6. CASE FlushNotifications
  <2>1. UNCHANGED <<receiveVars, mainVars>>
    BY <1>6 DEF FlushNotifications
  <2>2. (chatQ' = Append(chatQ, Note) /\ Len(chatQ) < MaxChat) \/ chatQ' = chatQ
    BY <1>6 DEF FlushNotifications
  <2> QED
    BY <1>1, <2>1, <2>2, ChatQueueGrows DEF LoopTypes, receiveVars, mainVars
<1>7. CASE TakeMessage
  <2>1. /\ chatQ # <<>> /\ chatQ \in Seq(Chats \cup {Note}) /\ MaxChat \in Nat
        /\ main' = "took" /\ current' = Head(chatQ) /\ chatQ' = Tail(chatQ)
        /\ served' = IF IsChat(Head(chatQ)) THEN Append(served, Head(chatQ)) ELSE served
        /\ UNCHANGED receiveVars
    BY <1>1, <1>7, ConstantsAssumption DEF TakeMessage, LoopTypes
  <2>2. /\ Head(chatQ) \in Chats \cup {Note} /\ Tail(chatQ) \in Seq(Chats \cup {Note})
        /\ Len(Tail(chatQ)) = Len(chatQ) - 1 /\ Len(chatQ) \in Nat
    BY <2>1
  <2>3. served' \in Seq(Chats)
    BY <1>1, <2>1, <2>2, LinesAre DEF LoopTypes
  <2> QED
    BY <1>1, <2>1, <2>2, <2>3 DEF LoopTypes, receiveVars
<1>8. CASE StartTurn \/ EndTurn
  BY <1>1, <1>8 DEF StartTurn, EndTurn, LoopTypes, receiveVars
<1>9. CASE ShutDown
  BY <1>1, <1>9 DEF ShutDown, LoopTypes
<1> QED
  BY <1>2, <1>3, <1>4, <1>5, <1>6, <1>7, <1>8, <1>9 DEF Next, Receive, Turn

LEMMA OtherStep ==
  ASSUME TypeOK, [Next]_vars
  PROVE  OtherTypes'
<1>1. /\ OtherTypes /\ MaxSends \in Nat /\ MaxPrompts \in Nat /\ MaxStops \in Nat /\ MaxNotes \in Nat
  BY TypeParts, ConstantsAssumption
<1>2. CASE User
  <2>1. UNCHANGED <<turnVars, closed, notes>>
    BY <1>2 DEF User, SendChat, PressStop, SendAnswer, Leave, Write
  <2>2. gone' = gone \/ gone' = TRUE
    BY <1>2 DEF User, SendChat, PressStop, SendAnswer, Leave, extensionVars
  <2>3. gone' \in BOOLEAN
    BY <1>1, <2>2, Zenon DEF OtherTypes
  <2>4. sends' \in 0..MaxSends /\ stops' \in 0..MaxStops
    BY <1>1, <1>2 DEF User, SendChat, PressStop, SendAnswer, Leave, OtherTypes, extensionVars
  <2> QED
    BY <1>1, <2>1, <2>3, <2>4 DEF OtherTypes, turnVars
<1>3. CASE Enqueue \/ UNCHANGED vars \/ PutWakes
  <2>1. UNCHANGED <<extensionVars, turnVars, closed, notes>>
    BY <1>3 DEF Enqueue, vars, PutWakes
  <2> QED
    BY <1>1, <2>1 DEF OtherTypes, extensionVars, turnVars
<1>4. CASE ReceiveChat \/ RefuseChat \/ ReceiveAnswer \/ ReceiveStop \/ ReceiveEof
  <2>1. ASSUME NEW l, Get(l) PROVE UNCHANGED <<extensionVars, prompts, notes>>
    BY <2>1, GetTypes
  <2>2. UNCHANGED <<extensionVars, prompts, notes>>
    BY <1>4, <2>1 DEF ReceiveChat, RefuseChat, ReceiveAnswer, ReceiveStop, ReceiveEof
  <2>3. task' \in {"none", "run", "ask", "cancelled"} /\ interrupted' \in BOOLEAN
    BY <1>1, <1>4 DEF ReceiveChat, RefuseChat, ReceiveAnswer, ReceiveStop, ReceiveEof, OtherTypes
  <2>4. closed' \in BOOLEAN
    <3>1. closed' = closed \/ closed' = (closed \/ gone)
      BY <1>4 DEF ReceiveChat, RefuseChat, ReceiveAnswer, ReceiveStop, ReceiveEof
    <3> QED
      BY <1>1, <3>1, Zenon DEF OtherTypes
  <2> QED
    BY <1>1, <2>2, <2>3, <2>4 DEF OtherTypes, extensionVars
<1>5. CASE Turn
  <2>1. UNCHANGED <<extensionVars, prompts, notes>>
    BY <1>5 DEF Turn, TakeMessage, StartTurn, EndTurn, ShutDown, turnVars
  <2>2. /\ task' \in {"none", "run", "ask", "cancelled"}
        /\ interrupted' \in BOOLEAN /\ closed' \in BOOLEAN
    BY <1>1, <1>5 DEF Turn, TakeMessage, StartTurn, EndTurn, ShutDown, turnVars, OtherTypes
  <2> QED
    BY <1>1, <2>1, <2>2 DEF OtherTypes, extensionVars
<1>6. CASE FlushNotifications
  BY <1>1, <1>6 DEF FlushNotifications, OtherTypes, extensionVars, turnVars
<1>7. CASE Ask
  BY <1>1, <1>7 DEF Ask, OtherTypes, extensionVars
<1>8. CASE SendFails
  BY <1>1, <1>8 DEF SendFails, OtherTypes, extensionVars, turnVars
<1> QED
  BY <1>2, <1>3, <1>4, <1>5, <1>6, <1>7, <1>8 DEF Next, Receive

LEMMA Typing == Spec => [](TypeOK /\ TaskInv)
<1>1. Init => TaskInv
  BY DEF Init, TaskInv
<1>2. TypeOK /\ TaskInv /\ [Next]_vars => (TypeOK /\ TaskInv)'
  BY QueueStep, LoopStep, OtherStep, TaskStep, TypePartsNext
<1> QED
  BY <1>1, <1>2, TypeInit, PTL DEF Spec

\* Queues, loops, turn and counters stay what they are.
THEOREM LoopsTyped == Spec => []TypeOK
  BY Typing, PTL

-----------------------------------------------------------------------------
(* The order of the messages                                                *)

\* What has left the stdin queue and waits no more.
Front == served \o ChatsOf(chatQ)

\* At most one put() waits, and the message it waits with comes after those in the
\* chat queue and before those in the stdin queue.
InOrder ==
  main # "stopped" =>
    /\ putting = {} => accepted = Front \o ChatsOf(stdinQ)
    /\ \A l \in putting : putting = {l} /\ accepted = (Front \o <<l>>) \o ChatsOf(stdinQ)

All == Lines \cup {Note}

LEMMA SequencesAre ==
  ASSUME TypeOK
  PROVE  /\ stdinQ \in Seq(Lines) /\ stdinQ \in Seq(All) /\ chatQ \in Seq(Chats \cup {Note}) /\ chatQ \in Seq(All)
         /\ accepted \in Seq(All) /\ served \in Seq(All) /\ putting \subseteq All
         /\ ChatsOf(stdinQ) \in Seq(All) /\ ChatsOf(chatQ) \in Seq(All) /\ Front \in Seq(All)
<1>1. Chats \subseteq All /\ Lines \subseteq All /\ Chats \cup {Note} \subseteq All
  BY LinesAre DEF All
<1>2. /\ stdinQ \in Seq(Lines) /\ stdinQ \in Seq(All)
      /\ chatQ \in Seq(Chats \cup {Note}) /\ chatQ \in Seq(All)
      /\ accepted \in Seq(All) /\ served \in Seq(All)
  BY <1>1, SeqMonotonic DEF TypeOK
<1>3. putting \subseteq All
  BY <1>1 DEF TypeOK
<1>4. Note \in All
  BY DEF All
<1>5. ChatsOf(stdinQ) \in Seq(All) /\ ChatsOf(chatQ) \in Seq(All)
  BY <1>2, <1>4, ChatsAppend
<1>6. Front \in Seq(All)
  BY <1>2, <1>5, ConcatProperties DEF Front
<1> QED
  BY <1>2, <1>3, <1>5, <1>6

\* A step that leaves both queues and what waits alone.
LEMMA OrderKept ==
  ASSUME InOrder, UNCHANGED <<accepted, served, chatQ, stdinQ, putting>>,
         main' # "stopped" => main # "stopped"
  PROVE  InOrder'
<1>1. /\ accepted' = accepted /\ served' = served /\ chatQ' = chatQ
      /\ stdinQ' = stdinQ /\ putting' = putting
  OBVIOUS
<1>2. ChatsOf(stdinQ') = ChatsOf(stdinQ) /\ ChatsOf(chatQ') = ChatsOf(chatQ)
  BY <1>1
<1>3. Front' = Front
  BY <1>1, <1>2 DEF Front
<1> QED
  BY <1>1, <1>2, <1>3 DEF InOrder

LEMMA OrderEnqueue ==
  ASSUME TypeOK, InOrder, Enqueue
  PROVE  InOrder'
<1>1. /\ pipe # <<>> /\ pipe \in Seq(Lines) /\ Head(pipe) \in Lines
      /\ UNCHANGED <<main, putting, chatQ, served>> /\ main # "stopped"
  BY DEF Enqueue, TypeOK, mainVars, receiveVars
<1> DEFINE h == Head(pipe)
<1>2. CASE Len(stdinQ) < MaxStdin
  <2>1. /\ stdinQ' = Append(stdinQ, h)
        /\ accepted' = IF IsChat(h) THEN Append(accepted, h) ELSE accepted
    BY <1>2 DEF Enqueue
  <2>2. h \in All
    BY <1>1 DEF All
  <2> DEFINE D == ChatsOf(stdinQ)
             E == ChatsOf(Append(stdinQ, h))
  <2>3. D \in Seq(All) /\ E = IF IsChat(h) THEN Append(D, h) ELSE D
    BY <2>2, SequencesAre, ChatsAppend
  <2>4. ChatsOf(stdinQ') = E /\ Front' = Front
    BY <1>1, <2>1 DEF Front
  <2>5. ASSUME NEW p \in Seq(All), accepted = p \o D PROVE accepted' = p \o E
    <3> HIDE DEF h, D, E
    <3>1. p \o Append(D, h) = Append(p \o D, h)
      BY <2>2, <2>3, AppendAtEnd
    <3> QED
      BY <2>1, <2>3, <2>5, <3>1
  <2>6. Front \in Seq(All) /\ \A l \in putting : Front \o <<l>> \in Seq(All)
    BY SequencesAre, ConcatProperties
  <2> HIDE DEF h, D, E
  <2>7. putting = {} => accepted = Front \o D
    BY <1>1 DEF InOrder, D
  <2>8. \A l \in putting : putting = {l} /\ accepted = (Front \o <<l>>) \o D
    BY <1>1 DEF InOrder, D
  <2>9. putting' = {} => accepted' = Front' \o ChatsOf(stdinQ')
    BY <1>1, <2>4, <2>5, <2>6, <2>7
  <2>10. ASSUME NEW l \in putting' PROVE putting' = {l} /\ accepted' = (Front' \o <<l>>) \o ChatsOf(stdinQ')
    BY <1>1, <2>4, <2>5, <2>6, <2>8, <2>10
  <2> QED
    BY <2>9, <2>10 DEF InOrder
<1>3. CASE ~(Len(stdinQ) < MaxStdin)
  <2>1. UNCHANGED <<stdinQ, accepted>>
    BY <1>3 DEF Enqueue
  <2> QED
    BY <1>1, <2>1, OrderKept
<1> QED
  BY <1>2, <1>3

\* The line the receive loop takes is a chat message or has no part in the order.
LEMMA GetOrder ==
  ASSUME TypeOK, NEW l, Get(l)
  PROVE  /\ l \in All /\ ChatsOf(stdinQ') \in Seq(All)
         /\ l \in Chats => ChatsOf(stdinQ) = <<l>> \o ChatsOf(stdinQ')
         /\ l \notin Chats => ChatsOf(stdinQ) = ChatsOf(stdinQ')
<1>1. /\ l \in Lines /\ stdinQ # <<>> /\ l = Head(stdinQ) /\ stdinQ' = Tail(stdinQ)
  BY GetTypes
<1>2. stdinQ \in Seq(All) /\ (IsChat(l) <=> l \in Chats) /\ l \in All
  BY <1>1, LinesAre, SequencesAre DEF All
<1> DEFINE t == Tail(stdinQ)
<1>3. /\ ChatsOf(t) \in Seq(All)
      /\ ChatsOf(stdinQ) = IF IsChat(Head(stdinQ)) THEN <<Head(stdinQ)>> \o ChatsOf(t) ELSE ChatsOf(t)
  BY <1>1, <1>2, ChatsTail
<1>4. ChatsOf(stdinQ') = ChatsOf(t)
  BY <1>1
<1> HIDE DEF t
<1> QED
  BY <1>1, <1>2, <1>3, <1>4

\* A chat message that joins the chat queue joins Front.
LEMMA FrontGrows ==
  ASSUME TypeOK, NEW l \in Chats, chatQ' = Append(chatQ, l), served' = served
  PROVE  Front' = Front \o <<l>>
<1>1. l \in All /\ chatQ \in Seq(All) /\ served \in Seq(All) /\ ChatsOf(chatQ) \in Seq(All) /\ IsChat(l)
  BY LinesAre, SequencesAre DEF All
<1> DEFINE c == ChatsOf(chatQ)
           d == ChatsOf(Append(chatQ, l))
<1>2. d = Append(c, l)
  BY <1>1, ChatsAppend
<1>3. ChatsOf(chatQ') = d
  OBVIOUS
<1>4. c \in Seq(All) /\ Front = served \o c /\ Front' = served \o d
  BY <1>1, <1>3 DEF Front
<1> HIDE DEF c, d
<1>5. served \o Append(c, l) = Append(served \o c, l)
  BY SMTT(30), <1>1, <1>4, AppendAtEnd
<1>6. Front \in Seq(All)
  BY SequencesAre
<1>7. Append(Front, l) = Front \o <<l>>
  BY <1>1, <1>6, AppendIsConcat
<1> QED
  BY <1>2, <1>4, <1>5, <1>7

LEMMA OrderReceive ==
  ASSUME TypeOK, InOrder, ReceiveChat
  PROVE  InOrder'
<1>1. PICK n \in 1..MaxSends :
        /\ Get(Chat(n))
        /\ IF Len(chatQ) < MaxChat
           THEN chatQ' = Append(chatQ, Chat(n)) /\ UNCHANGED putting
           ELSE putting' = putting \cup {Chat(n)} /\ UNCHANGED chatQ
  BY DEF ReceiveChat
<1> DEFINE l == Chat(n)
           D == ChatsOf(stdinQ)
           E == ChatsOf(stdinQ')
<1>2. l \in Chats /\ l \in All
  BY LinesAre DEF All
<1>3. putting = {} /\ UNCHANGED <<accepted, mainVars>>
  BY <1>1, GetTypes
<1>4. D = <<l>> \o E /\ E \in Seq(All)
  BY <1>1, <1>2, GetOrder
<1>5. Front \in Seq(All) /\ <<l>> \in Seq(All)
  BY <1>2, SequencesAre
<1>6. main # "stopped" => accepted = Front \o D
  BY <1>3 DEF InOrder
<1>7. Front \o (<<l>> \o E) = (Front \o <<l>>) \o E
  <2> HIDE DEF l, E
  <2> QED
    BY SMTT(30), <1>4, <1>5, ConcatAssociative
<1>8. main' = main /\ accepted' = accepted /\ served' = served
  BY <1>3 DEF mainVars
<1>9. CASE Len(chatQ) < MaxChat
  <2>1. chatQ' = Append(chatQ, l) /\ putting' = {}
    BY <1>1, <1>3, <1>9
  <2>2. Front' = Front \o <<l>>
    BY <1>2, <1>8, <2>1, FrontGrows
  <2> HIDE DEF l, D
  <2>3. main' # "stopped" => accepted' = Front' \o E
    BY <1>4, <1>6, <1>7, <1>8, <2>2
  <2> QED
    BY <2>1, <2>3 DEF InOrder
<1>10. CASE ~(Len(chatQ) < MaxChat)
  <2>1. chatQ' = chatQ /\ putting' = {l}
    BY <1>1, <1>3, <1>10
  <2>2. Front' = Front
    BY <1>8, <2>1 DEF Front
  <2> HIDE DEF l, D
  <2>3. main' # "stopped" => accepted' = (Front' \o <<l>>) \o E
    BY <1>4, <1>6, <1>7, <1>8, <2>2
  <2> QED
    BY <2>1, <2>3 DEF InOrder
<1> QED
  BY <1>9, <1>10

LEMMA OrderPutWakes ==
  ASSUME TypeOK, InOrder, PutWakes
  PROVE  InOrder'
<1>1. PICK l \in putting : chatQ' = Append(chatQ, l) /\ putting' = putting \ {l}
  BY DEF PutWakes
<1>2. UNCHANGED <<accepted, stdinQ, main, served>>
  BY DEF PutWakes, queueVars, mainVars
<1>3. l \in Chats
  BY DEF TypeOK
<1>4. Front' = Front \o <<l>>
  BY <1>1, <1>2, <1>3, FrontGrows
<1>5. ChatsOf(stdinQ') = ChatsOf(stdinQ)
  BY <1>2
<1>6. main # "stopped" => putting = {l} /\ accepted = (Front \o <<l>>) \o ChatsOf(stdinQ)
  BY DEF InOrder
<1>7. main' # "stopped" => putting' = {} /\ accepted' = Front' \o ChatsOf(stdinQ')
  BY <1>1, <1>2, <1>4, <1>5, <1>6
<1> QED
  BY <1>7 DEF InOrder

\* Refused messages, answers, Stop and the end of file have no part in the order.
LEMMA OrderOther ==
  ASSUME TypeOK, InOrder, RefuseChat \/ ReceiveAnswer \/ ReceiveStop \/ ReceiveEof
  PROVE  InOrder'
<1>1. \E l : Get(l) /\ l \notin Chats /\ putting' = putting /\ chatQ' = chatQ
  <2>1. (\A n : Answer(n) \notin Chats) /\ Refused \notin Chats /\ Stop \notin Chats /\ Eof \notin Chats
    BY DEF Answer, Refused, Stop, Eof, Chats
  <2> QED
    BY <2>1 DEF RefuseChat, ReceiveAnswer, ReceiveStop, ReceiveEof, receiveVars
<1>2. ChatsOf(stdinQ') = ChatsOf(stdinQ)
  BY <1>1, GetOrder
<1>3. UNCHANGED <<accepted, mainVars, putting, chatQ>>
  BY <1>1, GetTypes
<1>4. Front' = Front /\ main' = main /\ accepted' = accepted /\ putting' = putting
  BY <1>3 DEF Front, mainVars
<1> QED
  BY <1>2, <1>4 DEF InOrder

LEMMA OrderNotified ==
  ASSUME TypeOK, InOrder, FlushNotifications
  PROVE  InOrder'
<1>1. /\ UNCHANGED <<accepted, stdinQ, putting, main, served>>
      /\ chatQ' = Append(chatQ, Note) \/ chatQ' = chatQ
  BY DEF FlushNotifications, queueVars, receiveVars, mainVars
<1>2. ChatsOf(Append(chatQ, Note)) = ChatsOf(chatQ)
  <2>1. Note \in All /\ ~IsChat(Note) /\ chatQ \in Seq(All)
    BY LinesAre, SequencesAre DEF All
  <2> QED
    BY <2>1, ChatsAppend
<1>3. ChatsOf(chatQ') = ChatsOf(chatQ)
  BY <1>1, <1>2
<1>4. Front' = Front /\ ChatsOf(stdinQ') = ChatsOf(stdinQ)
  BY <1>1, <1>3 DEF Front
<1> QED
  BY <1>1, <1>4 DEF InOrder

LEMMA OrderTake ==
  ASSUME TypeOK, InOrder, TakeMessage
  PROVE  InOrder'
<1>1. /\ UNCHANGED <<accepted, stdinQ, putting>> /\ main = "poll" /\ main' = "took"
      /\ chatQ # <<>> /\ chatQ' = Tail(chatQ)
      /\ served' = IF IsChat(Head(chatQ)) THEN Append(served, Head(chatQ)) ELSE served
  BY DEF TakeMessage, queueVars, receiveVars
<1> DEFINE h == Head(chatQ)
           c == ChatsOf(chatQ)
           d == ChatsOf(Tail(chatQ))
<1>2. chatQ \in Seq(All) /\ served \in Seq(All) /\ h \in All
  BY <1>1, SequencesAre
<1>3. d \in Seq(All) /\ c = IF IsChat(h) THEN <<h>> \o d ELSE d
  BY <1>1, <1>2, ChatsTail
<1>4. ChatsOf(chatQ') = d
  BY <1>1
<1>5. Front = served \o c /\ Front' = served' \o d
  BY <1>4 DEF Front
<1>6. Front' = Front
  <2> HIDE DEF h, c, d
  <2>1. CASE ~IsChat(h)
    BY <1>1, <1>3, <1>5, <2>1 DEF h
  <2>2. CASE IsChat(h)
    <3>1. served' = Append(served, h)
      BY <1>1, <2>2 DEF h
    <3>2. served' = served \o <<h>> /\ <<h>> \in Seq(All)
      BY <1>2, <3>1, AppendIsConcat
    <3>3. (served \o <<h>>) \o d = served \o (<<h>> \o d)
      BY <1>2, <1>3, <3>2, ConcatAssociative
    <3> QED
      BY <1>3, <1>5, <2>2, <3>2, <3>3
  <2> QED
    BY <2>1, <2>2
<1>7. ChatsOf(stdinQ') = ChatsOf(stdinQ)
  BY <1>1
<1> QED
  BY <1>1, <1>6, <1>7 DEF InOrder

LEMMA OrderStep ==
  ASSUME TypeOK, TaskInv, InOrder, [Next]_vars
  PROVE  InOrder'
<1>1. CASE User \/ Ask \/ SendFails \/ UNCHANGED vars
  <2>1. UNCHANGED <<accepted, served, chatQ, stdinQ, putting, main>>
    BY <1>1 DEF User, SendChat, PressStop, SendAnswer, Leave, Write, Ask, SendFails, vars,
                mainVars, queueVars, receiveVars
  <2> QED
    BY <2>1, OrderKept
<1>2. CASE Enqueue
  BY <1>2, OrderEnqueue
<1>3. CASE Receive
  BY <1>3, OrderReceive, OrderPutWakes, OrderOther DEF Receive
<1>4. CASE FlushNotifications
  BY <1>4, OrderNotified
<1>5. CASE TakeMessage
  BY <1>5, OrderTake
<1>6. CASE StartTurn \/ EndTurn
  <2>1. UNCHANGED <<accepted, served, chatQ, stdinQ, putting>> /\ main # "stopped"
    BY <1>6 DEF StartTurn, EndTurn, TaskInv, queueVars, receiveVars
  <2> QED
    BY <2>1, OrderKept
<1>7. CASE ShutDown
  BY <1>7 DEF ShutDown, InOrder
<1> QED
  BY <1>1, <1>2, <1>3, <1>4, <1>5, <1>6, <1>7 DEF Next, Turn

LEMMA OrderInit == Init => InOrder
<1> SUFFICES ASSUME Init PROVE InOrder
  OBVIOUS
<1>1. Front = <<>> \o <<>> /\ ChatsOf(stdinQ) = <<>> /\ putting = {} /\ accepted = <<>>
  BY ChatsEmpty DEF Init, Front
<1>2. <<>> \in Seq({}) /\ <<>> \o <<>> = <<>>
  BY ConcatEmptySeq
<1> QED
  BY <1>1, <1>2 DEF InOrder

LEMMA OrderGives ==
  ASSUME TypeOK, InOrder
  PROVE  AcceptedInOrder
<1> SUFFICES ASSUME main # "stopped"
             PROVE  \E waiting \in {<<>>} \cup {<<l>> : l \in putting} :
                      accepted = served \o ChatsOf(chatQ) \o waiting \o ChatsOf(stdinQ)
  BY DEF AcceptedInOrder
<1>1. CASE putting = {}
  <2>1. Front \o <<>> = Front
    BY SequencesAre, ConcatEmptySeq
  <2>2. accepted = (Front \o <<>>) \o ChatsOf(stdinQ)
    BY <1>1, <2>1 DEF InOrder
  <2>3. <<>> \in {<<>>} \cup {<<l>> : l \in putting}
    OBVIOUS
  <2> QED
    BY <2>2, <2>3 DEF Front
<1>2. CASE putting # {}
  <2>1. PICK l \in putting : accepted = (Front \o <<l>>) \o ChatsOf(stdinQ)
    BY <1>2 DEF InOrder
  <2>2. <<l>> \in {<<>>} \cup {<<k>> : k \in putting}
    OBVIOUS
  <2> QED
    BY <2>1, <2>2 DEF Front
<1> QED
  BY <1>1, <1>2

\* For queues of any size, whatever is lost at a full stdin queue: the chat messages
\* that queue took are served in their order, and none is missing or served twice.
THEOREM MessagesInOrder == Spec => []AcceptedInOrder
<1>1. TypeOK /\ TaskInv /\ InOrder /\ [Next]_vars => InOrder'
  BY OrderStep
<1>2. TypeOK /\ InOrder => AcceptedInOrder
  BY OrderGives
<1> QED
  BY <1>1, <1>2, OrderInit, Typing, PTL DEF Spec

-----------------------------------------------------------------------------
(* AgentConnection: what its invariant says.                                *)

\* What is assumed of the bounds.
Bounds ==
  MaxRestarts \in Nat /\ MaxAgents \in Nat /\ MaxManual \in Nat /\ MaxMessages \in Nat

Lives == {"unborn", "unfit", "quiet", "ready", "dead", "over"}

\* dispose() can take the timer of the handle away: there is one.
HandleIsATimer == handle => autoTimers > 0

\* Only a write to a process that has died fails.
UnsentIsDead == \A a \in Agents : unsent[a] > 0 => life[a] \in {"unfit", "dead", "over"}

\* The current process has been started.
ProcessIsBorn == process # Nobody => life[process] # "unborn"

AgentInv == Bounds /\ AgentTypeOK /\ HandleIsATimer /\ StartsBudgeted /\ UnsentIsDead /\ ProcessIsBorn

-----------------------------------------------------------------------------
(* The parts of a step                                                      *)

LEMMA NobodyIsNoAgent == Bounds => Nobody \notin Agents
  BY DEF Bounds, Agents, Nobody

LEMMA CleanupType ==
  ASSUME AgentTypeOK, Cleanup
  PROVE  /\ process' \in Agents \cup {Nobody} /\ dataSocket' \in Agents \cup {Nobody}
         /\ server' \in BOOLEAN /\ online' \in SUBSET Agents
         /\ process' = Nobody
  BY DEF Cleanup, AgentTypeOK

\* Every attempt is counted, and the handle is that of a timer.
LEMMA RestartCounted ==
  ASSUME Bounds, AgentTypeOK, HandleIsATimer, MaybeAutoRestart
  PROVE  /\ listening' = listening /\ manualTimers' = manualTimers
         /\ autoTimers' \in Nat /\ count' \in 0 .. MaxRestarts
         /\ handle' \in BOOLEAN /\ offered' \in BOOLEAN
         /\ autoTimers' - autoTimers = count' - count
         /\ HandleIsATimer'
<1> USE DEF Bounds
<1>1. UNCHANGED <<listening, manualTimers>>
  BY DEF MaybeAutoRestart
<1>2. CASE UNCHANGED <<autoTimers, handle, count>> /\ offered' \in BOOLEAN
  BY <1>1, <1>2 DEF AgentTypeOK, HandleIsATimer
<1>3. CASE /\ ~(count >= MaxRestarts) /\ count' = count + 1
           /\ autoTimers' = autoTimers + 1 /\ handle' = TRUE /\ UNCHANGED offered
  BY <1>1, <1>3 DEF AgentTypeOK, HandleIsATimer
<1>4. \/ UNCHANGED <<autoTimers, handle, count>> /\ (offered' = offered \/ offered' = TRUE)
      \/ /\ ~(count >= MaxRestarts) /\ count' = count + 1
         /\ autoTimers' = autoTimers + 1 /\ handle' = TRUE /\ UNCHANGED offered
  BY Zenon DEF MaybeAutoRestart
<1>5. offered \in BOOLEAN
  BY DEF AgentTypeOK
<1> QED
  BY <1>2, <1>3, <1>4, <1>5

LEMMA ConnectCounted ==
  ASSUME AgentTypeOK, Connect
  PROVE  /\ server' \in BOOLEAN
         /\ listening' = listening \/ listening' = listening + 1
  BY DEF Connect, AgentTypeOK

LEMMA TellType ==
  ASSUME AgentTypeOK, Tell
  PROVE  told' \in SUBSET Agents
  BY DEF Tell, AgentTypeOK

LEMMA AgentInvStep ==
  ASSUME AgentInv, [AgentNext]_agentVars
  PROVE  AgentInv'
<1> USE NobodyIsNoAgent DEF AgentInv, Bounds
<1>1. CASE AutoTimer
  <2>1. /\ autoTimers > 0 /\ autoTimers' = autoTimers - 1 /\ handle' = FALSE
        /\ UNCHANGED <<manualTimers, count, offered, flagVars, process, dataSocket, online,
                       historyVars, boundVars, life, told, unsent>>
    BY <1>1 DEF AutoTimer
  <2>2. /\ server' \in BOOLEAN
        /\ listening' = listening \/ listening' = listening + 1
    BY <1>1, ConnectCounted DEF AutoTimer, AgentTypeOK
  <2>3. autoTimers' \in Nat /\ listening' \in Nat
    BY <2>1, <2>2 DEF AgentTypeOK
  <2>4. AgentTypeOK'
    BY <2>1, <2>2, <2>3 DEF AgentTypeOK, flagVars, historyVars, boundVars
  <2>5. StartsBudgeted'
    BY <2>1, <2>2 DEF AgentTypeOK, StartsBudgeted, UnderWay, historyVars
  <2> QED
    BY <2>1, <2>4, <2>5 DEF HandleIsATimer, UnsentIsDead, ProcessIsBorn
<1>2. CASE ManualTimer
  <2>1. /\ manualTimers > 0 /\ manualTimers' = manualTimers - 1
        /\ UNCHANGED <<autoTimers, handle, count, offered, flagVars, process, dataSocket, online,
                       historyVars, boundVars, life, told, unsent>>
    BY <1>2 DEF ManualTimer
  <2>2. /\ server' \in BOOLEAN
        /\ listening' = listening \/ listening' = listening + 1
    BY <1>2, ConnectCounted DEF ManualTimer
  <2>3. manualTimers' \in Nat /\ listening' \in Nat
    BY <2>1, <2>2 DEF AgentTypeOK
  <2>4. AgentTypeOK'
    BY <2>1, <2>2, <2>3 DEF AgentTypeOK, flagVars, historyVars, boundVars
  <2>5. StartsBudgeted'
    BY <2>1, <2>2 DEF AgentTypeOK, StartsBudgeted, UnderWay, historyVars
  <2> QED
    BY <2>1, <2>4, <2>5 DEF HandleIsATimer, UnsentIsDead, ProcessIsBorn
<1>3. CASE Listening
  <2>1. /\ listening > 0 /\ listening' = listening - 1
        /\ UNCHANGED <<autoTimers, handle, manualTimers, count, offered, flagVars, server,
                       dataSocket, online, due, boundVars, told, unsent>>
    BY <1>3 DEF Listening
  <2>2. listening' \in Nat
    BY <2>1 DEF AgentTypeOK
  <2>3. CASE broken' = TRUE /\ UNCHANGED <<process, life, starts>>
    <3>1. AgentTypeOK'
      BY <2>1, <2>2, <2>3 DEF AgentTypeOK, flagVars, boundVars
    <3>2. StartsBudgeted'
      BY <2>1, <2>3 DEF AgentTypeOK, StartsBudgeted, UnderWay
    <3> QED
      BY <2>1, <2>3, <3>1, <3>2 DEF HandleIsATimer, UnsentIsDead, ProcessIsBorn
  <2>4. ASSUME NEW a \in Unborn, NEW fit \in {"quiet", "unfit"},
               process' = a, life' = [life EXCEPT ![a] = fit], starts' = starts + 1,
               UNCHANGED broken
        PROVE  AgentInv'
    <3>1. a \in Agents /\ life[a] = "unborn"
      BY DEF Unborn
    <3>2. life' \in [Agents -> Lives] /\ starts' \in Nat
      BY <2>4, <3>1 DEF AgentTypeOK, Lives
    <3>3. AgentTypeOK'
      BY <2>1, <2>2, <2>4, <3>1, <3>2 DEF AgentTypeOK, flagVars, boundVars, Lives
    <3>4. StartsBudgeted'
      BY <2>1, <2>4 DEF AgentTypeOK, StartsBudgeted, UnderWay
    <3>5. UnsentIsDead'
      BY <2>1, <2>4, <3>1 DEF AgentTypeOK, UnsentIsDead
    <3>6. ProcessIsBorn'
      BY <2>4, <3>1 DEF AgentTypeOK, ProcessIsBorn
    <3> QED
      BY <2>1, <3>3, <3>4, <3>5, <3>6 DEF HandleIsATimer
  <2> QED
    BY <1>3, <2>3, <2>4 DEF Listening
<1>4. ASSUME NEW a \in Agents, Online(a)
      PROVE  AgentInv'
  BY <1>4 DEF Online, AgentTypeOK, timerVars, flagVars, historyVars, boundVars,
              HandleIsATimer, StartsBudgeted, UnderWay, UnsentIsDead, ProcessIsBorn
<1>5. ASSUME NEW a \in Agents, Die(a)
      PROVE  AgentInv'
  <2>1. /\ Alive(a) /\ life' = [life EXCEPT ![a] = "dead"]
        /\ UNCHANGED <<timerVars, flagVars, process, server, historyVars, boundVars, told, unsent>>
        /\ online' \in SUBSET Agents /\ dataSocket' \in Agents \cup {Nobody}
    BY <1>5 DEF Die, AgentTypeOK
  <2>2. life' \in [Agents -> Lives]
    BY <2>1 DEF AgentTypeOK, Lives
  <2>3. AgentTypeOK'
    BY <2>1, <2>2 DEF AgentTypeOK, Lives, timerVars, flagVars, historyVars, boundVars
  <2>4. StartsBudgeted' /\ HandleIsATimer'
    BY <2>1 DEF StartsBudgeted, UnderWay, HandleIsATimer, timerVars, historyVars
  <2>5. UnsentIsDead' /\ ProcessIsBorn'
    BY <2>1 DEF AgentTypeOK, UnsentIsDead, ProcessIsBorn
  <2> QED
    BY <2>3, <2>4, <2>5
<1>6. ASSUME NEW a \in Agents, FirstMessage(a)
      PROVE  AgentInv'
  <2>1. /\ life[a] = "quiet" /\ life' = [life EXCEPT ![a] = "ready"]
        /\ count' = 0 /\ starts' = 0 /\ due' = UnderWay
        /\ UNCHANGED <<listening, autoTimers, handle, manualTimers, offered, flagVars, socketVars,
                       broken, boundVars, told, unsent>>
    BY <1>6 DEF FirstMessage
  <2>2. life' \in [Agents -> Lives] /\ due' \in Nat
    BY <2>1 DEF AgentTypeOK, Lives, UnderWay
  <2>3. AgentTypeOK'
    BY <2>1, <2>2 DEF AgentTypeOK, Lives, flagVars, socketVars, boundVars
  <2>4. StartsBudgeted'
    BY <2>1 DEF AgentTypeOK, StartsBudgeted, UnderWay
  <2>5. UnsentIsDead' /\ ProcessIsBorn' /\ HandleIsATimer'
    BY <2>1 DEF AgentTypeOK, UnsentIsDead, ProcessIsBorn, HandleIsATimer, socketVars
  <2> QED
    BY <2>3, <2>4, <2>5
<1>7. ASSUME NEW a \in Agents, Exit(a)
      PROVE  AgentInv'
  <2>1. /\ life[a] \in {"dead", "unfit"} /\ life' = [life EXCEPT ![a] = "over"]
        /\ Cleanup /\ MaybeAutoRestart
        /\ UNCHANGED <<flagVars, historyVars, boundVars, told, unsent>>
    BY <1>7 DEF Exit
  <2>2. life' \in [Agents -> Lives]
    BY <2>1 DEF AgentTypeOK, Lives
  <2>3. AgentTypeOK'
    BY <2>1, <2>2, CleanupType, RestartCounted DEF AgentTypeOK, Lives, flagVars, historyVars, boundVars
  <2>4. StartsBudgeted' /\ HandleIsATimer'
    BY <2>1, RestartCounted DEF AgentTypeOK, StartsBudgeted, UnderWay, historyVars
  <2>5. UnsentIsDead' /\ ProcessIsBorn'
    BY <2>1, CleanupType DEF AgentTypeOK, UnsentIsDead, ProcessIsBorn
  <2> QED
    BY <2>3, <2>4, <2>5
<1>8. ASSUME NEW a \in Agents, WriteError(a)
      PROVE  AgentInv'
  <2>1. /\ unsent[a] > 0 /\ unsent' = [unsent EXCEPT ![a] = unsent[a] - 1]
        /\ Cleanup /\ MaybeAutoRestart
        /\ UNCHANGED <<flagVars, historyVars, boundVars, life, told>>
    BY <1>8 DEF WriteError
  <2>2. unsent' \in [Agents -> Nat]
    BY <2>1 DEF AgentTypeOK
  <2>3. AgentTypeOK'
    BY <2>1, <2>2, CleanupType, RestartCounted DEF AgentTypeOK, flagVars, historyVars, boundVars
  <2>4. StartsBudgeted' /\ HandleIsATimer'
    BY <2>1, RestartCounted DEF AgentTypeOK, StartsBudgeted, UnderWay, historyVars
  <2>5. UnsentIsDead' /\ ProcessIsBorn'
    BY <2>1, CleanupType DEF AgentTypeOK, UnsentIsDead, ProcessIsBorn
  <2> QED
    BY <2>3, <2>4, <2>5
<1>9. CASE Send
  <2>1. /\ messages' = messages + 1
        /\ UNCHANGED <<flagVars, socketVars, historyVars, manual, life, told>>
    BY <1>9 DEF Send
  <2>2. CASE process = Nobody
    <3>1. MaybeAutoRestart /\ UNCHANGED unsent
      BY <1>9, <2>2 DEF Send
    <3>2. AgentTypeOK'
      BY <2>1, <3>1, RestartCounted DEF AgentTypeOK, flagVars, socketVars, historyVars
    <3>3. StartsBudgeted' /\ HandleIsATimer'
      BY <2>1, <3>1, RestartCounted DEF AgentTypeOK, StartsBudgeted, UnderWay, historyVars
    <3> QED
      BY <2>1, <3>1, <3>2, <3>3 DEF UnsentIsDead, ProcessIsBorn, socketVars
  <2>3. CASE process # Nobody
    <3>1. /\ unsent' = IF Alive(process) THEN unsent ELSE [unsent EXCEPT ![process] = unsent[process] + 1]
          /\ UNCHANGED timerVars
      BY <1>9, <2>3 DEF Send
    <3>2. process \in Agents /\ life[process] # "unborn"
      BY <2>3 DEF AgentTypeOK, ProcessIsBorn
    <3>3. unsent' \in [Agents -> Nat]
      BY <3>1, <3>2 DEF AgentTypeOK
    <3>4. AgentTypeOK'
      BY <2>1, <3>1, <3>3 DEF AgentTypeOK, timerVars, flagVars, socketVars, historyVars
    <3>5. StartsBudgeted' /\ HandleIsATimer'
      BY <2>1, <3>1 DEF StartsBudgeted, UnderWay, HandleIsATimer, timerVars, historyVars
    <3>6. UnsentIsDead'
      BY <2>1, <3>1, <3>2 DEF AgentTypeOK, UnsentIsDead, Alive
    <3> QED
      BY <2>1, <3>4, <3>5, <3>6 DEF ProcessIsBorn, socketVars
  <2> QED
    BY <2>2, <2>3
<1>10. CASE Disconnect
  <2>1. /\ intentional' = TRUE
        /\ UNCHANGED <<timerVars, disposed, socketVars, historyVars, boundVars, life, unsent>>
    BY <1>10 DEF Disconnect
  <2>2. told' \in SUBSET Agents
    BY <1>10, TellType DEF Disconnect
  <2>3. intentional' \in BOOLEAN /\ disposed' \in BOOLEAN
    BY <2>1 DEF AgentTypeOK
  <2>4. UNCHANGED <<timerVars, socketVars, historyVars, boundVars, life, unsent>>
    BY <2>1
  <2>5. AgentTypeOK'
    BY <2>2, <2>3, <2>4 DEF AgentTypeOK, timerVars, socketVars, historyVars, boundVars
  <2> QED
    BY <1>10, <2>5 DEF Disconnect, timerVars, socketVars, historyVars,
       StartsBudgeted, UnderWay, HandleIsATimer, UnsentIsDead, ProcessIsBorn
<1>11. CASE Restart
  <2>1. /\ manual' = manual + 1 /\ count' = 0 /\ intentional' = FALSE /\ Tell
        /\ manualTimers' = manualTimers + 1 /\ offered' = FALSE
        /\ starts' = 0 /\ due' = UnderWay + 1
        /\ UNCHANGED <<listening, autoTimers, handle, disposed, broken, messages, life, unsent>>
        /\ Cleanup \/ UNCHANGED socketVars
    BY <1>11 DEF Restart
  <2>2. due' \in Nat /\ manualTimers' \in Nat
    BY <2>1 DEF AgentTypeOK, UnderWay
  <2>3. /\ process' \in Agents \cup {Nobody} /\ dataSocket' \in Agents \cup {Nobody}
        /\ server' \in BOOLEAN /\ online' \in SUBSET Agents
        /\ process' = Nobody \/ process' = process
    BY <2>1, CleanupType DEF AgentTypeOK, socketVars
  <2>4. AgentTypeOK'
    <3>1. told' \in SUBSET Agents
      BY <2>1, TellType
    <3>2. /\ intentional' \in BOOLEAN /\ offered' \in BOOLEAN /\ disposed' \in BOOLEAN
          /\ handle' \in BOOLEAN /\ broken' \in BOOLEAN
      BY <2>1, Zenon DEF AgentTypeOK
    <3>3. count' \in 0 .. MaxRestarts /\ manual' \in Nat /\ starts' \in Nat
      BY <2>1 DEF AgentTypeOK
    <3>4. UNCHANGED <<listening, autoTimers, messages, life, unsent>>
      BY <2>1
    <3> QED
      BY <2>2, <2>3, <3>1, <3>2, <3>3, <3>4 DEF AgentTypeOK
  <2>5. StartsBudgeted' /\ HandleIsATimer'
    BY <2>1 DEF AgentTypeOK, StartsBudgeted, UnderWay, HandleIsATimer
  <2>6. UnsentIsDead' /\ ProcessIsBorn'
    BY <2>1, <2>3 DEF UnsentIsDead, ProcessIsBorn
  <2> QED
    BY <2>4, <2>5, <2>6
<1>12. CASE Dispose
  <2>1. /\ disposed' = TRUE /\ intentional' = TRUE /\ handle' = FALSE
        /\ Tell /\ Cleanup
        /\ UNCHANGED <<listening, manualTimers, count, offered, historyVars, boundVars, life, unsent>>
    BY <1>12 DEF Dispose
  <2>2. autoTimers' \in Nat /\ autoTimers' <= autoTimers
    <3>1. autoTimers' = IF handle THEN autoTimers - 1 ELSE autoTimers
      BY <1>12 DEF Dispose
    <3>2. handle => autoTimers > 0
      BY DEF HandleIsATimer
    <3> QED
      BY <3>1, <3>2 DEF AgentTypeOK
  <2>3. AgentTypeOK'
    BY <2>1, <2>2, CleanupType, TellType DEF AgentTypeOK, historyVars, boundVars
  <2>4. StartsBudgeted'
    <3>1. UNCHANGED <<listening, manualTimers, count, starts, due>>
      BY <2>1 DEF historyVars
    <3>2. starts + (autoTimers + manualTimers + listening) <= due + count
      BY DEF StartsBudgeted, UnderWay
    <3>3. /\ starts \in Nat /\ autoTimers \in Nat /\ manualTimers \in Nat /\ listening \in Nat
          /\ due \in Nat /\ count \in Nat
      BY DEF AgentTypeOK
    <3>4. ASSUME NEW n \in Nat, n <= autoTimers
          PROVE  starts + (n + manualTimers + listening) <= due + count
      BY <3>2, <3>3, <3>4, SMTT(30)
    <3> QED
      BY <2>2, <3>1, <3>4 DEF StartsBudgeted, UnderWay
  <2>5. UnsentIsDead' /\ ProcessIsBorn'
    BY <2>1, CleanupType DEF UnsentIsDead, ProcessIsBorn
  <2>6. HandleIsATimer'
    BY <2>1 DEF HandleIsATimer
  <2> QED
    BY <2>3, <2>4, <2>5, <2>6
<1>13. CASE UNCHANGED agentVars
  BY <1>13 DEF agentVars, timerVars, flagVars, socketVars, historyVars, boundVars, AgentTypeOK,
     HandleIsATimer, StartsBudgeted, UnderWay, UnsentIsDead, ProcessIsBorn
<1> QED
  BY <1>1, <1>2, <1>3, <1>4, <1>5, <1>6, <1>7, <1>8, <1>9, <1>10, <1>11, <1>12, <1>13
  DEF AgentNext, Callback

LEMMA AgentInvCorrect ==
  ASSUME Bounds
  PROVE  AgentSpec => []AgentInv
<1>1. AgentInit => AgentInv
  <2> SUFFICES ASSUME AgentInit PROVE AgentInv
    OBVIOUS
  <2>1. /\ life \in [Agents -> Lives] /\ unsent \in [Agents -> Nat]
        /\ count \in 0 .. MaxRestarts
    BY DEF Bounds, AgentInit, Lives
  <2>2. /\ server \in BOOLEAN /\ handle \in BOOLEAN /\ offered \in BOOLEAN
        /\ broken \in BOOLEAN /\ intentional \in BOOLEAN /\ disposed \in BOOLEAN
    BY Zenon DEF AgentInit
  <2>3. AgentTypeOK
    BY <2>1, <2>2 DEF AgentInit, AgentTypeOK, Lives
  <2>4. HandleIsATimer /\ StartsBudgeted
    BY DEF AgentInit, HandleIsATimer, StartsBudgeted, UnderWay
  <2>5. UnsentIsDead /\ ProcessIsBorn
    BY DEF AgentInit, UnsentIsDead, ProcessIsBorn
  <2> QED
    BY <2>3, <2>4, <2>5 DEF AgentInv
<1>2. AgentInv /\ [AgentNext]_agentVars => AgentInv'
  BY AgentInvStep
<1> QED
  BY <1>1, <1>2, PTL DEF AgentSpec

\* For any bounds, every variable of the connection keeps its type.
THEOREM AgentTypes ==
  AgentSpec => []AgentTypeOK
<1>1. Bounds
  BY AgentAssumption DEF Bounds
<1> QED
  BY <1>1, AgentInvCorrect, PTL DEF AgentInv

\* For any budget and any number of agents, exits, failed writes and manual restarts,
\* the starts since the count was reset stay within what was under way and the
\* attempts counted since.
THEOREM StartsBudgetedCorrect ==
  AgentSpec => []StartsBudgeted
<1>1. Bounds
  BY AgentAssumption DEF Bounds
<1> QED
  BY <1>1, AgentInvCorrect, PTL DEF AgentInv

-----------------------------------------------------------------------------
(* A live agent is kept                                                     *)

KeptStep ==
  process # Nobody /\ Alive(process) /\ process' # process
    => \/ process \in told'
       \/ \E b \in Agents \ {process} : life'[b] # life[b] \/ unsent'[b] # unsent[b]

LEMMA KeptByStep ==
  ASSUME AgentInv, [AgentNext]_agentVars, process # Nobody, Alive(process), process' # process
  PROVE  \/ process \in told'
         \/ \E b \in Agents \ {process} : life'[b] # life[b] \/ unsent'[b] # unsent[b]
<1> USE NobodyIsNoAgent DEF AgentInv
<1>1. process \in Agents /\ life[process] \in {"quiet", "ready"}
  BY DEF AgentTypeOK, Alive
<1>2. CASE Listening
  <2>1. PICK a \in Unborn, fit \in {"quiet", "unfit"} :
          process' = a /\ life' = [life EXCEPT ![a] = fit]
    BY <1>2 DEF Listening
  <2>2. a \in Agents \ {process} /\ life'[a] # life[a]
    BY <1>1, <2>1 DEF Unborn, AgentTypeOK
  <2> QED
    BY <2>2
<1>3. ASSUME NEW a \in Agents, Exit(a)
      PROVE  \E b \in Agents \ {process} : life'[b] # life[b] \/ unsent'[b] # unsent[b]
  <2>1. a # process /\ life'[a] # life[a]
    BY <1>1, <1>3 DEF Exit, AgentTypeOK
  <2> QED
    BY <2>1
<1>4. ASSUME NEW a \in Agents, WriteError(a)
      PROVE  \E b \in Agents \ {process} : life'[b] # life[b] \/ unsent'[b] # unsent[b]
  <2>1. a # process
    BY <1>1, <1>4 DEF WriteError, UnsentIsDead
  <2>2. unsent'[a] # unsent[a]
    BY <1>4 DEF WriteError, AgentTypeOK
  <2> QED
    BY <2>1, <2>2
<1>5. CASE Restart \/ Dispose
  BY <1>1, <1>5 DEF Restart, Dispose, Tell
<1>6. ~ (AutoTimer \/ ManualTimer \/ Send \/ Disconnect \/ UNCHANGED agentVars)
  BY DEF AutoTimer, ManualTimer, Send, Disconnect, agentVars, socketVars
<1>7. ASSUME NEW a \in Agents
      PROVE  ~ (Online(a) \/ Die(a) \/ FirstMessage(a))
  BY DEF Online, Die, FirstMessage, socketVars
<1> QED
  BY <1>2, <1>3, <1>4, <1>5, <1>6, <1>7 DEF AgentNext, Callback

\* For any number of agents, a live one is let go of only when it was told to end,
\* or by what is reported of another one.
THEOREM LiveAgentKeptCorrect ==
  AgentSpec => LiveAgentKept
<1>0. Bounds
  BY AgentAssumption DEF Bounds
<1>1. AgentInv /\ [AgentNext]_agentVars => [KeptStep]_agentVars
  BY KeptByStep DEF KeptStep
<1> QED
  BY <1>0, <1>1, AgentInvCorrect, PTL DEF AgentSpec, LiveAgentKept, KeptStep

=============================================================================
