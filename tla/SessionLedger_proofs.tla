------------------------ MODULE SessionLedger_proofs ------------------------
(***************************************************************************)
(* Proofs about SessionLedger, for any sessions and any bounds, with and   *)
(* without torn writes and overlapping session switches.                   *)
(***************************************************************************)
EXTENDS SessionLedger, SequenceTheorems, NaturalsInduction, WellFoundedInduction, TLAPS

-----------------------------------------------------------------------------
(* The readable part of a file *)

\* n is where the good lines end.
GoodEnd(ls, n) ==
  /\ n \in 0 .. Len(ls)
  /\ \A i \in 1 .. n : ~ls[i].bad
  /\ n < Len(ls) => ls[n + 1].bad

\* The good lines end in one place, and GoodLength is that place.
LEMMA GoodLengthIs ==
  ASSUME NEW ls \in Seq(Lines), NEW n, GoodEnd(ls, n)
  PROVE  GoodLength(ls) = n
<1>1. \A m : GoodEnd(ls, m) => m = n
  <2> SUFFICES ASSUME NEW m, GoodEnd(ls, m) PROVE m = n
    OBVIOUS
  <2>1. m \in Nat /\ n \in Nat /\ m <= Len(ls) /\ n <= Len(ls) /\ Len(ls) \in Nat
    BY DEF GoodEnd
  <2>2. ~(m < n)
    <3> SUFFICES ASSUME m < n PROVE FALSE
      OBVIOUS
    <3>1. m + 1 \in 1 .. n /\ m < Len(ls)
      BY <2>1
    <3> QED BY <3>1 DEF GoodEnd
  <2>3. ~(n < m)
    <3> SUFFICES ASSUME n < m PROVE FALSE
      OBVIOUS
    <3>1. n + 1 \in 1 .. m /\ n < Len(ls)
      BY <2>1
    <3> QED BY <3>1 DEF GoodEnd
  <2> QED BY <2>1, <2>2, <2>3
<1>2. \A m \in 0 .. Len(ls) :
        GoodEnd(ls, m) <=> /\ \A i \in 1 .. m : ~ls[i].bad
                           /\ m < Len(ls) => ls[m + 1].bad
  BY DEF GoodEnd
<1>3. n \in 0 .. Len(ls)
  BY DEF GoodEnd
<1> DEFINE P(m) == /\ \A i \in 1 .. m : ~ls[i].bad
                   /\ m < Len(ls) => ls[m + 1].bad
<1>4. P(n) /\ \A m \in 0 .. Len(ls) : P(m) => m = n
  BY <1>1, <1>2, <1>3
<1>5. GoodLength(ls) = CHOOSE m \in 0 .. Len(ls) : P(m)
  BY DEF GoodLength
<1> HIDE DEF P
<1> QED BY <1>3, <1>4, <1>5

\* A good line extends the readable part, if nothing bad is before it.
LEMMA GoodAppend ==
  ASSUME NEW ls \in Seq(Lines), NEW n, GoodEnd(ls, n), NEW line \in Lines, ~line.bad
  PROVE  GoodEnd(Append(ls, line), IF n = Len(ls) THEN n + 1 ELSE n)
<1>1. /\ Len(Append(ls, line)) = Len(ls) + 1 /\ Len(ls) \in Nat
      /\ Append(ls, line)[Len(ls) + 1] = line
      /\ \A i \in 1 .. Len(ls) : Append(ls, line)[i] = ls[i]
  OBVIOUS
<1>2. CASE n = Len(ls)
  BY <1>1, <1>2 DEF GoodEnd
<1>3. CASE n # Len(ls)
  <2>1. n < Len(ls) /\ n + 1 \in 1 .. Len(ls) /\ n \in 0 .. Len(ls) + 1
    BY <1>1, <1>3 DEF GoodEnd
  <2>2. \A i \in 1 .. n : Append(ls, line)[i] = ls[i]
    BY <1>1, <2>1
  <2> QED BY <1>1, <1>3, <2>1, <2>2 DEF GoodEnd
<1> QED BY <1>2, <1>3

\* A bad line does not.
LEMMA BadAppend ==
  ASSUME NEW ls \in Seq(Lines), NEW n, GoodEnd(ls, n), NEW line \in Lines, line.bad
  PROVE  GoodEnd(Append(ls, line), n)
<1>1. /\ Len(Append(ls, line)) = Len(ls) + 1 /\ Len(ls) \in Nat
      /\ Append(ls, line)[Len(ls) + 1] = line
      /\ \A i \in 1 .. Len(ls) : Append(ls, line)[i] = ls[i]
  OBVIOUS
<1>2. n \in 0 .. Len(ls) + 1 /\ n \in 0 .. Len(ls)
  BY <1>1 DEF GoodEnd
<1>3. \A i \in 1 .. n : Append(ls, line)[i] = ls[i]
  BY <1>1, <1>2
<1>4. CASE n = Len(ls)
  BY <1>1, <1>2, <1>3, <1>4 DEF GoodEnd
<1>5. CASE n # Len(ls)
  <2>1. n + 1 \in 1 .. Len(ls) /\ n < Len(ls)
    BY <1>1, <1>2, <1>5
  <2> QED BY <1>1, <1>2, <1>3, <2>1 DEF GoodEnd
<1> QED BY <1>4, <1>5

-----------------------------------------------------------------------------
(* Files: what is readable is a prefix of what was flushed *)

\* The readable part of s's file agrees with the history; a file that is readable
\* to its end holds all of the history and ends with a whole line, and any other is
\* readable up to what was flushed when a crash cut a line.
FileOf(s) ==
  \E n : /\ GoodEnd(file[s], n)
         /\ n <= Len(flushed[s])
         /\ \A i \in 1 .. n : file[s][i].msg = flushed[s][i]
         /\ n = Len(file[s]) => Len(flushed[s]) = n /\ ~partial[s]
         /\ n = Len(file[s]) \/ n \in tears[s]

FileInv == \A s \in Sessions : FileOf(s)

\* The types of what is kept on disk.
FileType ==
  /\ file \in [Sessions -> Seq(Lines)]
  /\ partial \in [Sessions -> BOOLEAN]
  /\ flushed \in [Sessions -> Seq(Messages)]
  /\ tears \in [Sessions -> SUBSET Nat]

\* What can be done to the file of a session: a write, or a write cut short.
Written(w, m) ==
  \E d \in BOOLEAN :
    /\ file' = [file EXCEPT ![w] =
         IF partial[w] THEN file[w] ELSE Append(file[w], [bad |-> FALSE, msg |-> m, del |-> d])]
    /\ flushed' = [flushed EXCEPT ![w] = Append(flushed[w], m)]
    /\ partial' = [partial EXCEPT ![w] = FALSE]
    /\ tears' = tears

Torn(w, m) ==
  /\ partial' = [partial EXCEPT ![w] = TRUE]
  /\ file' = IF partial[w] THEN file
             ELSE [file EXCEPT ![w] = Append(file[w], [bad |-> TRUE, msg |-> m, del |-> FALSE])]
  /\ tears' = [tears EXCEPT ![w] = tears[w] \cup {Len(flushed[w])}]
  /\ flushed' = flushed

LEMMA LineType ==
  ASSUME NEW m \in Messages, NEW b \in BOOLEAN, NEW d \in BOOLEAN
  PROVE  /\ [bad |-> b, msg |-> m, del |-> d] \in Lines
         /\ [bad |-> b, msg |-> m, del |-> d].bad = b
         /\ [bad |-> b, msg |-> m, del |-> d].msg = m
BY DEF Lines

LEMMA WrittenType ==
  ASSUME FileType, NEW w \in Sessions, NEW m \in Messages, Written(w, m) \/ Torn(w, m)
  PROVE  FileType'
<1>1. CASE Written(w, m)
  <2>1. PICK d \in BOOLEAN : file' = [file EXCEPT ![w] =
         IF partial[w] THEN file[w] ELSE Append(file[w], [bad |-> FALSE, msg |-> m, del |-> d])]
    BY <1>1 DEF Written
  <2>2. [bad |-> FALSE, msg |-> m, del |-> d] \in Lines
    BY LineType
  <2> DEFINE line == [bad |-> FALSE, msg |-> m, del |-> d]
             ls == IF partial[w] THEN file[w] ELSE Append(file[w], line)
  <2> HIDE DEF line
  <2>3. ls \in Seq(Lines)
    BY <2>2 DEF FileType, line
  <2> HIDE DEF ls
  <2>4. file' = [file EXCEPT ![w] = ls]
    BY <2>1 DEF ls, line
  <2>5. file' \in [Sessions -> Seq(Lines)]
    BY <2>3, <2>4 DEF FileType
  <2>6. flushed' \in [Sessions -> Seq(Messages)]
    BY <1>1 DEF FileType, Written
  <2>7. partial' \in [Sessions -> BOOLEAN]
    BY <1>1 DEF FileType, Written
  <2>8. tears' \in [Sessions -> SUBSET Nat]
    BY <1>1 DEF FileType, Written
  <2> QED BY <2>5, <2>6, <2>7, <2>8 DEF FileType
<1>2. CASE Torn(w, m)
  <2> DEFINE line == [bad |-> TRUE, msg |-> m, del |-> FALSE]
  <2>1. line \in Lines
    BY LineType
  <2>2. file' = file \/ file' = [file EXCEPT ![w] = Append(file[w], line)]
    BY <1>2 DEF Torn
  <2> HIDE DEF line
  <2>3. file' \in [Sessions -> Seq(Lines)]
    <3>1. Append(file[w], line) \in Seq(Lines)
      BY <2>1 DEF FileType
    <3> DEFINE ls == Append(file[w], line)
    <3> HIDE DEF ls
    <3>2. file' = file \/ file' = [file EXCEPT ![w] = ls]
      BY <2>2 DEF ls
    <3> QED BY <3>1, <3>2 DEF FileType, ls
  <2>4. partial' \in [Sessions -> BOOLEAN] /\ flushed' = flushed
    BY <1>2 DEF FileType, Torn
  <2>5. tears' \in [Sessions -> SUBSET Nat]
    <3>1. Len(flushed[w]) \in Nat
      BY DEF FileType
    <3> QED BY <1>2, <3>1 DEF FileType, Torn
  <2> QED BY <2>3, <2>4, <2>5 DEF FileType
<1> QED BY <1>1, <1>2

\* A write keeps the readable part a prefix of the history.
LEMMA WriteKeepsFile ==
  ASSUME FileType, NEW w \in Sessions, FileOf(w), NEW m \in Messages, Written(w, m)
  PROVE  FileOf(w)'
<1>1. PICK d \in BOOLEAN :
        /\ file'[w] = IF partial[w] THEN file[w]
                      ELSE Append(file[w], [bad |-> FALSE, msg |-> m, del |-> d])
        /\ flushed'[w] = Append(flushed[w], m) /\ partial'[w] = FALSE /\ tears' = tears
  BY DEF Written, FileType
<1>2. PICK n : /\ GoodEnd(file[w], n)
               /\ n <= Len(flushed[w])
               /\ \A i \in 1 .. n : file[w][i].msg = flushed[w][i]
               /\ n = Len(file[w]) => Len(flushed[w]) = n /\ ~partial[w]
               /\ n = Len(file[w]) \/ n \in tears[w]
  BY DEF FileOf
<1>3. n \in Nat /\ n <= Len(file[w]) /\ Len(file[w]) \in Nat /\ Len(flushed[w]) \in Nat
  BY <1>2 DEF GoodEnd, FileType
<1>4. /\ Len(flushed'[w]) = Len(flushed[w]) + 1 /\ flushed'[w][Len(flushed[w]) + 1] = m
      /\ \A i \in 1 .. Len(flushed[w]) : flushed'[w][i] = flushed[w][i]
  BY <1>1 DEF FileType
<1>5. CASE partial[w]
  <2>1. file'[w] = file[w] /\ n # Len(file[w])
    BY <1>1, <1>2, <1>5
  <2>2. n <= Len(flushed'[w])
    BY <1>2, <1>3, <1>4
  <2>3. ASSUME NEW i \in 1 .. n PROVE file'[w][i].msg = flushed'[w][i]
    <3>1. i \in 1 .. Len(flushed[w])
      BY <1>2, <1>3
    <3> QED BY <1>2, <1>4, <2>1, <3>1
  <2> QED BY <1>1, <1>2, <2>1, <2>2, <2>3 DEF FileOf
<1>6. CASE ~partial[w]
  <2> DEFINE line == [bad |-> FALSE, msg |-> m, del |-> d]
             k == IF n = Len(file[w]) THEN n + 1 ELSE n
  <2>1. line \in Lines /\ line.bad = FALSE /\ line.msg = m
    BY LineType
  <2>2. file'[w] = Append(file[w], line)
    BY <1>1, <1>6
  <2> HIDE DEF line
  <2>3. GoodEnd(file'[w], k)
    BY <1>2, <2>1, <2>2, GoodAppend DEF FileType
  <2>4. /\ Len(file'[w]) = Len(file[w]) + 1 /\ file'[w][Len(file[w]) + 1] = line
        /\ \A i \in 1 .. Len(file[w]) : file'[w][i] = file[w][i]
    BY <2>1, <2>2 DEF FileType
  <2>5. CASE n = Len(file[w])
    <3>1. k = n + 1 /\ Len(flushed[w]) = n
      BY <1>2, <2>5
    <3>2. ASSUME NEW i \in 1 .. k PROVE file'[w][i].msg = flushed'[w][i]
      <4>1. CASE i = n + 1
        BY <1>2, <1>3, <1>4, <2>1, <2>4, <2>5, <3>1, <4>1
      <4>2. CASE i # n + 1
        <5>1. i \in 1 .. n /\ i \in 1 .. Len(flushed[w]) /\ i \in 1 .. Len(file[w])
          BY <1>3, <2>5, <3>1, <4>2
        <5> QED BY <1>2, <1>4, <2>4, <5>1
      <4> QED BY <4>1, <4>2
    <3> QED BY <1>1, <1>3, <1>4, <2>3, <2>4, <2>5, <3>1, <3>2 DEF FileOf
  <2>6. CASE n # Len(file[w])
    <3>1. k = n /\ k <= Len(flushed'[w]) /\ k # Len(file'[w])
      BY <1>2, <1>3, <1>4, <2>4, <2>6
    <3>2. ASSUME NEW i \in 1 .. k PROVE file'[w][i].msg = flushed'[w][i]
      <4>1. i \in 1 .. n /\ i \in 1 .. Len(flushed[w]) /\ i \in 1 .. Len(file[w])
        BY <1>2, <1>3, <3>1
      <4> QED BY <1>2, <1>4, <2>4, <4>1
    <3>3. k \in tears'[w]
      BY <1>1, <1>2, <2>6, <3>1
    <3> QED BY <2>3, <3>1, <3>2, <3>3 DEF FileOf
  <2> QED BY <2>5, <2>6
<1> QED BY <1>5, <1>6

\* So does half a line.
LEMMA TornKeepsFile ==
  ASSUME FileType, NEW w \in Sessions, FileOf(w), NEW m \in Messages, Torn(w, m)
  PROVE  FileOf(w)'
<1>1. PICK n : /\ GoodEnd(file[w], n)
               /\ n <= Len(flushed[w])
               /\ \A i \in 1 .. n : file[w][i].msg = flushed[w][i]
               /\ n = Len(file[w]) => Len(flushed[w]) = n /\ ~partial[w]
               /\ n = Len(file[w]) \/ n \in tears[w]
  BY DEF FileOf
<1>2. CASE partial[w]
  <2>1. n \in tears'[w]
    BY <1>1, <1>2 DEF Torn, FileType
  <2> QED BY <1>1, <1>2, <2>1 DEF Torn, FileOf
<1>3. CASE ~partial[w]
  <2> DEFINE line == [bad |-> TRUE, msg |-> m, del |-> FALSE]
  <2>1. line \in Lines /\ line.bad = TRUE
    BY LineType
  <2>2. file'[w] = Append(file[w], line) /\ flushed' = flushed
    BY <1>3 DEF Torn, FileType
  <2> HIDE DEF line
  <2>3. GoodEnd(file'[w], n)
    BY <1>1, <2>1, <2>2, BadAppend DEF FileType
  <2>4. n \in Nat /\ n <= Len(file[w]) /\ Len(file[w]) \in Nat
    BY <1>1 DEF GoodEnd, FileType
  <2>5. /\ Len(file'[w]) = Len(file[w]) + 1
        /\ \A i \in 1 .. Len(file[w]) : file'[w][i] = file[w][i]
    BY <2>1, <2>2 DEF FileType
  <2>6. n # Len(file'[w]) /\ \A i \in 1 .. n : file'[w][i].msg = flushed'[w][i]
    BY <1>1, <2>2, <2>4, <2>5
  <2>7. n \in tears'[w]
    <3>1. n = Len(flushed[w]) \/ n \in tears[w]
      BY <1>1
    <3> QED BY <3>1 DEF Torn, FileType
  <2> QED BY <1>1, <2>2, <2>3, <2>6, <2>7 DEF FileOf
<1> QED BY <1>2, <1>3

\* The file of any session, after a step that touches at most one.
LEMMA FilesKept ==
  ASSUME FileType, FileInv, NEW w \in Sessions, NEW m \in Messages,
         Written(w, m) \/ Torn(w, m) \/ UNCHANGED fileVars
  PROVE  FileInv'
<1> SUFFICES ASSUME NEW s \in Sessions PROVE FileOf(s)'
  BY DEF FileInv
<1>1. FileOf(s)
  BY DEF FileInv
<1>2. CASE s = w
  BY <1>1, <1>2, WriteKeepsFile, TornKeepsFile DEF fileVars, FileOf
<1>3. CASE s # w
  <2>1. /\ file'[s] = file[s] /\ flushed'[s] = flushed[s] /\ partial'[s] = partial[s]
        /\ tears'[s] = tears[s]
    BY <1>3 DEF Written, Torn, FileType, fileVars
  <2> QED BY <1>1, <2>1 DEF FileOf
<1> QED BY <1>2, <1>3

-----------------------------------------------------------------------------
(* Types *)

LEMMA IdsFacts == Ids \subseteq Nat /\ "user" \in Kinds /\ "reply" \in Kinds /\ "result" \in Kinds
                  /\ "boundary" \in Kinds /\ "summary" \in Kinds /\ Flips \subseteq Kinds
BY ConstantsAssumption DEF Ids, Kinds

LEMMA MsgType ==
  ASSUME nextId \in Ids, NEW k \in Kinds, NEW o \in Sessions, NEW a \in SUBSET Ids
  PROVE  /\ Msg(k, o, a) \in Messages /\ <<Msg(k, o, a)>> \in Seq(Messages)
         /\ Len(<<Msg(k, o, a)>>) = 1 /\ <<Msg(k, o, a)>>[1].origin = o
<1>1. Msg(k, o, a) \in Messages /\ Msg(k, o, a).origin = o
  BY DEF Msg, Messages
<1> DEFINE x == Msg(k, o, a)
<1> HIDE DEF x
<1>2. <<x>> \in Seq(Messages) /\ Len(<<x>>) = 1 /\ <<x>>[1] = x
  BY <1>1 DEF x
<1> QED BY <1>1, <1>2 DEF x

\* The types of what adding a message changes.
StoreType ==
  /\ store \in Seq(Messages) /\ pending \in Seq(Messages)
  /\ nextId \in Nat \ {0}

LEMMA AddType ==
  ASSUME StoreType, NEW ms \in Seq(Messages), Add(ms)
  PROVE  StoreType'
<1>1. store' \in Seq(Messages) /\ store \o ms \in Seq(Messages)
  BY DEF StoreType, Add
<1>2. pending' \in Seq(Messages)
  <2>1. pending \o ms \in Seq(Messages)
    BY DEF StoreType
  <2> QED BY <2>1 DEF StoreType, Add
<1>3. nextId' \in Nat \ {0}
  BY DEF StoreType, Add
<1> QED BY <1>1, <1>2, <1>3 DEF StoreType

\* A single message that add_message takes has an id of its own.
LEMMA AddOne ==
  ASSUME StoreType, NEW k, NEW o, NEW a, Add(<<Msg(k, o, a)>>)
  PROVE  nextId \in Ids
<1>1. nextId + Len(<<Msg(k, o, a)>>) - 1 <= MaxMessages
  BY DEF Add
<1>2. Len(<<Msg(k, o, a)>>) = 1
  OBVIOUS
<1>3. nextId + 1 - 1 <= MaxMessages
  BY <1>1, <1>2
<1> QED BY <1>3, ConstantsAssumption DEF StoreType, Ids

\* What is loaded is the readable part of the file.
LEMMA LoadedIs ==
  ASSUME FileType, NEW s \in Sessions, NEW n, GoodEnd(file[s], n)
  PROVE  /\ GoodLength(file[s]) = n /\ n \in Nat /\ n <= Len(file[s])
         /\ Loaded(s) \in Seq(Messages) /\ Len(Loaded(s)) = n
         /\ \A i \in 1 .. n : Loaded(s)[i] = file[s][i].msg
<1>1. GoodLength(file[s]) = n
  BY GoodLengthIs DEF FileType
<1>2. n \in Nat /\ n <= Len(file[s]) /\ Len(file[s]) \in Nat
  BY DEF GoodEnd, FileType
<1>3. Loaded(s) = [i \in 1 .. n |-> file[s][i].msg]
  BY <1>1 DEF Loaded
<1>4. \A i \in 1 .. n : file[s][i].msg \in Messages
  <2>1. \A i \in 1 .. n : file[s][i] \in Lines
    <3>1. file[s] \in Seq(Lines)
      BY DEF FileType
    <3> QED BY <1>2, <3>1
  <2> QED BY <2>1 DEF Lines
<1>5. Loaded(s) \in Seq(Messages) /\ Len(Loaded(s)) = n
  BY <1>2, <1>3, <1>4
<1> QED BY <1>1, <1>2, <1>3, <1>5

LEMMA LoadedType ==
  ASSUME FileType, FileInv, NEW s \in Sessions
  PROVE  /\ Loaded(s) \in Seq(Messages) /\ Len(Loaded(s)) \in Nat
         /\ DeletedIn(file[s]) \subseteq Ids
<1>1. PICK n : GoodEnd(file[s], n)
  BY DEF FileInv, FileOf
<1>2. /\ GoodLength(file[s]) = n /\ n \in Nat /\ n <= Len(file[s])
      /\ Loaded(s) \in Seq(Messages) /\ Len(Loaded(s)) = n
  BY <1>1, LoadedIs
<1>3. \A i \in 1 .. n : file[s][i].msg.id \in Ids
  <2>1. \A i \in 1 .. n : file[s][i].msg \in Messages
    BY <1>1, LoadedIs, <1>2
  <2> QED BY <2>1 DEF Messages
<1>4. DeletedIn(file[s]) \subseteq {file[s][i].msg.id : i \in 1 .. n}
  BY <1>2 DEF DeletedIn
<1> QED BY <1>2, <1>3, <1>4

-----------------------------------------------------------------------------
(* The invariant: types, files, and what is bound when *)

\* Memory has a session and the writer a file, or the process is down.
Bound ==
  /\ mem = NoSession <=> writer = NoSession
  /\ mem = NoSession => store = <<>> /\ pending = <<>>

LInv == TypeOK /\ FileInv /\ Bound

LEMMA TypeParts == TypeOK <=>
  /\ mem \in Sessions \cup {NoSession} /\ writer \in Sessions \cup {NoSession}
  /\ StoreType /\ FileType
  /\ deleted \in SUBSET Ids
  /\ phase \in Phases
  /\ origin \in Sessions \cup {NoSession}
  /\ phase # "idle" => mem \in Sessions /\ origin \in Sessions
BY DEF TypeOK, StoreType, FileType

LEMMA TypePartsNext == TypeOK' <=>
  /\ mem' \in Sessions \cup {NoSession} /\ writer' \in Sessions \cup {NoSession}
  /\ StoreType' /\ FileType'
  /\ deleted' \in SUBSET Ids
  /\ phase' \in Phases
  /\ origin' \in Sessions \cup {NoSession}
  /\ phase' # "idle" => mem' \in Sessions /\ origin' \in Sessions
BY DEF TypeOK, StoreType, FileType

LEMMA LInit == Init => LInv
<1> SUFFICES ASSUME Init PROVE LInv
  OBVIOUS
<1>1. StoreType
  BY DEF Init, StoreType
<1>2. FileType
  BY DEF Init, FileType
<1>3. TypeOK
  BY <1>1, <1>2, TypeParts DEF Init, Phases
<1>4. ASSUME NEW s \in Sessions PROVE FileOf(s)
  <2>1. file[s] = <<>> /\ flushed[s] = <<>> /\ partial[s] = FALSE
    BY DEF Init
  <2>2. GoodEnd(file[s], 0)
    BY <2>1 DEF GoodEnd
  <2> QED BY <2>1, <2>2 DEF FileOf
<1> QED BY <1>3, <1>4 DEF LInv, FileInv, Bound, Init

\* What a step does on disk: a line, half a line, or nothing.
LEMMA DiskStep ==
  ASSUME LInv, Next
  PROVE  \/ UNCHANGED fileVars
         \/ \E w \in Sessions, m \in Messages : Written(w, m) \/ Torn(w, m)
<1>1. CASE Write
  <2>1. writer \in Sessions /\ Head(pending) \in Messages
    BY <1>1 DEF LInv, Bound, TypeOK, Write
  <2>2. (Head(pending).id \in deleted) \in BOOLEAN
    OBVIOUS
  <2>3. Written(writer, Head(pending))
    BY <1>1, <2>2, Zenon DEF Write, Written
  <2> QED BY <2>1, <2>3
<1>2. CASE Crash
  <2>1. CASE UNCHANGED fileVars
    BY <2>1
  <2>2. CASE ~UNCHANGED fileVars
    <3>1. writer \in Sessions /\ Head(pending) \in Messages
      BY <1>2, <2>2 DEF LInv, Bound, TypeOK, Crash
    <3>2. Torn(writer, Head(pending))
      BY <1>2, <2>2, Zenon DEF Crash, Torn
    <3> QED BY <3>1, <3>2
  <2> QED BY <2>1, <2>2
<1>3. CASE ~Write /\ ~Crash
  BY <1>3 DEF Next, Chat, Reply, Compacted, Result, EndTurn, Flip, Bind, Start,
              NewSession, Resume, SwitchTo, turnVars
<1> QED BY <1>1, <1>2, <1>3

LEMMA DiskNext ==
  ASSUME LInv, Next
  PROVE  FileType' /\ FileInv'
<1>1. FileType /\ FileInv
  BY TypeParts DEF LInv
<1>2. CASE UNCHANGED fileVars
  BY <1>1, <1>2 DEF FileType, FileInv, FileOf, fileVars
<1>3. CASE \E w \in Sessions, m \in Messages : Written(w, m) \/ Torn(w, m)
  BY <1>1, <1>3, WrittenType, FilesKept
<1> QED BY <1>2, <1>3, DiskStep

\* A step that adds one message to the store.
LEMMA OneAdded ==
  ASSUME LInv, NEW k \in Kinds, NEW o \in Sessions, NEW a \in SUBSET Ids, Add(<<Msg(k, o, a)>>)
  PROVE  StoreType'
<1>1. StoreType
  BY TypeParts DEF LInv
<1>2. <<Msg(k, o, a)>> \in Seq(Messages)
  BY <1>1, AddOne, MsgType
<1> QED BY <1>1, <1>2, AddType

\* The two messages of a compaction.
Marks == <<Msg("boundary", origin, {}), [Msg("summary", origin, {}) EXCEPT !.id = nextId + 1]>>

LEMMA MarksType ==
  ASSUME LInv, origin \in Sessions, Add(Marks)
  PROVE  Marks \in Seq(Messages) /\ Len(Marks) = 2 /\ \A i \in 1 .. 2 : Marks[i].origin = origin
<1>1. nextId \in Ids /\ nextId + 1 \in Ids
  <2>1. Len(Marks) = 2
    BY DEF Marks
  <2>2. nextId + 2 - 1 <= MaxMessages
    BY <2>1 DEF Add
  <2> QED BY <2>2, ConstantsAssumption DEF LInv, TypeOK, Ids
<1>2. Msg("boundary", origin, {}) \in Messages /\ Msg("boundary", origin, {}).origin = origin
  BY <1>1, IdsFacts DEF Msg, Messages
<1> DEFINE x == [Msg("summary", origin, {}) EXCEPT !.id = nextId + 1]
<1>3. x \in Messages /\ x.origin = origin
  BY <1>1, IdsFacts DEF Msg, Messages
<1> DEFINE y == Msg("boundary", origin, {})
<1>4. Marks = <<y, x>>
  BY DEF Marks
<1> HIDE DEF x, y
<1> QED BY <1>2, <1>3, <1>4 DEF y

-----------------------------------------------------------------------------
(* Each action keeps the types *)

\* The types of memory, but for those of the files.
MemType ==
  /\ mem \in Sessions \cup {NoSession} /\ writer \in Sessions \cup {NoSession}
  /\ StoreType
  /\ deleted \in SUBSET Ids
  /\ phase \in Phases
  /\ origin \in Sessions \cup {NoSession}
  /\ phase # "idle" => mem \in Sessions /\ origin \in Sessions

LEMMA Facts ==
  ASSUME LInv
  PROVE  MemType /\ FileType /\ FileInv /\ Bound
BY TypeParts DEF LInv, MemType

\* The next phases of a turn are phases.
LEMMA PhaseFacts == {"idle", "llm", "compacting", "tools"} = Phases
BY DEF Phases

LEMMA TurnKeeps ==
  ASSUME LInv, Chat \/ Reply \/ Compacted \/ Result \/ EndTurn
  PROVE  MemType' /\ Bound'
<1>1. MemType /\ Bound
  BY Facts
<1>2. CASE Chat
  <2>1. mem \in Sessions /\ Add(<<Msg("user", mem, {})>>)
    BY <1>1, <1>2 DEF Chat, MemType
  <2>2. StoreType'
    BY <2>1, OneAdded, IdsFacts
  <2> QED BY <1>1, <1>2, <2>1, <2>2, PhaseFacts DEF Chat, MemType, Bound
<1>3. CASE Reply
  <2>1. mem \in Sessions /\ origin \in Sessions /\ Add(<<Msg("reply", origin, {})>>)
    BY <1>1, <1>3 DEF Reply, MemType
  <2>2. StoreType'
    BY <2>1, OneAdded, IdsFacts
  <2>3. phase' \in Phases /\ mem' = mem /\ origin' = origin /\ writer' = writer /\ deleted' = deleted
    BY <1>3, PhaseFacts DEF Reply
  <2>4. mem \notin {NoSession}
    BY <2>1, ConstantsAssumption
  <2> QED BY <1>1, <2>1, <2>2, <2>3, <2>4 DEF MemType, Bound
<1>4. CASE Compacted
  <2>1. mem \in Sessions /\ origin \in Sessions
    BY <1>1, <1>4 DEF Compacted, MemType
  <2>2. StoreType'
    <3>1. CASE store = <<>>
      BY <1>1, <1>4, <3>1 DEF Compacted, MemType, StoreType
    <3>2. CASE store # <<>>
      <4>1. Add(Marks)
        BY <1>4, <3>2 DEF Compacted, Marks
      <4> QED BY <1>1, <2>1, <4>1, MarksType, AddType DEF MemType
    <3> QED BY <3>1, <3>2
  <2>3. phase' \in Phases /\ mem' = mem /\ origin' = origin /\ writer' = writer /\ deleted' = deleted
    BY <1>4, PhaseFacts DEF Compacted
  <2>4. mem \notin {NoSession}
    BY <2>1, ConstantsAssumption
  <2> QED BY <1>1, <2>1, <2>2, <2>3, <2>4 DEF MemType, Bound
<1>5. CASE Result
  <2>1. mem \in Sessions /\ origin \in Sessions /\ Add(<<Msg("result", origin, {})>>)
    BY <1>1, <1>5 DEF Result, MemType
  <2>2. StoreType'
    BY <2>1, OneAdded, IdsFacts
  <2>3. phase' \in Phases /\ mem' = mem /\ origin' = origin /\ writer' = writer /\ deleted' = deleted
    BY <1>5, PhaseFacts DEF Result
  <2>4. mem \notin {NoSession}
    BY <2>1, ConstantsAssumption
  <2> QED BY <1>1, <2>1, <2>2, <2>3, <2>4 DEF MemType, Bound
<1>6. CASE EndTurn
  <2>1. StoreType'
    BY <1>1, <1>6 DEF EndTurn, MemType, StoreType
  <2> QED BY <1>1, <1>6, <2>1, PhaseFacts DEF EndTurn, MemType, Bound
<1> QED BY <1>2, <1>3, <1>4, <1>5, <1>6

LEMMA TurnIds ==
  ASSUME LInv, NEW i \in 1 .. Len(store)
  PROVE  TurnAt(i) \in SUBSET Ids
<1>1. store \in Seq(Messages)
  BY Facts DEF MemType, StoreType
<1>2. \A j \in i .. Len(store) : store[j] \in Messages
  BY <1>1
<1>3. \A j \in i .. Len(store) : store[j].id \in Ids
  BY <1>2 DEF Messages
<1> QED BY <1>3 DEF TurnAt

LEMMA FlipKeeps ==
  ASSUME LInv, NEW i \in 1 .. Len(store), NEW k \in Flips, Flip(i, k)
  PROVE  MemType' /\ Bound'
<1>1. MemType /\ Bound
  BY Facts
<1>2. mem \in Sessions /\ mem # NoSession /\ Add(<<Msg(k, mem, TurnAt(i))>>)
  BY <1>1 DEF Flip, MemType
<1>3. TurnAt(i) \in SUBSET Ids
  BY TurnIds
<1>4. StoreType'
  BY <1>2, <1>3, OneAdded, IdsFacts
<1>5. deleted' \in SUBSET Ids
  BY <1>1, <1>3 DEF Flip, MemType
<1> QED BY <1>1, <1>2, <1>4, <1>5 DEF Flip, MemType, Bound, turnVars

LEMMA WriterKeeps ==
  ASSUME LInv, Write \/ Crash \/ Bind
  PROVE  MemType' /\ Bound'
<1>1. MemType /\ Bound
  BY Facts
<1>2. CASE Write
  <2>1. Tail(pending) \in Seq(Messages)
    BY <1>1, <1>2 DEF Write, MemType, StoreType
  <2>2. StoreType'
    BY <1>1, <1>2, <2>1 DEF Write, MemType, StoreType
  <2> QED BY <1>1, <1>2, <2>2 DEF Write, MemType, Bound, turnVars
<1>3. CASE Crash
  <2>1. StoreType'
    BY <1>1, <1>3 DEF Crash, MemType, StoreType
  <2> QED BY <1>1, <1>3, <2>1, PhaseFacts DEF Crash, MemType, Bound
<1>4. CASE Bind
  <2>1. StoreType'
    BY <1>1, <1>4 DEF Bind, MemType, StoreType
  <2> QED BY <1>1, <1>4, <2>1 DEF Bind, MemType, Bound, turnVars
<1> QED BY <1>2, <1>3, <1>4

LEMMA SwitchKeeps ==
  ASSUME LInv, NEW s \in Sessions, NEW st \in Seq(Messages), NEW del \in SUBSET Ids, SwitchTo(s, st, del)
  PROVE  MemType' /\ Bound'
<1>1. MemType /\ Bound /\ s # NoSession
  BY Facts, ConstantsAssumption
<1>2. StoreType'
  BY <1>1 DEF SwitchTo, MemType, StoreType
<1>3. deleted' \in SUBSET Ids
  BY <1>1 DEF SwitchTo, MemType
<1>4. writer' \in Sessions /\ mem' = s /\ writer' # NoSession
  BY <1>1 DEF SwitchTo, MemType, Bound
<1> QED BY <1>1, <1>2, <1>3, <1>4 DEF SwitchTo, MemType, Bound, turnVars

LEMMA SessionKeeps ==
  ASSUME LInv, NEW s \in Sessions, Start(s) \/ NewSession(s) \/ Resume(s)
  PROVE  MemType' /\ Bound'
<1>1. MemType /\ Bound /\ s # NoSession
  BY Facts, ConstantsAssumption
<1>2. CASE Start(s)
  <2>1. StoreType'
    BY <1>1, <1>2 DEF Start, MemType, StoreType
  <2>2. phase = "idle"
    BY <1>1, <1>2, ConstantsAssumption DEF Start, MemType
  <2> QED BY <1>1, <1>2, <2>1, <2>2 DEF Start, MemType, Bound, turnVars
<1>3. CASE NewSession(s)
  <2>1. <<>> \in Seq(Messages) /\ {} \in SUBSET Ids
    OBVIOUS
  <2>2. SwitchTo(s, <<>>, {})
    BY <1>3 DEF NewSession
  <2> QED BY <2>1, <2>2, SwitchKeeps
<1>4. CASE Resume(s)
  <2>1. Loaded(s) \in Seq(Messages) /\ DeletedIn(file[s]) \in SUBSET Ids
    BY Facts, LoadedType
  <2>2. SwitchTo(s, Loaded(s), DeletedIn(file[s]))
    BY <1>4 DEF Resume
  <2> QED BY <2>1, <2>2, SwitchKeeps
<1> QED BY <1>2, <1>3, <1>4

LEMMA LStep == LInv /\ [Next]_vars => LInv'
<1> SUFFICES ASSUME LInv, [Next]_vars PROVE LInv'
  OBVIOUS
<1>1. CASE Next
  <2>1. MemType' /\ Bound'
    BY <1>1, TurnKeeps, FlipKeeps, WriterKeeps, SessionKeeps DEF Next
  <2>2. FileType' /\ FileInv'
    BY <1>1, DiskNext
  <2> QED BY <2>1, <2>2, TypePartsNext DEF LInv, MemType
<1>2. CASE UNCHANGED vars
  BY <1>2 DEF vars, fileVars, turnVars, LInv, TypeOK, Bound, FileInv, FileOf
<1> QED BY <1>1, <1>2

THEOREM LedgerInvariant == Spec => []LInv
BY LInit, LStep, PTL DEF Spec

\* Messages, lines and sessions stay what they are, in memory and on disk.
THEOREM TypeCorrect == Spec => []TypeOK
<1>1. LInv => TypeOK
  BY DEF LInv
<1> QED BY <1>1, LedgerInvariant, PTL

\* However often the process dies, also in the middle of a line, and whenever a
\* session is switched: what the hydrator loads from a file is what the writer
\* flushed to it, in that order and from the beginning.
THEOREM LoadsAPrefix == Spec => []LoadedIsPrefix
<1>1. LInv => LoadedIsPrefix
  <2> SUFFICES ASSUME LInv, NEW s \in Sessions
               PROVE  /\ Len(Loaded(s)) <= Len(flushed[s])
                      /\ \A i \in 1 .. Len(Loaded(s)) : Loaded(s)[i] = flushed[s][i]
    BY DEF LoadedIsPrefix
  <2>1. FileType /\ FileOf(s)
    BY Facts DEF FileInv
  <2>2. PICK n : /\ GoodEnd(file[s], n)
                 /\ n <= Len(flushed[s])
                 /\ \A i \in 1 .. n : file[s][i].msg = flushed[s][i]
    BY <2>1 DEF FileOf
  <2>3. Len(Loaded(s)) = n /\ \A i \in 1 .. n : Loaded(s)[i] = file[s][i].msg
    BY <2>1, <2>2, LoadedIs
  <2> QED BY <2>2, <2>3
<1> QED BY <1>1, LedgerInvariant, PTL

\* What was flushed is loaded again, in its place, through any number of crashes,
\* half lines and switches, unless it was flushed after a crash had cut a line of
\* its file: a file is readable to its end, or up to one of its tears.
THEOREM FlushSurvivesCrash == Spec => []FlushedSurvives
<1>1. LInv => FlushedSurvives
  <2> SUFFICES ASSUME LInv, NEW s \in Sessions, NEW i \in 1 .. Len(flushed[s]),
                      \A t \in tears[s] : i <= t
               PROVE  i <= Len(Loaded(s)) /\ Loaded(s)[i] = flushed[s][i]
    BY DEF FlushedSurvives
  <2>1. FileType /\ FileOf(s)
    BY Facts DEF FileInv
  <2>2. PICK n : /\ GoodEnd(file[s], n)
                 /\ \A j \in 1 .. n : file[s][j].msg = flushed[s][j]
                 /\ n = Len(file[s]) => Len(flushed[s]) = n
                 /\ n = Len(file[s]) \/ n \in tears[s]
    BY <2>1 DEF FileOf
  <2>3. n \in Nat /\ Len(Loaded(s)) = n /\ \A j \in 1 .. n : Loaded(s)[j] = file[s][j].msg
    BY <2>1, <2>2, LoadedIs
  <2>4. i \in Nat /\ 1 <= i /\ i <= Len(flushed[s]) /\ Len(flushed[s]) \in Nat
    BY <2>1 DEF FileType
  <2>5. i <= n
    BY <2>2, <2>3, <2>4
  <2>6. i \in 1 .. n
    BY <2>3, <2>4, <2>5
  <2> QED BY <2>2, <2>3, <2>5, <2>6
<1> QED BY <1>1, LedgerInvariant, PTL

-----------------------------------------------------------------------------
(* Without torn writes *)

\* Every line of every file is whole.
Whole ==
  \A s \in Sessions : ~partial[s] /\ \A i \in 1 .. Len(file[s]) : ~file[s][i].bad

WholeInv == TornWrites \/ Whole

LEMMA WholeStep ==
  ASSUME LInv, WholeInv, Next
  PROVE  WholeInv'
<1>1. CASE TornWrites
  BY <1>1 DEF WholeInv
<1>2. CASE ~TornWrites
  <2>0. FileType /\ Whole
    BY <1>2, Facts DEF WholeInv
  <2>1. CASE UNCHANGED fileVars
    BY <2>0, <2>1 DEF WholeInv, Whole, fileVars
  <2>2. CASE ~UNCHANGED fileVars
    <3>1. Write
      BY <1>2, <2>2 DEF Next, Chat, Reply, Compacted, Result, EndTurn, Flip, Crash, Bind, Start,
                        NewSession, Resume, SwitchTo
    <3>2. writer \in Sessions /\ Head(pending) \in Messages
      BY <3>1 DEF LInv, Bound, TypeOK, Write
    <3>3. PICK d \in BOOLEAN :
            /\ file' = [file EXCEPT ![writer] = IF partial[writer] THEN file[writer] ELSE
                          Append(file[writer], [bad |-> FALSE, msg |-> Head(pending), del |-> d])]
            /\ partial' = [partial EXCEPT ![writer] = FALSE]
      <4>1. (Head(pending).id \in deleted) \in BOOLEAN
        OBVIOUS
      <4>2. Written(writer, Head(pending))
        BY <3>1, <4>1, Zenon DEF Write, Written
      <4> QED BY <4>2, Zenon DEF Written
    <3> DEFINE line == [bad |-> FALSE, msg |-> Head(pending), del |-> d]
    <3>4. line \in Lines /\ line.bad = FALSE
      BY <3>2, LineType
    <3>5. file' = [file EXCEPT ![writer] = Append(file[writer], line)]
      BY <2>0, <3>2, <3>3 DEF Whole
    <3> HIDE DEF line
    <3>6. ASSUME NEW s \in Sessions
          PROVE  ~partial'[s] /\ \A i \in 1 .. Len(file'[s]) : ~file'[s][i].bad
      <4>1. ~partial'[s]
        BY <2>0, <3>3 DEF FileType, Whole
      <4>2. CASE s = writer
        <5>1. file'[s] = Append(file[s], line) /\ file[s] \in Seq(Lines)
          BY <2>0, <3>5, <4>2 DEF FileType
        <5>2. /\ Len(file'[s]) = Len(file[s]) + 1 /\ file'[s][Len(file[s]) + 1] = line
              /\ \A i \in 1 .. Len(file[s]) : file'[s][i] = file[s][i]
          BY <3>4, <5>1
        <5>3. ASSUME NEW i \in 1 .. Len(file'[s]) PROVE ~file'[s][i].bad
          <6>1. CASE i \in 1 .. Len(file[s])
            BY <2>0, <5>2, <6>1 DEF Whole
          <6>2. CASE i = Len(file[s]) + 1
            BY <3>4, <5>2, <6>2
          <6> QED BY <5>1, <5>2, <6>1, <6>2
        <5> QED BY <4>1, <5>3
      <4>3. CASE s # writer
        <5>1. file'[s] = file[s]
          BY <2>0, <3>5, <4>3 DEF FileType
        <5> QED BY <2>0, <4>1, <5>1 DEF Whole
      <4> QED BY <4>2, <4>3
    <3> QED BY <3>6 DEF WholeInv, Whole
  <2> QED BY <2>1, <2>2
<1> QED BY <1>1, <1>2

\* A file of whole lines is readable to its end.
LEMMA WholeLoads ==
  ASSUME LInv, Whole, NEW s \in Sessions
  PROVE  Loaded(s) = flushed[s] /\ GoodEnd(file[s], Len(file[s]))
<1>1. FileType /\ FileOf(s)
  BY Facts DEF FileInv
<1>2. PICK n : /\ GoodEnd(file[s], n)
               /\ \A i \in 1 .. n : file[s][i].msg = flushed[s][i]
               /\ n = Len(file[s]) => Len(flushed[s]) = n
  BY <1>1 DEF FileOf
<1>3. GoodEnd(file[s], Len(file[s]))
  BY <1>1 DEF Whole, GoodEnd, FileType
<1>4. n = Len(file[s])
  <2>1. GoodLength(file[s]) = n /\ GoodLength(file[s]) = Len(file[s])
    BY <1>1, <1>2, <1>3, LoadedIs
  <2> QED BY <2>1
<1>5. /\ Loaded(s) \in Seq(Messages) /\ Len(Loaded(s)) = n
      /\ \A i \in 1 .. n : Loaded(s)[i] = file[s][i].msg
  BY <1>1, <1>2, LoadedIs
<1>6. flushed[s] \in Seq(Messages) /\ Len(flushed[s]) = n
  BY <1>1, <1>2, <1>4 DEF FileType
<1>7. Loaded(s) = flushed[s]
  BY <1>2, <1>5, <1>6, SeqEqual
<1> QED BY <1>3, <1>7

LEMMA WholeLoadsNext == (LInv /\ Whole => \A s \in Sessions : Loaded(s) = flushed[s])'
<1>1. LInv /\ Whole => \A s \in Sessions : Loaded(s) = flushed[s]
  BY WholeLoads
<1> QED BY <1>1, PTL

-----------------------------------------------------------------------------
(* One session at a time: no torn writes and no switch in the middle of a turn *)

StoreInv ==
  /\ writer # mem => phase = "idle"
  /\ StoreIsLedger

Calm == ~TornWrites /\ ~SwitchMidTurn

\* A message that the bound writer will write extends the store and its ledger.
LEMMA AddKeepsLedger ==
  ASSUME LInv, StoreInv, mem # NoSession, writer = mem, NEW ms \in Seq(Messages), Add(ms),
         UNCHANGED <<mem, writer, fileVars>>
  PROVE  StoreInv'
<1>1. mem \in Sessions /\ FileType /\ FileInv /\ pending \in Seq(Messages)
  BY Facts DEF MemType, StoreType
<1>2. Loaded(mem) \in Seq(Messages)
  BY <1>1, LoadedType
<1>3. Loaded(mem)' = Loaded(mem)
  BY DEF Loaded, fileVars
<1>4. store' = (Loaded(mem) \o pending) \o ms /\ pending' = pending \o ms
  BY DEF StoreInv, StoreIsLedger, Add
<1>5. store' = Loaded(mem)' \o pending'
  BY <1>1, <1>2, <1>3, <1>4, ConcatAssociative
<1> QED BY <1>5 DEF StoreInv, StoreIsLedger

\* What a write does to the readable part of the files, when they are whole.
LEMMA WriteLoads ==
  ASSUME LInv, WholeInv, ~TornWrites, Write
  PROVE  /\ Whole' /\ writer \in Sessions
         /\ Loaded(writer)' = Append(Loaded(writer), Head(pending))
         /\ \A s \in Sessions \ {writer} : Loaded(s)' = Loaded(s)
<1>1. Whole' /\ LInv' /\ Whole
  <2>1. Next
    BY DEF Next
  <2> QED BY <2>1, WholeStep, LStep DEF WholeInv
<1>2. writer \in Sessions /\ FileType /\ writer' = writer
  BY Facts DEF Write, MemType, Bound
<1>3. \A s \in Sessions : Loaded(s) = flushed[s] /\ Loaded(s)' = flushed'[s]
  <2>1. \A s \in Sessions : Loaded(s) = flushed[s]
    BY <1>1, WholeLoads
  <2> QED BY <1>1, <2>1, WholeLoadsNext
<1>4. flushed' = [flushed EXCEPT ![writer] = Append(flushed[writer], Head(pending))]
  BY DEF Write
<1> QED BY <1>1, <1>2, <1>3, <1>4 DEF FileType

\* A store that is the ledger stays so while its file is written.
LEMMA WriteKeepsLedger ==
  ASSUME LInv, StoreInv, WholeInv, ~TornWrites, Write
  PROVE  StoreInv'
<1>1. /\ writer \in Sessions
      /\ Loaded(writer)' = Append(Loaded(writer), Head(pending))
      /\ \A s \in Sessions \ {writer} : Loaded(s)' = Loaded(s)
  BY WriteLoads
<1>2. /\ mem' = mem /\ writer' = writer /\ store' = store /\ phase' = phase
      /\ pending' = Tail(pending) /\ pending # <<>>
  BY DEF Write, turnVars
<1>3. CASE mem = writer
  <2>1. Loaded(mem) \in Seq(Messages) /\ pending \in Seq(Messages)
    BY <1>1, <1>3, Facts, LoadedType DEF MemType, StoreType
  <2>2. Loaded(mem) \o pending = Append(Loaded(mem), Head(pending)) \o Tail(pending)
    <3> DEFINE a == Loaded(mem)
               h == Head(pending)
               t == Tail(pending)
    <3>1. a \in Seq(Messages) /\ h \in Messages /\ t \in Seq(Messages) /\ <<h>> \in Seq(Messages)
      BY <1>2, <2>1
    <3>2. pending = <<h>> \o t
      BY <1>2, <2>1
    <3> HIDE DEF a, h, t
    <3>3. Append(a, h) = a \o <<h>>
      BY <3>1
    <3>4. a \o (<<h>> \o t) = (a \o <<h>>) \o t
      BY <3>1, ConcatAssociative
    <3>5. a \o pending = Append(a, h) \o t
      BY <3>2, <3>3, <3>4
    <3> QED BY <3>5 DEF a, h, t
  <2>3. mem \in Sessions /\ mem # NoSession /\ Loaded(mem)' = Append(Loaded(mem), Head(pending))
    BY <1>1, <1>2, <1>3, ConstantsAssumption
  <2>4. store = Loaded(mem) \o pending
    BY <1>3, <2>3 DEF StoreInv, StoreIsLedger
  <2>5. store' = Loaded(mem)' \o pending'
    BY <1>2, <2>2, <2>3, <2>4
  <2> QED BY <1>2, <1>3, <2>5 DEF StoreInv, StoreIsLedger
<1>4. CASE mem # writer
  <2>1. mem = NoSession \/ Loaded(mem)' = Loaded(mem)
    <3>1. ASSUME NEW r \in Sessions \ {writer}, r = mem PROVE Loaded(mem)' = Loaded(mem)
      <4>1. Loaded(r)' = Loaded(r) /\ r = mem'
        BY <1>1, <1>2, <3>1
      <4> QED BY <3>1, <4>1 DEF Loaded
    <3> QED BY <1>4, <3>1, Facts DEF MemType
  <2> QED BY <1>2, <1>4, <2>1 DEF StoreInv, StoreIsLedger
<1> QED BY <1>3, <1>4

\* A fresh session has nothing to load.
LEMMA FreshLoads ==
  ASSUME LInv, NEW s \in Sessions, file[s] = <<>>
  PROVE  Loaded(s) = <<>>
<1>1. GoodEnd(file[s], 0)
  BY DEF GoodEnd
<1>2. Loaded(s) \in Seq(Messages) /\ Len(Loaded(s)) = 0
  BY <1>1, Facts, LoadedIs
<1> QED BY <1>2

\* What a turn adds to the store are messages.
LEMMA Adds ==
  ASSUME LInv, Chat \/ Reply \/ Compacted \/ Result \/ EndTurn
  PROVE  (\E ms \in Seq(Messages) : Add(ms)) \/ UNCHANGED <<store, pending>>
<1>1. MemType
  BY Facts
<1>2. CASE Chat
  <2>1. Add(<<Msg("user", mem, {})>>) /\ mem \in Sessions
    BY <1>1, <1>2 DEF Chat, MemType
  <2> QED BY <1>1, <2>1, AddOne, MsgType, IdsFacts DEF MemType
<1>3. CASE Reply
  <2>1. Add(<<Msg("reply", origin, {})>>) /\ origin \in Sessions
    BY <1>1, <1>3 DEF Reply, MemType
  <2> QED BY <1>1, <2>1, AddOne, MsgType, IdsFacts DEF MemType
<1>4. CASE Compacted
  <2>1. UNCHANGED <<store, pending>> \/ Add(Marks)
    BY <1>4 DEF Compacted, Marks
  <2>2. origin \in Sessions
    BY <1>1, <1>4 DEF Compacted, MemType
  <2> QED BY <2>1, <2>2, MarksType
<1>5. CASE Result
  <2>1. Add(<<Msg("result", origin, {})>>) /\ origin \in Sessions
    BY <1>1, <1>5 DEF Result, MemType
  <2> QED BY <1>1, <2>1, AddOne, MsgType, IdsFacts DEF MemType
<1>6. CASE EndTurn
  BY <1>6 DEF EndTurn
<1> QED BY <1>2, <1>3, <1>4, <1>5, <1>6

LEMMA TurnKeepsLedger ==
  ASSUME LInv, StoreInv, Calm, Chat \/ Reply \/ Compacted \/ Result \/ EndTurn
  PROVE  StoreInv'
<1>1. MemType /\ FileType /\ FileInv /\ Bound
  BY Facts
<1>2. UNCHANGED <<mem, writer, fileVars>>
  BY DEF Chat, Reply, Compacted, Result, EndTurn
<1>3. mem = writer /\ mem # NoSession
  BY <1>1, ConstantsAssumption DEF Chat, Reply, Compacted, Result, EndTurn, Calm, StoreInv, MemType
<1>4. CASE \E ms \in Seq(Messages) : Add(ms)
  BY <1>2, <1>3, <1>4, AddKeepsLedger
<1>5. CASE UNCHANGED <<store, pending>>
  BY <1>2, <1>3, <1>5 DEF StoreInv, StoreIsLedger, Loaded, fileVars
<1> QED BY <1>4, <1>5, Adds

LEMMA SwitchKeepsLedger ==
  ASSUME LInv, StoreInv, Calm, NEW s \in Sessions, Start(s) \/ NewSession(s) \/ Resume(s) \/ Bind
  PROVE  StoreInv'
<1>1. MemType /\ FileType /\ FileInv /\ Bound
  BY Facts
<1>2. \A r \in Sessions : Loaded(r)' = Loaded(r) /\ Loaded(r) \in Seq(Messages)
  <2>1. UNCHANGED fileVars
    BY DEF Start, NewSession, Resume, Bind, SwitchTo
  <2> QED BY <1>1, <2>1, LoadedType DEF Loaded, fileVars
<1>3. \A r \in Sessions : Loaded(r) \o <<>> = Loaded(r)
  BY <1>2, ConcatEmptySeq
<1>4. s # NoSession
  BY ConstantsAssumption
<1>5. CASE Start(s)
  <2>1. Loaded(s) = <<>> /\ store' = <<>> /\ pending' = <<>> /\ mem' = s /\ writer' = s
    BY <1>1, <1>5, FreshLoads DEF Start, Fresh, Bound
  <2>2. store' = Loaded(s)' \o pending'
    BY <1>2, <1>3, <2>1
  <2> QED BY <2>1, <2>2 DEF StoreInv, StoreIsLedger
<1>6. CASE NewSession(s) \/ Resume(s)
  <2>1. store' = Loaded(s)
    BY <1>6, FreshLoads DEF NewSession, Resume, SwitchTo, Fresh
  <2>2. /\ mem' = s /\ pending' = pending /\ phase' = "idle"
        /\ writer' = IF pending = <<>> THEN s ELSE writer
        /\ s # mem /\ writer = mem
    BY <1>6 DEF NewSession, Resume, SwitchTo, Calm, turnVars
  <2>3. CASE pending = <<>>
    <3>1. store' = Loaded(s)' \o pending'
      BY <1>2, <1>3, <2>1, <2>2, <2>3
    <3> QED BY <2>2, <2>3, <3>1 DEF StoreInv, StoreIsLedger
  <2>4. CASE pending # <<>>
    BY <1>2, <2>1, <2>2, <2>4 DEF StoreInv, StoreIsLedger
  <2> QED BY <2>3, <2>4
<1>7. CASE Bind
  <2>1. /\ mem \in Sessions /\ mem # NoSession /\ writer # mem /\ pending = <<>>
        /\ mem' = mem /\ writer' = mem /\ store' = store /\ pending' = <<>>
    BY <1>1, <1>7 DEF Bind, MemType
  <2>2. store = Loaded(mem)
    BY <2>1 DEF StoreInv, StoreIsLedger
  <2>3. store' = Loaded(mem)' \o pending'
    BY <1>2, <1>3, <2>1, <2>2
  <2> QED BY <2>1, <2>3 DEF StoreInv, StoreIsLedger
<1> QED BY <1>5, <1>6, <1>7

LEMMA StoreStep ==
  ASSUME LInv, WholeInv, StoreInv, Calm, Next
  PROVE  StoreInv'
<1>1. MemType /\ Bound
  BY Facts
<1>2. CASE Chat \/ Reply \/ Compacted \/ Result \/ EndTurn
  BY <1>2, TurnKeepsLedger
<1>3. ASSUME NEW i \in 1 .. Len(store), NEW k \in Flips, Flip(i, k) PROVE StoreInv'
  <2>1. mem \in Sessions /\ Add(<<Msg(k, mem, TurnAt(i))>>) /\ TurnAt(i) \in SUBSET Ids
    BY <1>1, <1>3, TurnIds DEF Flip, MemType
  <2>2. <<Msg(k, mem, TurnAt(i))>> \in Seq(Messages)
    BY <1>1, <2>1, AddOne, MsgType, IdsFacts DEF MemType
  <2> QED BY <1>3, <2>1, <2>2, AddKeepsLedger DEF Flip
<1>4. CASE Write
  BY <1>4, WriteKeepsLedger DEF Calm
<1>5. CASE Crash
  BY <1>5 DEF Crash, StoreInv, StoreIsLedger
<1>6. CASE Bind \/ \E s \in Sessions : Start(s) \/ NewSession(s) \/ Resume(s)
  BY <1>1, <1>6, SwitchKeepsLedger DEF Bind, MemType
<1> QED BY <1>2, <1>3, <1>4, <1>5, <1>6 DEF Next

\* With one session at a time the store never holds a message that its ledger
\* misses: what the model was told is what a resume would tell it.
THEOREM StoreFollowsLedger == Spec => [](TornWrites \/ SwitchMidTurn \/ StoreIsLedger)
<1>1. Init => WholeInv /\ StoreInv
  BY DEF Init, WholeInv, Whole, StoreInv, StoreIsLedger
<1> DEFINE J == WholeInv /\ (Calm => StoreInv)
<1>2. Init => J
  BY <1>1
<1>3. LInv /\ J /\ [Next]_vars => J'
  <2>1. ASSUME UNCHANGED vars, J PROVE J'
    BY <2>1 DEF vars, fileVars, turnVars, WholeInv, Whole, Calm, StoreInv, StoreIsLedger, Loaded
  <2>2. ASSUME LInv, J, Next PROVE J'
    BY <2>2, WholeStep, StoreStep DEF Calm
  <2> QED BY <2>1, <2>2
<1>4. J => (TornWrites \/ SwitchMidTurn \/ StoreIsLedger)
  BY ConstantsAssumption DEF Calm, StoreInv
<1> HIDE DEF J
<1> QED BY <1>2, <1>3, <1>4, LedgerInvariant, PTL DEF Spec

-----------------------------------------------------------------------------
(* Refinement *)

\* The abstract log and its durable part.
Log == [s \in Sessions |-> Transcript(s)]
Durable == [s \in Sessions |-> Len(Loaded(s))]

LEMMA TranscriptFacts ==
  ASSUME LInv, NEW s \in Sessions
  PROVE  /\ Loaded(s) \in Seq(Messages) /\ Transcript(s) \in Seq(Messages)
         /\ (s # writer \/ pending = <<>>) => Transcript(s) = Loaded(s)
<1>1. Loaded(s) \in Seq(Messages) /\ pending \in Seq(Messages)
  BY Facts, LoadedType DEF MemType, StoreType
<1>2. Loaded(s) \o pending \in Seq(Messages) /\ Loaded(s) \o <<>> = Loaded(s)
  BY <1>1, ConcatEmptySeq
<1> QED BY <1>1, <1>2 DEF Transcript

\* Adding messages records them, or is not seen.
LEMMA AddRecords ==
  ASSUME LInv, NEW ms \in Seq(Messages), Add(ms), UNCHANGED <<mem, writer, fileVars>>
  PROVE  [Ledger!Next]_<<Log, Durable>>
<1>1. \A s \in Sessions : Loaded(s)' = Loaded(s)
  BY DEF Loaded, fileVars
<1>2. Durable' = Durable
  BY <1>1 DEF Durable
<1>3. pending \in Seq(Messages)
  BY Facts DEF MemType, StoreType
<1>4. CASE writer = mem /\ writer \in Sessions
  <2>1. pending' = pending \o ms
    BY <1>4 DEF Add
  <2>2. Loaded(writer) \in Seq(Messages)
    BY <1>4, TranscriptFacts
  <2>3. Loaded(writer) \o (pending \o ms) = (Loaded(writer) \o pending) \o ms
    BY SMTT(30), <1>3, <2>2, ConcatAssociative
  <2> DEFINE t == Loaded(writer) \o pending
  <2>4. t \in Seq(Messages) /\ t \o ms \in Seq(Messages)
    BY <1>3, <2>2
  <2>5. Log[writer] = t
    BY <1>4 DEF Log, Transcript
  <2>6. Log'[writer] = t \o ms
    <3>1. Log'[writer] = Loaded(writer) \o pending'
      <4>1. ASSUME NEW w \in Sessions, w = writer PROVE Log'[w] = Loaded(w) \o pending'
        <5>1. Log'[w] = Transcript(w)' /\ Loaded(w)' = Loaded(w) /\ writer' = w
          BY <1>1, <4>1 DEF Log
        <5> QED BY <5>1 DEF Transcript
      <4> QED BY <1>4, <4>1
    <3> QED BY <2>1, <2>3, <3>1
  <2>7. \A r \in Sessions \ {writer} : Log'[r] = Log[r]
    BY <1>1, <1>4 DEF Log, Transcript
  <2>8. Log' \in [Sessions -> Seq(Messages)]
    <3>1. \A r \in Sessions : Log'[r] \in Seq(Messages)
      <4>1. \A r \in Sessions : Log[r] \in Seq(Messages)
        BY TranscriptFacts DEF Log
      <4> QED BY <2>4, <2>6, <2>7, <4>1
    <3> QED BY <3>1 DEF Log
  <2> HIDE DEF t
  <2>9. Len(t) <= Len(t \o ms) /\ SubSeq(t \o ms, 1, Len(t)) = t
    <3>1. /\ Len(t) \in Nat /\ Len(ms) \in Nat /\ Len(t \o ms) = Len(t) + Len(ms)
          /\ \A i \in 1 .. Len(t) : (t \o ms)[i] = t[i]
      BY <2>4, ConcatProperties
    <3>2. /\ SubSeq(t \o ms, 1, Len(t)) \in Seq(Messages)
          /\ Len(SubSeq(t \o ms, 1, Len(t))) = Len(t)
          /\ \A i \in 1 .. Len(t) : SubSeq(t \o ms, 1, Len(t))[i] = (t \o ms)[i]
      <4>1. \A i \in 1 .. Len(t) : (t \o ms)[i] \in Messages
        BY <2>4, <3>1
      <4>2. 1 \in Int /\ Len(t) \in Int
        BY <3>1
      <4> QED BY <2>4, <3>1, <4>1, <4>2, SubSeqProperties
    <3> QED BY <2>4, <3>1, <3>2, SeqEqual
  <2> QED BY <1>2, <1>4, <2>5, <2>6, <2>7, <2>8, <2>9 DEF Ledger!Next, Ledger!Record, Log, Durable
<1>5. CASE ~(writer = mem /\ writer \in Sessions)
  <2>1. \A s \in Sessions : Transcript(s)' = Transcript(s)
    BY <1>1, <1>5 DEF Transcript, Add
  <2> QED BY <1>2, <2>1 DEF Log
<1> QED BY <1>4, <1>5

\* A write moves a message from what is scheduled to the file.
LEMMA WriteTranscripts ==
  ASSUME LInv, WholeInv, ~TornWrites, Write
  PROVE  \A s \in Sessions : Transcript(s)' = Transcript(s)
<1>1. /\ writer \in Sessions
      /\ Loaded(writer)' = Append(Loaded(writer), Head(pending))
      /\ \A s \in Sessions \ {writer} : Loaded(s)' = Loaded(s)
  BY WriteLoads
<1>2. pending \in Seq(Messages) /\ pending # <<>> /\ pending' = Tail(pending) /\ writer' = writer
  BY Facts DEF MemType, StoreType, Write
<1>3. PICK w \in Sessions : w = writer
  BY <1>1
<1>4. Loaded(w) \in Seq(Messages) /\ Loaded(w)' = Append(Loaded(w), Head(pending))
  <2>1. Loaded(w)' = Loaded(writer)'
    BY <1>2, <1>3 DEF Loaded
  <2> QED BY <1>1, <1>3, <2>1, TranscriptFacts
<1>5. Head(pending) \in Messages /\ Tail(pending) \in Seq(Messages) /\ <<Head(pending)>> \in Seq(Messages)
      /\ pending = <<Head(pending)>> \o Tail(pending) /\ Len(pending) \in Nat \ {0}
  BY <1>2
<1>6. Transcript(w)' = Transcript(w)
  <2> DEFINE a == Loaded(w)
             h == Head(pending)
             t == Tail(pending)
  <2>1. Transcript(w) = a \o pending /\ Transcript(w)' = Append(a, h) \o t
    BY <1>2, <1>3, <1>4 DEF Transcript
  <2>2. a \in Seq(Messages) /\ h \in Messages /\ <<h>> \in Seq(Messages) /\ t \in Seq(Messages)
        /\ pending = <<h>> \o t
    BY <1>4, <1>5
  <2> HIDE DEF a, h, t
  <2>3. Append(a, h) = a \o <<h>> /\ a \o (<<h>> \o t) = (a \o <<h>>) \o t
    BY <2>2, ConcatAssociative
  <2> QED BY <2>1, <2>2, <2>3
<1>7. \A s \in Sessions \ {w} : Transcript(s)' = Transcript(s)
  BY <1>1, <1>2, <1>3 DEF Transcript
<1> QED BY <1>6, <1>7

LEMMA WriteRecords ==
  ASSUME LInv, WholeInv, ~TornWrites, Write
  PROVE  [Ledger!Next]_<<Log, Durable>>
<1>1. PICK w \in Sessions :
        /\ w = writer /\ Loaded(w)' = Append(Loaded(w), Head(pending))
        /\ \A s \in Sessions \ {w} : Loaded(s)' = Loaded(s)
  <2>1. PICK w \in Sessions : w = writer
    BY WriteLoads
  <2>2. Loaded(w)' = Loaded(writer)'
    BY <2>1 DEF Loaded, Write
  <2> QED BY <2>1, <2>2, WriteLoads
<1>2. pending \in Seq(Messages) /\ pending # <<>> /\ Loaded(w) \in Seq(Messages)
  BY Facts, TranscriptFacts DEF MemType, StoreType, Write
<1>3. Head(pending) \in Messages /\ Len(pending) \in Nat \ {0}
  BY <1>2
<1>4. Log' = Log
  BY WriteTranscripts DEF Log
<1>5. Durable' = [Durable EXCEPT ![w] = @ + 1]
  <2>1. Len(Loaded(w)') = Len(Loaded(w)) + 1
    BY <1>1, <1>2, <1>3
  <2> QED BY <1>1, <2>1 DEF Durable
<1>6. Durable[w] < Len(Log[w])
  <2>1. Log[w] = Loaded(w) \o pending
    BY <1>1 DEF Log, Transcript
  <2>2. Len(Loaded(w) \o pending) = Len(Loaded(w)) + Len(pending) /\ Len(Loaded(w)) \in Nat
    BY <1>2, ConcatProperties
  <2> QED BY <1>3, <2>1, <2>2 DEF Durable
<1> QED BY <1>4, <1>5, <1>6 DEF Ledger!Next, Ledger!Persist, Log, Durable

LEMMA CrashRecords ==
  ASSUME LInv, ~TornWrites, Crash
  PROVE  [Ledger!Next]_<<Log, Durable>>
<1>1. UNCHANGED fileVars /\ writer' = NoSession /\ pending' = <<>>
  BY DEF Crash
<1>2. ASSUME NEW s \in Sessions
      PROVE  /\ Log'[s] = SubSeq(Log[s], 1, Durable[s])
             /\ Durable'[s] = Durable[s]
  <2> DEFINE a == Loaded(s)
             t == IF s = writer THEN pending ELSE <<>>
  <2>1. a \in Seq(Messages) /\ t \in Seq(Messages)
    BY Facts, TranscriptFacts DEF MemType, StoreType
  <2>2. Log[s] = a \o t /\ Durable[s] = Len(a) /\ Durable'[s] = Len(a)
    BY <1>1 DEF Log, Durable, Transcript, Loaded, fileVars
  <2>3. Log'[s] = a
    <3>1. Log'[s] = a \o <<>>
      BY <1>1 DEF Log, Transcript, Loaded, fileVars
    <3> QED BY <2>1, <3>1, ConcatEmptySeq
  <2> HIDE DEF a, t
  <2>4. /\ Len(a) \in Nat /\ Len(t) \in Nat /\ Len(a \o t) = Len(a) + Len(t)
        /\ \A i \in 1 .. Len(a) : (a \o t)[i] = a[i]
    BY <2>1, ConcatProperties
  <2>5. \A i \in 1 .. Len(a) : (a \o t)[i] \in Messages
    BY <2>1, <2>4
  <2>6. /\ SubSeq(a \o t, 1, Len(a)) \in Seq(Messages)
        /\ Len(SubSeq(a \o t, 1, Len(a))) = Len(a)
        /\ \A i \in 1 .. Len(a) : SubSeq(a \o t, 1, Len(a))[i] = (a \o t)[i]
    BY <2>4, <2>5, SubSeqProperties
  <2>7. SubSeq(a \o t, 1, Len(a)) = a
    BY <2>1, <2>4, <2>6, SeqEqual
  <2> QED BY <2>2, <2>3, <2>7
<1>3. Log' = [s \in Sessions |-> SubSeq(Log[s], 1, Durable[s])] /\ Durable' = Durable
  BY <1>2 DEF Log, Durable
<1> QED BY <1>3 DEF Ledger!Next, Ledger!Crash, Log, Durable

\* Sessions are switched when there is nothing left to write, or writes go on.
LEMMA SwitchRecords ==
  ASSUME LInv, UNCHANGED fileVars, pending' = pending, writer' = writer \/ pending = <<>>
  PROVE  UNCHANGED <<Log, Durable>>
<1>1. \A s \in Sessions : Loaded(s)' = Loaded(s)
  BY DEF Loaded, fileVars
<1>2. \A s \in Sessions : Transcript(s)' = Transcript(s)
  <2>1. CASE writer' = writer
    BY <1>1, <2>1 DEF Transcript
  <2>2. CASE pending = <<>>
    BY <1>1, <2>2 DEF Transcript
  <2> QED BY <2>1, <2>2
<1> QED BY <1>1, <1>2 DEF Log, Durable

LEMMA RecordStep ==
  ASSUME LInv, WholeInv, ~TornWrites, [Next]_vars
  PROVE  [Ledger!Next]_<<Log, Durable>>
<1>1. MemType /\ Bound
  BY Facts
<1>2. CASE Chat \/ Reply \/ Compacted \/ Result \/ EndTurn
  <2>1. UNCHANGED <<mem, writer, fileVars>>
    BY <1>2 DEF Chat, Reply, Compacted, Result, EndTurn
  <2> QED BY <1>2, <2>1, Adds, AddRecords, SwitchRecords
<1>3. ASSUME NEW i \in 1 .. Len(store), NEW k \in Flips, Flip(i, k)
      PROVE [Ledger!Next]_<<Log, Durable>>
  <2>1. mem \in Sessions /\ Add(<<Msg(k, mem, TurnAt(i))>>) /\ TurnAt(i) \in SUBSET Ids
    BY <1>1, <1>3, TurnIds DEF Flip, MemType
  <2>2. <<Msg(k, mem, TurnAt(i))>> \in Seq(Messages)
    BY <1>1, <2>1, AddOne, MsgType, IdsFacts DEF MemType
  <2> QED BY <1>3, <2>1, <2>2, AddRecords DEF Flip
<1>4. CASE Write
  BY <1>4, WriteRecords
<1>5. CASE Crash
  BY <1>5, CrashRecords
<1>6. CASE Bind \/ \E s \in Sessions : Start(s) \/ NewSession(s) \/ Resume(s)
  <2>1. UNCHANGED fileVars /\ pending' = pending /\ (writer' = writer \/ pending = <<>>)
    BY <1>1, <1>6 DEF Bind, Start, NewSession, Resume, SwitchTo, Bound
  <2> QED BY <2>1, SwitchRecords
<1>7. CASE UNCHANGED vars
  BY <1>7, SwitchRecords DEF vars
<1> QED BY <1>2, <1>3, <1>4, <1>5, <1>6, <1>7 DEF Next

LEMMA RecordInit ==
  ASSUME Init
  PROVE  Ledger!Init
<1> SUFFICES ASSUME NEW s \in Sessions PROVE Transcript(s) = <<>> /\ Len(Loaded(s)) = 0
  BY DEF Ledger!Init
<1>1. LInv /\ file[s] = <<>> /\ pending = <<>>
  BY LInit DEF Init
<1>2. Loaded(s) = <<>>
  BY <1>1, FreshLoads
<1> QED BY <1>1, <1>2, TranscriptFacts

\* If no write is cut short, each session's transcript is a log that only grows,
\* becomes durable in order, and loses to a crash what was not durable; session
\* switches, also in the middle of a turn, do not touch it.
THEOREM ImplementsLog ==
  ASSUME ~TornWrites
  PROVE  Spec => ImplementsTranscriptLog
<1>1. Init => Ledger!Init
  BY RecordInit
<1>2. LInv /\ WholeInv /\ [Next]_vars => [Ledger!Next]_<<Log, Durable>>
  BY RecordStep
<1>3. Init => WholeInv
  BY DEF Init, WholeInv, Whole
<1>4. LInv /\ WholeInv /\ [Next]_vars => WholeInv'
  <2>1. ASSUME UNCHANGED vars, WholeInv PROVE WholeInv'
    BY <2>1 DEF vars, fileVars, WholeInv, Whole
  <2> QED BY <2>1, WholeStep
<1> QED BY <1>1, <1>2, <1>3, <1>4, LedgerInvariant, PTL DEF Spec, ImplementsTranscriptLog, Ledger!Spec, Log, Durable

-----------------------------------------------------------------------------
(* What a resume would tell the model *)

\* Every nonempty set of naturals has a least element: by the well-founded relation
\* itself, since a theorem about an operator cannot be instantiated.
NatLess == {p \in Nat \X Nat : p[1] < p[2]}

LEMMA Least ==
  ASSUME NEW S, S \subseteq Nat, S # {}
  PROVE  \E n \in S : \A m \in S : n <= m
<1>1. IsWellFoundedOn(NatLess, Nat)
  BY NatLessThanWellFounded DEF OpToRel, NatLess
<1>2. PICK n \in S : \A m \in S : <<m, n>> \notin NatLess
  BY <1>1, WFMin
<1>3. ASSUME NEW m \in S PROVE n <= m
  <2>1. m \in Nat /\ n \in Nat /\ <<m, n>> \in Nat \X Nat
    OBVIOUS
  <2>2. ~(<<m, n>>[1] < <<m, n>>[2])
    BY <1>2, <2>1 DEF NatLess
  <2> QED BY <2>1, <2>2
<1> QED BY <1>3

\* A set of naturals with a bound has a greatest element.
LEMMA Greatest ==
  ASSUME NEW S, S \subseteq Nat, S # {}, NEW b \in Nat, \A n \in S : n <= b
  PROVE  \E n \in S : \A m \in S : m <= n
<1> DEFINE Above == {k \in Nat : \A m \in S : m <= k}
<1>1. PICK n \in Above : \A k \in Above : n <= k
  <2>1. b \in Above
    OBVIOUS
  <2> QED BY <2>1, Least
<1>2. n \in S
  <2> SUFFICES ASSUME n \notin S PROVE FALSE
    OBVIOUS
  <2>1. PICK s \in S : TRUE
    OBVIOUS
  <2>2. \A m \in S : m <= n - 1
    BY <1>1
  <2>3. n - 1 \in Above
    BY <2>1, <2>2, <1>1
  <2> QED BY <1>1, <2>3
<1> QED BY <1>1, <1>2

\* The messages after message i that flip its meta.deleted.
LaterIn(st, i) == {j \in i + 1 .. Len(st) : st[j].kind \in Flips /\ st[i].id \in st[j].about}

\* The flags in memory are what replaying the lines ls and then the rest of st would
\* give: the last flip decides, and without one the flag the line was written with.
Agree(st, ls, del) ==
  \A i \in 1 .. Len(st) :
    /\ LaterIn(st, i) = {} /\ i <= Len(ls) => (ls[i].del = (st[i].id \in del))
    /\ \A k \in LaterIn(st, i) :
         (\A l \in LaterIn(st, i) : l <= k) => (st[k].kind = "deleted" <=> st[i].id \in del)

\* Messages that flip nothing leave the agreement alone.
LEMMA AgreeMore ==
  ASSUME NEW st \in Seq(Messages), NEW ms \in Seq(Messages), NEW ls \in Seq(Lines), NEW del,
         Len(ls) <= Len(st), \A i \in 1 .. Len(ms) : ms[i].kind \notin Flips,
         Agree(st, ls, del)
  PROVE  Agree(st \o ms, ls, del)
<1> DEFINE new == st \o ms
<1>1. /\ new \in Seq(Messages) /\ Len(new) = Len(st) + Len(ms)
      /\ Len(st) \in Nat /\ Len(ms) \in Nat /\ Len(ls) \in Nat
      /\ \A i \in 1 .. Len(st) : new[i] = st[i]
      /\ \A i \in 1 .. Len(new) : i > Len(st) => i - Len(st) \in 1 .. Len(ms) /\ new[i] = ms[i - Len(st)]
  BY ConcatProperties
<1> HIDE DEF new
<1>2. ASSUME NEW j \in 1 .. Len(new), j \notin 1 .. Len(st) PROVE new[j].kind \notin Flips
  <2>1. j > Len(st)
    BY <1>1, <1>2
  <2> QED BY <1>1, <2>1
<1>3. ASSUME NEW i \in 1 .. Len(st) PROVE LaterIn(new, i) = LaterIn(st, i)
  <2>1. ASSUME NEW j \in LaterIn(new, i) PROVE j \in LaterIn(st, i)
    <3>1. j \in 1 .. Len(new) /\ j > i /\ new[j].kind \in Flips /\ new[i].id \in new[j].about
      BY <1>1 DEF LaterIn
    <3>2. j \in 1 .. Len(st)
      BY <1>2, <3>1
    <3>3. new[j] = st[j] /\ new[i] = st[i]
      BY <1>1, <3>2
    <3> QED BY <3>1, <3>2, <3>3 DEF LaterIn
  <2>2. ASSUME NEW j \in LaterIn(st, i) PROVE j \in LaterIn(new, i)
    <3>1. j \in 1 .. Len(st) /\ j > i /\ st[j].kind \in Flips /\ st[i].id \in st[j].about
      BY <1>1 DEF LaterIn
    <3>2. new[j] = st[j] /\ new[i] = st[i] /\ j <= Len(new)
      BY <1>1, <3>1
    <3> QED BY <1>1, <3>1, <3>2 DEF LaterIn
  <2> QED BY <2>1, <2>2
<1>4. \A i \in 1 .. Len(new) : i \notin 1 .. Len(st) => LaterIn(new, i) = {}
  <2> SUFFICES ASSUME NEW i \in 1 .. Len(new), i \notin 1 .. Len(st), NEW j \in LaterIn(new, i)
               PROVE  FALSE
    OBVIOUS
  <2>1. j \in 1 .. Len(new) /\ j \notin 1 .. Len(st) /\ new[j].kind \in Flips
    BY <1>1 DEF LaterIn
  <2> QED BY <1>2, <2>1
<1>5. ASSUME NEW i \in 1 .. Len(new)
      PROVE  /\ LaterIn(new, i) = {} /\ i <= Len(ls) => (ls[i].del = (new[i].id \in del))
             /\ \A k \in LaterIn(new, i) :
                  (\A l \in LaterIn(new, i) : l <= k) => (new[k].kind = "deleted" <=> new[i].id \in del)
  <2>1. CASE i \in 1 .. Len(st)
    <3>1. LaterIn(new, i) = LaterIn(st, i) /\ new[i] = st[i]
      BY <1>1, <1>3, <2>1
    <3>2. \A k \in LaterIn(st, i) : new[k] = st[k]
      BY <1>1, <2>1 DEF LaterIn
    <3>3. LaterIn(st, i) = {} /\ i <= Len(ls) => (ls[i].del = (st[i].id \in del))
      BY <2>1, Zenon DEF Agree
    <3>4. \A k \in LaterIn(st, i) :
            (\A l \in LaterIn(st, i) : l <= k) => (st[k].kind = "deleted" <=> st[i].id \in del)
      BY <2>1, Zenon DEF Agree
    <3> QED BY <3>1, <3>2, <3>3, <3>4
  <2>2. CASE i \notin 1 .. Len(st)
    <3>1. LaterIn(new, i) = {} /\ ~(i <= Len(ls))
      BY <1>1, <1>4, <2>2
    <3> QED BY <3>1
  <2> QED BY <2>1, <2>2
<1>6. Agree(new, ls, del)
  BY <1>5, Zenon DEF Agree
<1> QED BY <1>6 DEF new

\* A flip at the end decides for the messages it names.
LEMMA AgreeFlip ==
  ASSUME NEW st \in Seq(Messages), NEW m \in Messages, NEW ls \in Seq(Lines), NEW del, NEW del2,
         Len(ls) <= Len(st), m.kind \in Flips, Agree(st, ls, del),
         \A i \in 1 .. Len(st) :
           IF st[i].id \in m.about THEN (st[i].id \in del2 <=> m.kind = "deleted")
                                   ELSE (st[i].id \in del2 <=> st[i].id \in del)
  PROVE  Agree(st \o <<m>>, ls, del2)
<1> DEFINE new == st \o <<m>>
           last == Len(st) + 1
<1>1. /\ new \in Seq(Messages) /\ Len(new) = last /\ Len(st) \in Nat /\ Len(ls) \in Nat
      /\ new[last] = m /\ \A i \in 1 .. Len(st) : new[i] = st[i]
  <2>1. new = Append(st, m)
    OBVIOUS
  <2> QED BY <2>1
<1> HIDE DEF new
<1>2. \A i \in 1 .. Len(st) :
        LaterIn(new, i) = LaterIn(st, i) \cup (IF st[i].id \in m.about THEN {last} ELSE {})
  <2> SUFFICES ASSUME NEW i \in 1 .. Len(st), NEW j \in Int
               PROVE  j \in LaterIn(new, i) <=>
                        j \in LaterIn(st, i) \/ (j = last /\ st[i].id \in m.about)
    BY <1>1 DEF LaterIn
  <2>1. CASE j \in 1 .. Len(st)
    BY <1>1, <2>1 DEF LaterIn
  <2>2. CASE j = last
    BY <1>1, <2>2 DEF LaterIn
  <2>3. CASE j \notin 1 .. Len(st) /\ j # last
    BY <1>1, <2>3 DEF LaterIn
  <2> QED BY <2>1, <2>2, <2>3
<1>3. ASSUME NEW i \in 1 .. Len(new)
      PROVE  /\ LaterIn(new, i) = {} /\ i <= Len(ls) => (ls[i].del = (new[i].id \in del2))
             /\ \A k \in LaterIn(new, i) :
                  (\A l \in LaterIn(new, i) : l <= k) => (new[k].kind = "deleted" <=> new[i].id \in del2)
  <2>1. CASE i = last
    <3>1. LaterIn(new, i) = {} /\ ~(i <= Len(ls))
      BY <1>1, <2>1 DEF LaterIn
    <3> QED BY <3>1
  <2>2. CASE i # last /\ st[i].id \in m.about
    <3>1. i \in 1 .. Len(st) /\ new[i] = st[i]
      BY <1>1, <2>2
    <3>2. last \in LaterIn(new, i) /\ \A k \in LaterIn(st, i) : k \in Int /\ k < last
      BY <1>1, <1>2, <2>2, <3>1 DEF LaterIn
    <3>3. ASSUME NEW k \in LaterIn(new, i), \A l \in LaterIn(new, i) : l <= k PROVE k = last
      BY <1>1, <1>2, <3>1, <3>2, <3>3
    <3> QED BY <1>1, <2>2, <3>1, <3>2, <3>3
  <2>3. CASE i # last /\ st[i].id \notin m.about
    <3>0. i \in 1 .. Len(st) /\ new[i] = st[i]
      BY <1>1, <2>3
    <3>1. i \in 1 .. Len(st) /\ new[i] = st[i] /\ LaterIn(new, i) = LaterIn(st, i)
      <4>1. LaterIn(new, i) = LaterIn(st, i) \cup {}
        BY <1>2, <2>3, <3>0
      <4> QED BY <3>0, <4>1
    <3>2. \A k \in LaterIn(st, i) : new[k] = st[k]
      BY <1>1, <3>1 DEF LaterIn
    <3>3. LaterIn(st, i) = {} /\ i <= Len(ls) => (ls[i].del = (st[i].id \in del))
      BY <3>1, Zenon DEF Agree
    <3>4. \A k \in LaterIn(st, i) :
            (\A l \in LaterIn(st, i) : l <= k) => (st[k].kind = "deleted" <=> st[i].id \in del)
      BY <3>1, Zenon DEF Agree
    <3>5. (st[i].id \in del2) = (st[i].id \in del)
      BY <2>3, <3>1
    <3> QED BY <3>1, <3>2, <3>3, <3>4, <3>5
  <2> QED BY <2>1, <2>2, <2>3
<1>4. Agree(new, ls, del2)
  BY <1>3, Zenon DEF Agree
<1> QED BY <1>4 DEF new

\* A line is written with the flag its message has then.
LEMMA AgreeLine ==
  ASSUME NEW st \in Seq(Messages), NEW ls \in Seq(Lines), NEW del, NEW line \in Lines,
         Len(ls) < Len(st), line.del = (st[Len(ls) + 1].id \in del), Agree(st, ls, del)
  PROVE  Agree(st, Append(ls, line), del)
<1> DEFINE new == Append(ls, line)
<1>1. /\ Len(new) = Len(ls) + 1 /\ new[Len(ls) + 1] = line
      /\ \A i \in 1 .. Len(ls) : new[i] = ls[i]
      /\ Len(ls) \in Nat /\ Len(st) \in Nat
  OBVIOUS
<1> HIDE DEF new
<1>2. ASSUME NEW i \in 1 .. Len(st)
      PROVE  LaterIn(st, i) = {} /\ i <= Len(new) => (new[i].del = (st[i].id \in del))
  <2>1. CASE i \in 1 .. Len(ls)
    <3>1. LaterIn(st, i) = {} /\ i <= Len(ls) => (ls[i].del = (st[i].id \in del))
      BY Zenon DEF Agree
    <3> QED BY <1>1, <2>1, <3>1
  <2>2. CASE i = Len(ls) + 1
    BY <1>1, <2>2
  <2>3. CASE i \notin 1 .. Len(ls) /\ i # Len(ls) + 1
    BY <1>1, <2>3
  <2> QED BY <2>1, <2>2, <2>3
<1>3. Agree(st, new, del)
  BY <1>2, Zenon DEF Agree
<1> QED BY <1>3 DEF new

\* In a file of whole lines with an id for each, the replay's set says of every message
\* what its last flip, or without one its line, says.
LEMMA ReplayOf ==
  ASSUME NEW ls \in Seq(Lines), GoodEnd(ls, Len(ls)),
         \A i, j \in 1 .. Len(ls) : ls[i].msg.id = ls[j].msg.id => i = j,
         NEW i \in 1 .. Len(ls)
  PROVE  ls[i].msg.id \in DeletedIn(ls) <=>
           IF FlipsOf(ls, i) = {}
             THEN ls[i].del
             ELSE \E k \in FlipsOf(ls, i) :
                    ls[k].msg.kind = "deleted" /\ \A l \in FlipsOf(ls, i) : l <= k
<1>1. GoodLength(ls) = Len(ls)
  BY GoodLengthIs
<1> DEFINE P(j) == IF FlipsOf(ls, j) = {}
                     THEN ls[j].del
                     ELSE \E k \in FlipsOf(ls, j) :
                            ls[k].msg.kind = "deleted" /\ \A l \in FlipsOf(ls, j) : l <= k
<1>2. DeletedIn(ls) = {ls[j].msg.id : j \in {h \in 1 .. Len(ls) : P(h)}}
  BY <1>1, Zenon DEF DeletedIn
<1> HIDE DEF P
<1>3. ls[i].msg.id \in DeletedIn(ls) <=> P(i)
  BY <1>2
<1> QED BY <1>3 DEF P

\* The messages of a file's lines.
MsgsOf(ls) == [i \in 1 .. Len(ls) |-> ls[i].msg]

LEMMA FlipsAreLater ==
  ASSUME NEW ls \in Seq(Lines), GoodEnd(ls, Len(ls)), NEW i \in 1 .. Len(ls)
  PROVE  /\ FlipsOf(ls, i) = LaterIn(MsgsOf(ls), i)
         /\ MsgsOf(ls) \in Seq(Messages) /\ Len(MsgsOf(ls)) = Len(ls)
<1>1. GoodLength(ls) = Len(ls)
  BY GoodLengthIs
<1>2. MsgsOf(ls) \in Seq(Messages) /\ Len(MsgsOf(ls)) = Len(ls)
  <2>1. ASSUME NEW j \in 1 .. Len(ls) PROVE ls[j].msg \in Messages
    <3>1. ls[j] \in Lines
      OBVIOUS
    <3> QED BY <3>1 DEF Lines
  <2> QED BY <2>1 DEF MsgsOf
<1>3. Len(ls) \in Nat /\ \A j \in 1 .. Len(ls) : MsgsOf(ls)[j] = ls[j].msg
  BY DEF MsgsOf
<1>4. i + 1 .. Len(ls) \subseteq 1 .. Len(ls)
  BY <1>3
<1> QED BY <1>1, <1>2, <1>3, <1>4 DEF FlipsOf, LaterIn

\* What is read from a file agrees with it.
LEMMA AgreeLoaded ==
  ASSUME NEW ls \in Seq(Lines), GoodEnd(ls, Len(ls)), NEW del,
         \A i, j \in 1 .. Len(ls) : ls[i].msg.id = ls[j].msg.id => i = j,
         \A i \in 1 .. Len(ls) : ls[i].msg.id \in del <=> ls[i].msg.id \in DeletedIn(ls)
  PROVE  Agree(MsgsOf(ls), ls, del)
<1> DEFINE st == MsgsOf(ls)
<1>1. Len(ls) \in Nat /\ Len(st) = Len(ls) /\ \A j \in 1 .. Len(ls) : st[j] = ls[j].msg
  BY DEF MsgsOf
<1>2. ASSUME NEW i \in 1 .. Len(ls)
      PROVE  /\ LaterIn(st, i) = {} => (ls[i].del = (st[i].id \in del))
             /\ \A k \in LaterIn(st, i) :
                  (\A l \in LaterIn(st, i) : l <= k) => (st[k].kind = "deleted" <=> st[i].id \in del)
  <2> DEFINE F == LaterIn(st, i)
  <2>1. st[i].id \in del <=>
          IF F = {} THEN ls[i].del
          ELSE \E k \in F : ls[k].msg.kind = "deleted" /\ \A l \in F : l <= k
    BY <1>1, ReplayOf, FlipsAreLater
  <2>2. \A k \in F : k \in Int /\ st[k] = ls[k].msg
    BY <1>1 DEF LaterIn
  <2>3. ls[i].del \in BOOLEAN
    <3>1. ls[i] \in Lines
      OBVIOUS
    <3> QED BY <3>1 DEF Lines
  <2> HIDE DEF F, st
  <2>4. F = {} => (ls[i].del = (st[i].id \in del))
    BY <2>1, <2>3
  <2>5. ASSUME NEW k \in F, \A l \in F : l <= k PROVE st[k].kind = "deleted" <=> st[i].id \in del
    <3>1. \A h \in F : (\A l \in F : l <= h) => h = k
      BY <2>2, <2>5
    <3>2. st[i].id \in del <=> \E h \in F : ls[h].msg.kind = "deleted" /\ \A l \in F : l <= h
      BY <2>1, <2>5
    <3> QED BY <2>2, <2>5, <3>1, <3>2
  <2> QED BY <2>4, <2>5 DEF F
<1> HIDE DEF st
<1>3. Agree(st, ls, del)
  BY <1>1, <1>2, Zenon DEF Agree
<1> QED BY <1>3 DEF st

\* And what agrees with a file is what would be read from it.
LEMMA AgreeReplays ==
  ASSUME NEW ls \in Seq(Lines), GoodEnd(ls, Len(ls)), NEW del,
         \A i, j \in 1 .. Len(ls) : ls[i].msg.id = ls[j].msg.id => i = j,
         Agree(MsgsOf(ls), ls, del), NEW i \in 1 .. Len(ls)
  PROVE  ls[i].msg.id \in del <=> ls[i].msg.id \in DeletedIn(ls)
<1> DEFINE st == MsgsOf(ls)
           F == LaterIn(st, i)
<1>1. Len(ls) \in Nat /\ Len(st) = Len(ls) /\ \A j \in 1 .. Len(ls) : st[j] = ls[j].msg
  BY DEF MsgsOf
<1>2. ls[i].msg.id \in DeletedIn(ls) <=>
        IF F = {} THEN ls[i].del
        ELSE \E k \in F : ls[k].msg.kind = "deleted" /\ \A l \in F : l <= k
  BY ReplayOf, FlipsAreLater
<1>3. F \subseteq Nat /\ \A k \in F : k <= Len(ls) /\ st[k] = ls[k].msg
  BY <1>1 DEF LaterIn
<1>4. F = {} => (ls[i].del = (st[i].id \in del))
  <2>1. i \in 1 .. Len(st) /\ i <= Len(ls)
    BY <1>1
  <2> QED BY <2>1, Zenon DEF Agree
<1>5. \A k \in F : (\A l \in F : l <= k) => (st[k].kind = "deleted" <=> st[i].id \in del)
  BY <1>1, Zenon DEF Agree
<1>6. ls[i].del \in BOOLEAN /\ st[i] = ls[i].msg
  <2>1. ls[i] \in Lines
    OBVIOUS
  <2> QED BY <1>1, <2>1 DEF Lines
<1> HIDE DEF F, st
<1>7. CASE F = {}
  BY <1>2, <1>4, <1>6, <1>7
<1>8. CASE F # {}
  <2>1. PICK k \in F : \A l \in F : l <= k
    BY <1>1, <1>3, <1>8, Greatest
  <2>2. \A h \in F : (\A l \in F : l <= h) => h = k
    BY <1>3, <2>1
  <2> QED BY <1>2, <1>3, <1>5, <1>6, <1>8, <2>1, <2>2
<1> QED BY <1>7, <1>8

\* Every message of every transcript has an id of its own, and one that was given out.
IdsInv ==
  \A s \in Sessions : \A i \in 1 .. Len(Transcript(s)) :
    /\ Transcript(s)[i].id < nextId
    /\ \A t \in Sessions : \A j \in 1 .. Len(Transcript(t)) :
         Transcript(s)[i].id = Transcript(t)[j].id => s = t /\ i = j

\* The flags in memory are what the file and the scheduled writes will replay to.
FlagInv == mem # NoSession => Agree(store, file[mem], deleted)

\* The messages that add_message gives ids to, in order.
NewIds(ms) == \A i \in 1 .. Len(ms) : ms[i].id = nextId + (i - 1)

\* What adding messages does to the transcripts.
LEMMA AddTranscripts ==
  ASSUME LInv, NEW ms \in Seq(Messages), Add(ms), UNCHANGED <<mem, writer, fileVars>>, NEW s \in Sessions
  PROVE  /\ Transcript(s) \in Seq(Messages)
         /\ Transcript(s)' = IF s = writer /\ writer = mem THEN Transcript(s) \o ms ELSE Transcript(s)
<1>1. Loaded(s)' = Loaded(s) /\ writer' = writer
  BY DEF Loaded, fileVars
<1>2. Loaded(s) \in Seq(Messages) /\ Transcript(s) \in Seq(Messages) /\ pending \in Seq(Messages)
  BY Facts, TranscriptFacts DEF MemType, StoreType
<1>3. CASE s = writer /\ writer = mem
  <2>1. Transcript(s)' = Loaded(s) \o (pending \o ms) /\ Transcript(s) = Loaded(s) \o pending
    BY <1>1, <1>3 DEF Transcript, Add
  <2>2. Loaded(s) \o (pending \o ms) = (Loaded(s) \o pending) \o ms
    BY SMTT(30), <1>2, ConcatAssociative
  <2> QED BY <1>2, <1>3, <2>1, <2>2
<1>4. CASE ~(s = writer /\ writer = mem)
  <2>1. Transcript(s)' = Transcript(s)
    BY <1>1, <1>4 DEF Transcript, Add
  <2> QED BY <1>2, <1>4, <2>1
<1> QED BY <1>3, <1>4

LEMMA AddKeepsIds ==
  ASSUME LInv, IdsInv, NEW ms \in Seq(Messages), NewIds(ms), Add(ms), UNCHANGED <<mem, writer, fileVars>>
  PROVE  IdsInv'
<1>1. nextId \in Nat /\ nextId' = nextId + Len(ms) /\ Len(ms) \in Nat
  BY Facts DEF MemType, StoreType, Add
<1> DEFINE old(s) == Transcript(s)
           new(s) == Transcript(s)'
           Given(s, i) == i - Len(old(s)) \in 1 .. Len(ms) /\ s = writer
                           /\ new(s)[i].id = nextId + (i - Len(old(s)) - 1)
           Kept(s, i) == i \in 1 .. Len(old(s)) /\ new(s)[i].id = old(s)[i].id
<1>2. ASSUME NEW s \in Sessions, NEW i \in 1 .. Len(new(s))
      PROVE  Len(old(s)) \in Nat /\ i \in Nat /\ (Kept(s, i) \/ Given(s, i))
  <2>1. old(s) \in Seq(Messages)
        /\ new(s) = IF s = writer /\ writer = mem THEN old(s) \o ms ELSE old(s)
    BY AddTranscripts
  <2> HIDE DEF old, new
  <2>2. CASE s = writer /\ writer = mem
    <3>1. /\ Len(new(s)) = Len(old(s)) + Len(ms) /\ Len(old(s)) \in Nat
          /\ \A j \in 1 .. Len(old(s)) : new(s)[j] = old(s)[j]
          /\ \A j \in 1 .. Len(ms) : new(s)[j + Len(old(s))] = ms[j]
      BY <2>1, <2>2, ConcatProperties
    <3>2. CASE i \in 1 .. Len(old(s))
      BY <3>1, <3>2
    <3>3. CASE i \notin 1 .. Len(old(s))
      <4> DEFINE h == i - Len(old(s))
      <4>1. h \in 1 .. Len(ms) /\ i = h + Len(old(s))
        BY <1>1, <3>1, <3>3
      <4>2. new(s)[i] = ms[h]
        BY <3>1, <4>1
      <4>3. ms[h].id = nextId + (h - 1)
        BY <4>1 DEF NewIds
      <4> QED BY <2>2, <3>1, <4>1, <4>2, <4>3
    <3> QED BY <3>2, <3>3
  <2>3. CASE ~(s = writer /\ writer = mem)
    BY <2>1, <2>3
  <2> QED BY <2>2, <2>3
<1>3. \A s \in Sessions : \A i \in 1 .. Len(old(s)) :
        /\ old(s)[i].id < nextId
        /\ \A t \in Sessions : \A j \in 1 .. Len(old(t)) : old(s)[i].id = old(t)[j].id => s = t /\ i = j
  BY DEF IdsInv
<1>4. \A s \in Sessions : \A i \in 1 .. Len(old(s)) : old(s)[i].id \in Nat
  <2> SUFFICES ASSUME NEW s \in Sessions, NEW i \in 1 .. Len(old(s)) PROVE old(s)[i].id \in Nat
    OBVIOUS
  <2>1. old(s) \in Seq(Messages)
    BY TranscriptFacts
  <2>2. old(s)[i] \in Messages
    BY <2>1
  <2> QED BY <2>2, IdsFacts DEF Messages
<1> HIDE DEF old, new
<1>5. ASSUME NEW s \in Sessions, NEW i \in 1 .. Len(new(s)) PROVE new(s)[i].id < nextId'
  BY <1>1, <1>2, <1>3, <1>4
<1>6. ASSUME NEW s \in Sessions, NEW i \in 1 .. Len(new(s)), NEW t \in Sessions, NEW j \in 1 .. Len(new(t)),
             new(s)[i].id = new(t)[j].id
      PROVE  s = t /\ i = j
  <2>1. Kept(s, i) \/ Given(s, i)
    BY <1>2
  <2>2. Kept(t, j) \/ Given(t, j)
    BY <1>2
  <2>3. ASSUME Kept(s, i) PROVE new(s)[i].id < nextId /\ new(s)[i].id \in Nat
    BY <1>3, <1>4, <2>3
  <2>4. ASSUME Kept(t, j) PROVE new(t)[j].id < nextId /\ new(t)[j].id \in Nat
    BY <1>3, <1>4, <2>4
  <2>5. Len(old(s)) \in Nat /\ Len(old(t)) \in Nat /\ i \in Nat /\ j \in Nat
    BY <1>2
  <2>6. ASSUME Given(s, i) PROVE ~(new(s)[i].id < nextId)
    BY <1>1, <2>5, <2>6
  <2>7. ASSUME Given(t, j) PROVE ~(new(t)[j].id < nextId)
    BY <1>1, <2>5, <2>7
  <2>8. CASE Kept(s, i) /\ Kept(t, j)
    <3>1. old(s)[i].id = old(t)[j].id
      BY <1>6, <2>8
    <3> QED BY <1>3, <2>8, <3>1
  <2>9. CASE Given(s, i) /\ Given(t, j)
    <3>1. s = t
      BY <2>9
    <3>2. nextId + (i - Len(old(s)) - 1) = nextId + (j - Len(old(t)) - 1)
      BY <1>6, <2>9
    <3>3. nextId + (i - Len(old(s)) - 1) = nextId + (j - Len(old(s)) - 1)
      BY <3>1, <3>2
    <3>4. i = j
      BY <1>1, <2>5, <3>3
    <3> QED BY <3>1, <3>4
  <2> HIDE DEF Kept, Given
  <2> QED BY <1>6, <2>1, <2>2, <2>3, <2>4, <2>6, <2>7, <2>8, <2>9
<1> QED BY <1>5, <1>6 DEF IdsInv, new

\* A transcript that stays or loses its end keeps its ids.
LEMMA ShorterKeepsIds ==
  ASSUME IdsInv, nextId' = nextId,
         \A s \in Sessions : \A i \in 1 .. Len(Transcript(s)') :
           i \in 1 .. Len(Transcript(s)) /\ Transcript(s)'[i] = Transcript(s)[i]
  PROVE  IdsInv'
BY DEF IdsInv

\* No message flips a flag.
Plain(ms) == \A i \in 1 .. Len(ms) : ms[i].kind \notin Flips

LEMMA OneNew ==
  ASSUME nextId \in Ids, NEW k \in Kinds, NEW o \in Sessions, NEW a \in SUBSET Ids
  PROVE  /\ <<Msg(k, o, a)>> \in Seq(Messages) /\ NewIds(<<Msg(k, o, a)>>)
         /\ Msg(k, o, a) \in Messages /\ Msg(k, o, a).kind = k /\ Msg(k, o, a).about = a
         /\ k \notin Flips => Plain(<<Msg(k, o, a)>>)
<1> DEFINE x == Msg(k, o, a)
<1>1. x.id = nextId /\ x.kind = k /\ x.about = a
  BY DEF Msg
<1>2. x \in Messages /\ <<x>> \in Seq(Messages)
  BY MsgType
<1> HIDE DEF x
<1>3. Len(<<x>>) = 1 /\ <<x>>[1] = x
  OBVIOUS
<1>4. nextId \in Nat
  BY IdsFacts
<1>5. NewIds(<<x>>)
  BY <1>1, <1>3, <1>4 DEF NewIds
<1>6. k \notin Flips => Plain(<<x>>)
  BY <1>1, <1>3 DEF Plain
<1> QED BY <1>1, <1>2, <1>5, <1>6 DEF x

\* A turn's messages are plain, and numbered.
LEMMA TurnAdds ==
  ASSUME LInv, Chat \/ Reply \/ Compacted \/ Result \/ EndTurn
  PROVE  \/ \E ms \in Seq(Messages) : Add(ms) /\ NewIds(ms) /\ Plain(ms)
         \/ UNCHANGED <<store, pending, nextId>>
<1>1. MemType /\ StoreType
  BY Facts DEF MemType
<1>2. CASE Chat \/ Reply \/ Result
  <2>1. PICK k \in {"user", "reply", "result"}, o \in Sessions : Add(<<Msg(k, o, {})>>)
    BY <1>1, <1>2 DEF Chat, Reply, Result, MemType
  <2>2. nextId \in Ids /\ k \in Kinds /\ k \notin Flips /\ {} \in SUBSET Ids
    BY <1>1, <2>1, AddOne, IdsFacts DEF Flips
  <2> QED BY <2>1, <2>2, OneNew
<1>3. CASE Compacted
  <2>1. UNCHANGED <<store, pending, nextId>> \/ Add(Marks)
    BY <1>3 DEF Compacted, Marks
  <2>2. ASSUME Add(Marks) PROVE Marks \in Seq(Messages) /\ NewIds(Marks) /\ Plain(Marks)
    <3>1. Marks \in Seq(Messages)
      BY <1>1, <1>3, <2>2, MarksType DEF Compacted, MemType
    <3> DEFINE x == Msg("boundary", origin, {})
               y == [Msg("summary", origin, {}) EXCEPT !.id = nextId + 1]
    <3>2. x.id = nextId /\ x.kind = "boundary" /\ y.id = nextId + 1 /\ y.kind = "summary"
      BY DEF Msg
    <3>3. Marks = <<x, y>>
      BY DEF Marks
    <3> HIDE DEF x, y
    <3>4. Len(Marks) = 2 /\ Marks[1] = x /\ Marks[2] = y
      BY <3>3
    <3>5. nextId \in Nat
      BY <1>1 DEF StoreType
    <3>6. ASSUME NEW i \in 1 .. Len(Marks) PROVE Marks[i].id = nextId + (i - 1) /\ Marks[i].kind \notin Flips
      <4>1. i = 1 \/ i = 2
        BY <3>4
      <4>2. CASE i = 1
        BY <3>2, <3>4, <3>5, <4>2 DEF Flips
      <4>3. CASE i = 2
        BY <3>2, <3>4, <3>5, <4>3 DEF Flips
      <4> QED BY <4>1, <4>2, <4>3
    <3> QED BY <3>1, <3>6 DEF NewIds, Plain
  <2> QED BY <2>1, <2>2
<1>4. CASE EndTurn
  BY <1>4 DEF EndTurn
<1> QED BY <1>2, <1>3, <1>4

\* A whole file, and the transcript that begins with it.
LEMMA FileFacts ==
  ASSUME LInv, Whole, NEW s \in Sessions
  PROVE  /\ file[s] \in Seq(Lines) /\ GoodEnd(file[s], Len(file[s])) /\ Len(file[s]) \in Nat
         /\ Loaded(s) = MsgsOf(file[s]) /\ Len(Loaded(s)) = Len(file[s])
         /\ Len(file[s]) <= Len(Transcript(s))
         /\ \A i \in 1 .. Len(file[s]) : Transcript(s)[i] = file[s][i].msg
<1>1. FileType /\ GoodEnd(file[s], Len(file[s]))
  BY Facts, WholeLoads
<1>2. file[s] \in Seq(Lines) /\ Len(file[s]) \in Nat
  BY <1>1 DEF FileType
<1>3. /\ GoodLength(file[s]) = Len(file[s]) /\ Len(Loaded(s)) = Len(file[s])
      /\ \A i \in 1 .. Len(file[s]) : Loaded(s)[i] = file[s][i].msg
  BY <1>1, LoadedIs
<1>4. Loaded(s) = MsgsOf(file[s])
  BY <1>3 DEF Loaded, MsgsOf
<1> DEFINE rest == IF s = writer THEN pending ELSE <<>>
<1>5. rest \in Seq(Messages) /\ Loaded(s) \in Seq(Messages) /\ Transcript(s) = Loaded(s) \o rest
  BY TranscriptFacts, Facts DEF MemType, StoreType, Transcript
<1> HIDE DEF rest
<1>6. /\ Len(Transcript(s)) = Len(Loaded(s)) + Len(rest) /\ Len(rest) \in Nat
      /\ \A i \in 1 .. Len(Loaded(s)) : Transcript(s)[i] = Loaded(s)[i]
  BY <1>5, ConcatProperties
<1> QED BY <1>1, <1>2, <1>3, <1>4, <1>6

\* What is scheduled follows in the writer's transcript.
LEMMA PendingFacts ==
  ASSUME LInv, Whole, writer \in Sessions, NEW i \in 1 .. Len(pending)
  PROVE  /\ Len(file[writer]) + i \in 1 .. Len(Transcript(writer))
         /\ Transcript(writer)[Len(file[writer]) + i] = pending[i]
<1>1. Len(Loaded(writer)) = Len(file[writer]) /\ Len(file[writer]) \in Nat
  BY FileFacts
<1>2. /\ pending \in Seq(Messages) /\ Loaded(writer) \in Seq(Messages)
      /\ Transcript(writer) = Loaded(writer) \o pending
  BY TranscriptFacts, Facts DEF MemType, StoreType, Transcript
<1>3. /\ Len(Transcript(writer)) = Len(Loaded(writer)) + Len(pending) /\ Len(pending) \in Nat
      /\ \A j \in 1 .. Len(pending) : Transcript(writer)[j + Len(Loaded(writer))] = pending[j]
  BY <1>2, ConcatProperties
<1> QED BY <1>1, <1>3

\* The lines of a file have ids of their own.
LEMMA LinesDiffer ==
  ASSUME LInv, Whole, IdsInv, NEW s \in Sessions
  PROVE  \A i, j \in 1 .. Len(file[s]) : file[s][i].msg.id = file[s][j].msg.id => i = j
<1>1. \A i \in 1 .. Len(file[s]) : i \in 1 .. Len(Transcript(s)) /\ Transcript(s)[i] = file[s][i].msg
  <2>1. Len(Transcript(s)) \in Nat
    BY TranscriptFacts
  <2> QED BY <2>1, FileFacts
<1> QED BY <1>1 DEF IdsInv

\* The store is the transcript of its session.
LEMMA StoreIsTranscript ==
  ASSUME LInv, StoreInv, mem # NoSession
  PROVE  mem \in Sessions /\ store = Transcript(mem)
<1>1. mem \in Sessions
  BY Facts DEF MemType
<1>2. Loaded(mem) \o <<>> = Loaded(mem)
  BY <1>1, TranscriptFacts, ConcatEmptySeq
<1> QED BY <1>1, <1>2 DEF StoreInv, StoreIsLedger, Transcript

\* Each action keeps the ids apart.
LEMMA IdsStep ==
  ASSUME LInv, WholeInv, Calm, IdsInv, Next
  PROVE  IdsInv'
<1>1. MemType /\ Bound /\ Whole
  BY Facts DEF WholeInv, Calm
<1>2. ASSUME UNCHANGED fileVars, pending' = pending, writer' = writer \/ pending = <<>>, nextId' = nextId
      PROVE  IdsInv'
  <2>1. ASSUME NEW s \in Sessions PROVE Transcript(s)' = Transcript(s)
    BY <1>2, SwitchRecords DEF Log
  <2> QED BY <1>2, <2>1, ShorterKeepsIds
<1>3. CASE Chat \/ Reply \/ Compacted \/ Result \/ EndTurn
  <2>1. UNCHANGED <<mem, writer, fileVars>>
    BY <1>3 DEF Chat, Reply, Compacted, Result, EndTurn
  <2> QED BY <1>2, <1>3, <2>1, TurnAdds, AddKeepsIds
<1>4. ASSUME NEW i \in 1 .. Len(store), NEW k \in Flips, Flip(i, k) PROVE IdsInv'
  <2>1. mem \in Sessions /\ Add(<<Msg(k, mem, TurnAt(i))>>) /\ TurnAt(i) \in SUBSET Ids
        /\ UNCHANGED <<mem, writer, fileVars>>
    BY <1>1, <1>4, TurnIds DEF Flip, MemType
  <2>2. nextId \in Ids /\ k \in Kinds
    BY <1>1, <2>1, AddOne, IdsFacts DEF MemType
  <2> QED BY <2>1, <2>2, OneNew, AddKeepsIds
<1>5. CASE Write
  <2>1. \A s \in Sessions : Transcript(s)' = Transcript(s)
    BY <1>5, WriteTranscripts DEF Calm
  <2>2. nextId' = nextId
    BY <1>5 DEF Write
  <2> QED BY <2>1, <2>2, ShorterKeepsIds
<1>6. CASE Crash
  <2>1. UNCHANGED fileVars /\ writer' = NoSession /\ pending' = <<>> /\ nextId' = nextId
    BY <1>6 DEF Crash, Calm
  <2>2. ASSUME NEW s \in Sessions, NEW i \in 1 .. Len(Transcript(s)')
        PROVE  i \in 1 .. Len(Transcript(s)) /\ Transcript(s)'[i] = Transcript(s)[i]
    <3>1. /\ Loaded(s) \in Seq(Messages)
          /\ Transcript(s)' = Loaded(s) \o <<>> /\ Loaded(s) \o <<>> = Loaded(s)
      <4>1. Loaded(s)' = Loaded(s)
        BY <2>1 DEF Loaded, fileVars
      <4> QED BY <2>1, <4>1, TranscriptFacts, ConcatEmptySeq DEF Transcript
    <3>2. Len(Transcript(s)) \in Nat /\ Len(Loaded(s)) = Len(file[s]) /\ Len(file[s]) <= Len(Transcript(s))
      BY <1>1, FileFacts, TranscriptFacts
    <3>3. i \in 1 .. Len(file[s]) /\ Transcript(s)'[i] = Loaded(s)[i] /\ Len(file[s]) \in Nat
      BY <1>1, <3>1, <3>2, FileFacts
    <3>4. Loaded(s)[i] = file[s][i].msg
      BY <1>1, <3>3, FileFacts DEF MsgsOf
    <3> QED BY <1>1, <3>2, <3>3, <3>4, FileFacts
  <2> QED BY <2>1, <2>2, ShorterKeepsIds
<1>7. CASE Bind \/ \E s \in Sessions : Start(s) \/ NewSession(s) \/ Resume(s)
  <2>1. /\ UNCHANGED fileVars /\ pending' = pending /\ nextId' = nextId
        /\ writer' = writer \/ pending = <<>>
    BY <1>1, <1>7 DEF Bind, Start, NewSession, Resume, SwitchTo, Bound
  <2> QED BY <1>2, <2>1
<1> QED BY <1>3, <1>4, <1>5, <1>6, <1>7 DEF Next

-----------------------------------------------------------------------------
(* Each action keeps the flags what a replay would give *)

\* What a turn adds flips nothing.
LEMMA TurnKeepsFlags ==
  ASSUME LInv, Whole, StoreInv, FlagInv, Chat \/ Reply \/ Compacted \/ Result \/ EndTurn
  PROVE  FlagInv'
<1>1. UNCHANGED <<mem, deleted, fileVars>> /\ file' = file
  BY DEF Chat, Reply, Compacted, Result, EndTurn, fileVars
<1>2. CASE UNCHANGED <<store, pending, nextId>>
  BY <1>1, <1>2 DEF FlagInv
<1>3. ASSUME NEW ms \in Seq(Messages), Add(ms), Plain(ms), mem # NoSession
      PROVE  Agree(store', file[mem], deleted)
  <2>1. store' = store \o ms
    BY <1>3 DEF Add
  <2>2. mem \in Sessions /\ store = Transcript(mem)
    BY <1>3, StoreIsTranscript
  <2>3. store \in Seq(Messages) /\ file[mem] \in Seq(Lines) /\ Len(file[mem]) <= Len(store)
    BY <2>2, FileFacts, TranscriptFacts
  <2>4. Agree(store, file[mem], deleted)
    BY <1>3 DEF FlagInv
  <2> QED BY <1>3, <2>1, <2>3, <2>4, AgreeMore DEF Plain
<1> QED BY <1>1, <1>2, <1>3, TurnAdds DEF FlagInv

\* delete_turn and restore_turn set the flags that their event replays.
LEMMA FlipKeepsFlags ==
  ASSUME LInv, Whole, StoreInv, FlagInv, NEW i \in 1 .. Len(store), NEW k \in Flips, Flip(i, k)
  PROVE  FlagInv'
<1>1. /\ mem # NoSession /\ mem' = mem /\ file' = file
      /\ deleted' = IF k = "deleted" THEN deleted \cup TurnAt(i) ELSE deleted \ TurnAt(i)
      /\ Add(<<Msg(k, mem, TurnAt(i))>>)
  BY DEF Flip, fileVars
<1>2. mem \in Sessions /\ store = Transcript(mem)
  BY <1>1, StoreIsTranscript
<1>3. store \in Seq(Messages) /\ file[mem] \in Seq(Lines) /\ Len(file[mem]) <= Len(store)
  BY <1>2, FileFacts, TranscriptFacts
<1>4. nextId \in Ids /\ k \in Kinds /\ TurnAt(i) \in SUBSET Ids
  BY <1>1, AddOne, IdsFacts, TurnIds, Facts DEF MemType
<1> DEFINE m == Msg(k, mem, TurnAt(i))
<1>5. m \in Messages /\ m.kind = k /\ m.about = TurnAt(i)
  <2>1. m \in Messages
    BY <1>2, <1>4, MsgType
  <2> QED BY <2>1 DEF Msg
<1>6. store' = store \o <<m>>
  BY <1>1 DEF Add
<1> HIDE DEF m
<1>7. \A j \in 1 .. Len(store) :
        IF store[j].id \in m.about THEN (store[j].id \in deleted' <=> m.kind = "deleted")
                                   ELSE (store[j].id \in deleted' <=> store[j].id \in deleted)
  BY <1>1, <1>5
<1>8. Agree(store, file[mem], deleted)
  BY <1>1 DEF FlagInv
<1>9. Agree(store \o <<m>>, file[mem], deleted')
  BY <1>3, <1>5, <1>7, <1>8, AgreeFlip
<1> QED BY <1>1, <1>6, <1>9 DEF FlagInv

\* A line carries the flag that its message has when it is written.
LEMMA WriteKeepsFlags ==
  ASSUME LInv, WholeInv, ~TornWrites, StoreInv, FlagInv, Write
  PROVE  FlagInv'
<1>1. /\ pending # <<>> /\ mem' = mem /\ store' = store /\ deleted' = deleted
      /\ MemType /\ FileType /\ Bound /\ Whole /\ pending \in Seq(Messages)
  BY Facts DEF Write, WholeInv, MemType, StoreType
<1>2. writer \in Sessions /\ Head(pending) = pending[1] /\ 1 \in 1 .. Len(pending) /\ Head(pending) \in Messages
  BY <1>1 DEF Bound, MemType
<1> DEFINE line == [bad |-> FALSE, msg |-> Head(pending), del |-> Head(pending).id \in deleted]
<1>3. line \in Lines /\ line.del = (Head(pending).id \in deleted)
  BY <1>2 DEF Lines
<1>4. file' = [file EXCEPT ![writer] = Append(file[writer], line)]
  <2>1. ~partial[writer]
    BY <1>1, <1>2 DEF Whole
  <2> QED BY <2>1 DEF Write
<1> HIDE DEF line
<1> SUFFICES ASSUME mem # NoSession PROVE Agree(store, file'[mem], deleted)
  BY <1>1 DEF FlagInv
<1>5. mem \in Sessions /\ store = Transcript(mem) /\ Agree(store, file[mem], deleted)
  BY StoreIsTranscript DEF FlagInv
<1>6. CASE mem = writer
  <2>1. file'[mem] = Append(file[mem], line) /\ file[mem] \in Seq(Lines) /\ Len(file[mem]) \in Nat
    BY <1>1, <1>2, <1>4, <1>6, FileFacts DEF FileType
  <2>2. Len(file[mem]) + 1 \in 1 .. Len(store) /\ store[Len(file[mem]) + 1] = Head(pending)
    BY <1>1, <1>2, <1>5, <1>6, PendingFacts
  <2>3. store \in Seq(Messages)
    BY <1>5, TranscriptFacts
  <2>4. Len(file[mem]) < Len(store) /\ line.del = (store[Len(file[mem]) + 1].id \in deleted)
    BY <1>3, <2>1, <2>2, <2>3
  <2> QED BY <1>3, <1>5, <2>1, <2>3, <2>4, AgreeLine
<1>7. CASE mem # writer
  <2>1. file'[mem] = file[mem]
    BY <1>1, <1>4, <1>5, <1>7 DEF FileType
  <2> QED BY <1>5, <2>1
<1> QED BY <1>6, <1>7

\* A resume reads the flags; the ids that the old session has still to write are not
\* among those it reads.
LEMMA ResumeKeepsFlags ==
  ASSUME LInv, Whole, IdsInv, NEW s \in Sessions, Resume(s)
  PROVE  FlagInv'
<1>1. MemType /\ Bound
  BY Facts
<1>2. /\ mem # NoSession /\ writer = mem /\ s # mem /\ mem' = s /\ store' = Loaded(s) /\ file' = file
      /\ deleted' = (deleted \cap {pending[i].id : i \in 1 .. Len(pending)}) \cup DeletedIn(file[s])
  BY DEF Resume, SwitchTo, fileVars
<1>3. writer \in Sessions
  BY <1>1, <1>2 DEF MemType
<1>4. file[s] \in Seq(Lines) /\ GoodEnd(file[s], Len(file[s])) /\ Loaded(s) = MsgsOf(file[s])
  BY FileFacts
<1>5. \A i, j \in 1 .. Len(file[s]) : file[s][i].msg.id = file[s][j].msg.id => i = j
  BY LinesDiffer
<1>6. ASSUME NEW i \in 1 .. Len(file[s]), NEW j \in 1 .. Len(pending), pending[j].id = file[s][i].msg.id
      PROVE  FALSE
  <2>1. /\ Len(file[writer]) + j \in 1 .. Len(Transcript(writer))
        /\ Transcript(writer)[Len(file[writer]) + j] = pending[j]
    BY <1>3, PendingFacts
  <2>2. i \in 1 .. Len(Transcript(s)) /\ Transcript(s)[i] = file[s][i].msg
    <3>1. Len(Transcript(s)) \in Nat
      BY TranscriptFacts
    <3> QED BY <3>1, FileFacts
  <2>3. writer = s
    BY SMTT(30), <1>3, <1>6, <2>1, <2>2 DEF IdsInv
  <2> QED BY <1>2, <2>3
<1>7. \A i \in 1 .. Len(file[s]) : file[s][i].msg.id \in deleted' <=> file[s][i].msg.id \in DeletedIn(file[s])
  BY <1>2, <1>6
<1>8. Agree(MsgsOf(file[s]), file[s], deleted')
  BY <1>4, <1>5, <1>7, AgreeLoaded
<1> QED BY <1>2, <1>4, <1>8 DEF FlagInv

LEMMA FlagStep ==
  ASSUME LInv, WholeInv, StoreInv, Calm, IdsInv, FlagInv, Next
  PROVE  FlagInv'
<1>1. MemType /\ Bound /\ Whole
  BY Facts DEF WholeInv, Calm
<1>2. \A ls, del : Agree(<<>>, ls, del)
  BY DEF Agree
<1>3. CASE Chat \/ Reply \/ Compacted \/ Result \/ EndTurn
  BY <1>1, <1>3, TurnKeepsFlags
<1>4. ASSUME NEW i \in 1 .. Len(store), NEW k \in Flips, Flip(i, k) PROVE FlagInv'
  BY <1>1, <1>4, FlipKeepsFlags
<1>5. CASE Write
  BY <1>5, WriteKeepsFlags DEF Calm
<1>6. CASE Crash
  BY <1>6 DEF Crash, FlagInv
<1>7. CASE Bind
  BY <1>7 DEF Bind, fileVars, FlagInv
<1>8. ASSUME NEW s \in Sessions, Start(s) \/ NewSession(s) PROVE FlagInv'
  <2>1. store' = <<>>
    BY <1>1, <1>8 DEF Start, NewSession, SwitchTo, Bound
  <2> QED BY <1>2, <2>1 DEF FlagInv
<1>9. ASSUME NEW s \in Sessions, Resume(s) PROVE FlagInv'
  BY <1>1, <1>9, ResumeKeepsFlags
<1> QED BY <1>3, <1>4, <1>5, <1>6, <1>7, <1>8, <1>9 DEF Next

\* With one session at a time, whenever everything is written a resume would give the
\* model the very context it has: deleted turns stay away, restored ones come back,
\* and nothing before the last compaction returns.
THEOREM ResumeTellsTheSame == Spec => [](TornWrites \/ SwitchMidTurn \/ ReplayAgrees)
<1> DEFINE J == WholeInv /\ (Calm => StoreInv /\ IdsInv /\ FlagInv)
<1>1. Init => J
  <2> SUFFICES ASSUME Init PROVE J
    OBVIOUS
  <2>1. WholeInv /\ StoreInv /\ FlagInv
    BY DEF Init, WholeInv, Whole, StoreInv, StoreIsLedger, FlagInv
  <2>2. \A s \in Sessions : Transcript(s) = <<>>
    <3> SUFFICES ASSUME NEW s \in Sessions PROVE Transcript(s) = <<>>
      OBVIOUS
    <3>1. LInv /\ file[s] = <<>> /\ pending = <<>>
      BY LInit DEF Init
    <3> QED BY <3>1, FreshLoads, TranscriptFacts
  <2>3. IdsInv
    BY <2>2 DEF IdsInv
  <2> QED BY <2>1, <2>3
<1>2. LInv /\ J /\ [Next]_vars => J'
  <2>1. ASSUME UNCHANGED vars, J PROVE J'
    <3>1. UNCHANGED <<mem, writer, store, deleted, pending, file, partial, phase, nextId>>
      BY <2>1 DEF vars, fileVars, turnVars
    <3>2. (WholeInv => WholeInv') /\ (FlagInv => FlagInv')
      BY <3>1 DEF WholeInv, Whole, FlagInv
    <3>3. StoreInv => StoreInv'
      BY <3>1 DEF StoreInv, StoreIsLedger, Loaded
    <3>4. \A s \in Sessions : Transcript(s)' = Transcript(s)
      BY <3>1 DEF Transcript, Loaded
    <3>5. IdsInv => IdsInv'
      BY <3>1, <3>4, ShorterKeepsIds
    <3> QED BY <2>1, <3>2, <3>3, <3>5 DEF Calm
  <2>2. ASSUME LInv, J, Next PROVE J'
    BY <2>2, WholeStep, StoreStep, IdsStep, FlagStep DEF Calm
  <2> QED BY <2>1, <2>2
<1>3. LInv /\ J => (TornWrites \/ SwitchMidTurn \/ ReplayAgrees)
  <2> SUFFICES ASSUME LInv, WholeInv, StoreInv, IdsInv, FlagInv, ~TornWrites,
                      mem # NoSession, pending = <<>>, writer = mem
               PROVE  Context(store, deleted) = Context(Loaded(mem), DeletedIn(file[mem]))
    BY ConstantsAssumption DEF Calm, ReplayAgrees
  <2>1. Whole /\ mem \in Sessions /\ store = Transcript(mem) /\ Agree(store, file[mem], deleted)
    BY StoreIsTranscript DEF WholeInv, FlagInv
  <2>2. store = Loaded(mem)
    BY <2>1, TranscriptFacts
  <2>3. /\ file[mem] \in Seq(Lines) /\ GoodEnd(file[mem], Len(file[mem]))
        /\ Loaded(mem) = MsgsOf(file[mem]) /\ Len(store) = Len(file[mem])
    BY <2>1, <2>2, FileFacts
  <2>4. \A i, j \in 1 .. Len(file[mem]) : file[mem][i].msg.id = file[mem][j].msg.id => i = j
    BY <2>1, LinesDiffer
  <2>5. \A i \in 1 .. Len(store) : store[i].id \in deleted <=> store[i].id \in DeletedIn(file[mem])
    <3> SUFFICES ASSUME NEW i \in 1 .. Len(store)
                 PROVE  store[i].id \in deleted <=> store[i].id \in DeletedIn(file[mem])
      OBVIOUS
    <3>1. store[i] = file[mem][i].msg
      BY <2>2, <2>3 DEF MsgsOf
    <3> QED BY <2>1, <2>2, <2>3, <2>4, <3>1, AgreeReplays
  <2>6. Context(store, deleted) = Context(store, DeletedIn(file[mem]))
    BY <2>5, Zenon DEF Context
  <2> QED BY <2>2, <2>6
<1> HIDE DEF J
<1> QED BY <1>1, <1>2, <1>3, LedgerInvariant, PTL DEF Spec

=============================================================================
