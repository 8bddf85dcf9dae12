---------------------------- MODULE TranscriptLog ----------------------------
(***************************************************************************)
(* What a session's transcript promises: messages are appended, become     *)
(* durable in that order, and a crash loses nothing but those that were    *)
(* not durable yet.                                                        *)
(***************************************************************************)
EXTENDS Naturals, Sequences

CONSTANTS Sessions, Messages

VARIABLES log, durable

Init ==
  /\ log = [s \in Sessions |-> <<>>]
  /\ durable = [s \in Sessions |-> 0]

\* Messages are appended to one session's log.
Record(s) ==
  /\ log' \in [Sessions -> Seq(Messages)]
  /\ \A r \in Sessions \ {s} : log'[r] = log[r]
  /\ Len(log[s]) <= Len(log'[s]) /\ SubSeq(log'[s], 1, Len(log[s])) = log[s]
  /\ UNCHANGED durable

Persist(s) ==
  /\ durable[s] < Len(log[s])
  /\ durable' = [durable EXCEPT ![s] = @ + 1]
  /\ UNCHANGED log

Crash ==
  /\ log' = [s \in Sessions |-> SubSeq(log[s], 1, durable[s])]
  /\ UNCHANGED durable

Next == Crash \/ \E s \in Sessions : Record(s) \/ Persist(s)

Spec == Init /\ [][Next]_<<log, durable>>

=============================================================================
