------------------------------ MODULE TaskLife ------------------------------
(***************************************************************************)
(* What the background task machinery promises of each command it runs:    *)
(* it is launched once, it finishes, and afterwards the model is told how  *)
(* it went, or the notification is dropped because nobody had room for it. *)
(***************************************************************************)
CONSTANT Tasks

VARIABLE stage

Stages == {"idle", "running", "finished", "told", "dropped"}

Init == stage = [t \in Tasks |-> "idle"]

Move(t, from, to) == stage[t] \in from /\ stage' = [stage EXCEPT ![t] = to]

Launch(t) == Move(t, {"idle"}, "running")
Finish(t) == Move(t, {"running"}, "finished")

\* One notification reports on all the tasks of a batch.
Report(B, to) ==
  /\ \A t \in B : stage[t] \in {"finished", "told", "dropped"}
  /\ stage' = [t \in Tasks |->
       IF t \in B /\ stage[t] # "told" THEN to ELSE stage[t]]

Next ==
  \/ \E t \in Tasks : Launch(t) \/ Finish(t)
  \/ \E B \in SUBSET Tasks : Report(B, "told") \/ Report(B, "dropped")

Spec == Init /\ [][Next]_stage

=============================================================================
