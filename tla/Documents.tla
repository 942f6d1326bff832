----------------------------- MODULE Documents -----------------------------
(***************************************************************************)
(* What the extraction queue promises to the owner of a document, without  *)
(* jobs, runs, heartbeats or workers: a document waits, is extracted by    *)
(* one worker at a time, and is finished in one step or not at all.        *)
(*                                                                         *)
(* Each request for a document leaves one extraction owed.  Its matrix is  *)
(* replaced only by an extraction, and only while one is owed is it cut    *)
(* back, given up or made to wait again without a request.                 *)
(***************************************************************************)
EXTENDS Naturals, FiniteSets

CONSTANT Rfps      \* documents

VARIABLES
  state,    \* as the owner sees it
  working,  \* documents being extracted
  owed,     \* documents whose last request is unanswered
  matrix    \* what the owner sees of the requirements

vars == <<state, working, owed, matrix>>

Init ==
  /\ state = [d \in Rfps |-> "absent"]
  /\ working = {}
  /\ owed = {}
  /\ matrix = [d \in Rfps |-> "empty"]

\* While it is extracted, nobody else touches a document.
Free(d) == d \notin working

Submit(d) ==
  /\ state[d] = "absent"
  /\ state' = [state EXCEPT ![d] = "received"]
  /\ owed' = owed \cup {d}
  /\ UNCHANGED <<working, matrix>>

\* The same file again: what p shows is shown at once.
SubmitKnown(d, p) ==
  /\ state[d] = "absent" /\ state[p] = "ready"
  /\ state' = [state EXCEPT ![d] = "ready"]
  /\ matrix' = [matrix EXCEPT ![d] = matrix[p]]
  /\ UNCHANGED <<working, owed>>

Resubmit(d) ==
  /\ Free(d) /\ d \notin owed
  /\ state[d] \in {"ready", "failed", "expired"}
  /\ state' = [state EXCEPT ![d] = "received"]
  /\ owed' = owed \cup {d}
  /\ UNCHANGED <<working, matrix>>

Delete(d) ==
  /\ Free(d) /\ state[d] \notin {"absent", "deleted"}
  /\ state' = [state EXCEPT ![d] = "deleted"]
  /\ owed' = owed \ {d}
  /\ matrix' = [matrix EXCEPT ![d] = "empty"]
  /\ UNCHANGED working

Expire(S) ==
  /\ \A d \in S : Free(d) /\ state[d] = "failed"
  /\ state' = [d \in Rfps |-> IF d \in S THEN "expired" ELSE state[d]]
  /\ UNCHANGED <<working, owed, matrix>>

\* A surplus job of a document has it extracted once more.
Begin(d) ==
  /\ Free(d) /\ state[d] \in {"received", "ready", "failed", "expired"}
  /\ working' = working \cup {d}
  /\ UNCHANGED <<state, owed, matrix>>

\* An extraction chosen before the last request does not answer it.
Answer(d) == owed' \in {owed, owed \ {d}}

\* The new rows; of a document without text, the old ones stay.
Publish(d) ==
  /\ d \in working
  /\ working' = working \ {d}
  /\ state' = [state EXCEPT ![d] = "ready"]
  /\ matrix' \in {matrix, [matrix EXCEPT ![d] = "complete"]}
  /\ Answer(d)

FailOne(d) ==
  /\ d \in working
  /\ working' = working \ {d}
  /\ state' = [state EXCEPT ![d] = "failed"]
  /\ Answer(d)
  /\ UNCHANGED matrix

\* A crash or an error: nothing of it is seen.
BreakOff(d) ==
  /\ d \in working
  /\ working' = working \ {d}
  /\ UNCHANGED <<state, owed, matrix>>

\* A run that died is put back, and its rows cut back to the verified ones, or
\* given up.
TryAgain(d) ==
  /\ Free(d) /\ d \in owed
  /\ state' = [state EXCEPT ![d] = "received"]
  /\ matrix' = [matrix EXCEPT ![d] = IF @ = "complete" THEN "pruned" ELSE @]
  /\ UNCHANGED <<working, owed>>

GiveUp(d) ==
  /\ Free(d) /\ d \in owed
  /\ \/ state' = [state EXCEPT ![d] = "failed"]
     \/ state[d] = "expired" /\ state' = state
  /\ owed' = owed \ {d}
  /\ UNCHANGED <<working, matrix>>

Next ==
  \/ \E d \in Rfps :
       \/ Submit(d) \/ Resubmit(d) \/ Delete(d)
       \/ Begin(d) \/ Publish(d) \/ FailOne(d) \/ BreakOff(d)
       \/ TryAgain(d) \/ GiveUp(d)
       \/ \E p \in Rfps : SubmitKnown(d, p)
  \/ \E S \in SUBSET Rfps : Expire(S)

Spec == Init /\ [][Next]_vars
=============================================================================
