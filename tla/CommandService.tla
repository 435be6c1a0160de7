--------------------------- MODULE CommandService ---------------------------
(***************************************************************************)
(* What the persistence API promises its single caller, the game thread:   *)
(* commands it accepts are answered in the order they were accepted, each  *)
(* exactly once, and at most MaxOutstanding of them are ever unanswered.   *)
(* There is no queue here and no worker: an outstanding command is just    *)
(* one that has not been answered.  CommandChannel shows how the bounded   *)
(* channel and the worker thread of game_persistence implement it.         *)
(***************************************************************************)
EXTENDS Naturals, Sequences

CONSTANTS
  Result,          \* the values a worker may answer with
  Waiting,         \* no answer yet
  Closed,          \* the answer of a service that has gone away
  MaxOutstanding   \* bound on the unanswered commands

VARIABLES
  answers,         \* answers[i]: answer of the i-th accepted command
  firstOpen,       \* the first command without an answer
  open             \* whether the service still takes commands

serviceVars == <<answers, firstOpen, open>>

Outstanding == Len(answers) + 1 - firstOpen

ServiceInit ==
  /\ answers = <<>>
  /\ firstOpen = 1
  /\ open = TRUE

Accept ==
  /\ open
  /\ Outstanding < MaxOutstanding
  /\ answers' = Append(answers, Waiting)
  /\ UNCHANGED <<firstOpen, open>>

Answer ==
  /\ open
  /\ firstOpen <= Len(answers)
  /\ \E r \in Result : answers' = [answers EXCEPT ![firstOpen] = r]
  /\ firstOpen' = firstOpen + 1
  /\ UNCHANGED open

\* The service goes away: whatever was outstanding is answered Closed.
Close ==
  /\ open
  /\ open' = FALSE
  /\ answers' = [i \in 1..Len(answers) |->
                   IF i < firstOpen THEN answers[i] ELSE Closed]
  /\ firstOpen' = Len(answers) + 1

ServiceNext == Accept \/ Answer \/ Close

ServiceSafety == ServiceInit /\ [][ServiceNext]_serviceVars

ServiceSpec == ServiceSafety /\ WF_serviceVars(Answer)
=============================================================================
