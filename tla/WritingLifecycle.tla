-------------------------- MODULE WritingLifecycle --------------------------
(***************************************************************************)
(* What a learner may rely on when a writing unit is evaluated, with the   *)
(* job queue, the workers, the leases and the sweeper left out: an answer  *)
(* is submitted, the evaluator decides once, the decision moves the unit,  *)
(* and a decided answer keeps its decision until the learner submits a     *)
(* newer version.                                                          *)
(*                                                                         *)
(* Legal unit transitions: _LEARNING_TRANSITIONS in session_state.py.      *)
(***************************************************************************)
EXTENDS Naturals

CONSTANTS
  NumUnits,     \* units of the session, numbered from 1
  MaxVersion    \* bound: submissions per unit

VARIABLES
  unit,      \* unit number -> unit status
  latest,    \* unit number -> number of its latest version, 0 when none
  decision   \* <<unit, version>> -> what the evaluator decided

vars == <<unit, latest, decision>>

Units == 1..NumUnits
Answers == Units \X (1..MaxVersion)

\* "awaited" is a submitted answer without a decision.  "scored" is the language
\* evaluation, "fallback" the deterministic result kept when the language stage
\* gave up, "rejected" an answer whose stored text fails its hash.
Decisions == {"none", "awaited", "scored", "fallback", "rejected"}

Init ==
  /\ unit = [u \in Units |-> "not_started"]
  /\ latest = [u \in Units |-> 0]
  /\ decision = [a \in Answers |-> "none"]

Submit(u) ==
  /\ unit[u] \in {"not_started", "draft", "rewrite_required"}
  /\ latest[u] < MaxVersion
  /\ latest' = [latest EXCEPT ![u] = @ + 1]
  /\ unit' = [unit EXCEPT ![u] = "evaluation_pending"]
  /\ decision' = [decision EXCEPT ![<<u, latest[u] + 1>>] = "awaited"]

\* Where a decision may send the unit it is about.
Target(d) ==
  CASE d = "scored" -> {"ready", "rewrite_required"}
    [] d = "fallback" -> {"ready"}
    [] d = "rejected" -> {"evaluation_failed"}
    [] OTHER -> {}

Decide(u, d, target) ==
  /\ latest[u] > 0
  /\ decision[<<u, latest[u]>>] = "awaited"
  /\ target \in Target(d)
  /\ decision' = [decision EXCEPT ![<<u, latest[u]>>] = d]
  /\ unit' = [unit EXCEPT ![u] = target]
  /\ UNCHANGED latest

Reopen(u) ==
  /\ unit[u] = "ready"
  /\ unit' = [unit EXCEPT ![u] = "draft"]
  /\ UNCHANGED <<latest, decision>>

Next ==
  \E u \in Units :
    \/ Submit(u)
    \/ \E d \in Decisions, target \in {"ready", "rewrite_required", "evaluation_failed"} :
         Decide(u, d, target)
    \/ Reopen(u)

Spec == Init /\ [][Next]_vars
=============================================================================
