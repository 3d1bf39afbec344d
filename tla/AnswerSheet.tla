---------------------------- MODULE AnswerSheet ----------------------------
(***************************************************************************)
(* What the mock engine promises about the answers of one attempt          *)
(* (docs/mock_engine/attempt_save_semantics.md, sections "Server           *)
(* idempotency" and "Source of truth invariant"): an answer is replaced    *)
(* only by one minted after it, and the sheet is graded once, as it        *)
(* stands, after which it never changes.                                   *)
(***************************************************************************)
EXTENDS Naturals

CONSTANTS
  Questions,   \* the questions of the attempt
  Answers,     \* what a question may be answered with, no answer included
  NotGraded    \* the grade of an attempt that is still in progress

VARIABLES
  sheet,       \* the answer stored for each question
  minted,      \* the client_seq it was stored under
  grade        \* the answers the score was computed from

sheetVars == <<sheet, minted, grade>>

Init ==
  /\ sheet \in [Questions -> Answers]
  /\ minted = [q \in Questions |-> 0]
  /\ grade = NotGraded

\* A save replaces what was minted before it.
Record(q) ==
  /\ grade = NotGraded
  /\ sheet' = [sheet EXCEPT ![q] = sheet'[q]]
  /\ minted' = [minted EXCEPT ![q] = minted'[q]]
  /\ minted'[q] > minted[q]
  /\ UNCHANGED grade

\* Submitting, by the learner or by the sweeper, grades the sheet as it stands.
Grade ==
  /\ grade = NotGraded
  /\ grade' = sheet
  /\ UNCHANGED <<sheet, minted>>

Next == Grade \/ \E q \in Questions : Record(q)

Spec == Init /\ [][Next]_sheetVars
=============================================================================
