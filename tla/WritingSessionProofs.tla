------------------------ MODULE WritingSessionProofs ------------------------
(***************************************************************************)
(* Proofs about WritingSession, for every number of units, versions, job   *)
(* generations, attempts, passes and API threads.                          *)
(***************************************************************************)
EXTENDS WritingInvariant, TLAPS

-----------------------------------------------------------------------------
(* Evaluations and jobs are nested pairs.                                    *)

\* An evaluation is its unit and its version.
LEMMA EvalParts ==
  \A e \in Evals : e = <<e[1], e[2]>> /\ e[1] \in Units /\ e[2] \in Versions
BY DEF Evals

\* A job is its evaluation and its generation.
LEMMA JobParts ==
  \A j \in Jobs : /\ j = <<EvalOf(j), j[2]>> /\ EvalOf(j) \in Evals /\ j[2] \in Gens
                  /\ EvalOf(j)[1] \in Units
BY EvalParts DEF Jobs, EvalOf, Gens

\* An answer of a unit and a generation of an answer are what they should be.
LEMMA Pairs ==
  /\ \A u \in Units, v \in Versions : <<u, v>> \in Evals
  /\ \A e \in Evals, g \in Gens : <<e, g>> \in Jobs /\ EvalOf(<<e, g>>) = e
BY DEF Evals, Jobs, EvalOf, Gens

\* The first generation exists.
LEMMA Ones == 1 \in Gens /\ 1 \in Units /\ 1 \in Versions
BY UnitsAssumption, BoundsAssumption DEF Gens, Units, Versions

\* An idle pass and an idle request are well typed.
LEMMA Idles == NoPass \in Pass /\ NoRequest \in Request /\ NoCheck \in [set : [Units -> 0..MaxVersion], passed : BOOLEAN]
BY Ones, Pairs, UnitsAssumption, BoundsAssumption, MaxAttemptsAssumption
DEF NoPass, Pass, NoRequest, Request, NoCheck, FirstJob, UnitStatuses, Units, Gens

-----------------------------------------------------------------------------
(* Type correctness.                                                         *)

\* The rollup writes a session status and an outcome.
LEMMA RollupType ==
  ASSUME outcome \in Outcomes, Rollup
  PROVE  status' \in SessionStatuses /\ outcome' \in Outcomes
<1>1. status' \in SessionStatuses
  BY DEF Rollup, SessionStatus, SessionStatuses
<1>2. Aggregate' \in Outcomes
  BY DEF Aggregate, Outcomes
<1>3. outcome' \in Outcomes
  BY <1>2 DEF Rollup, Promote
<1> QED BY <1>1, <1>3

\* Releasing a job writes its status, its token and its lease.
LEMMA ReleaseType ==
  ASSUME TypeOK, NEW j \in Jobs, NEW s \in JobStatuses, Release(j, s)
  PROVE  /\ job' \in [Jobs -> JobStatuses]
         /\ token' \in [Jobs -> 0..MaxAttempts]
         /\ lease' \in [Jobs -> {"free", "held", "expired"}]
BY MaxAttemptsAssumption DEF TypeOK, Release

\* Moving a unit writes a unit status.
LEMMA MoveUnitType ==
  ASSUME TypeOK, NEW e \in Evals, NEW seen, NEW target \in UnitStatuses,
         MoveUnit(e, seen, target)
  PROVE  unit' \in [Units -> UnitStatuses]
BY EvalParts DEF TypeOK, MoveUnit

\* Ending a job for good keeps every type but the pass's, which the caller sets.
LEMMA TerminalizeType ==
  ASSUME TypeOK, NEW j \in Jobs, Terminalize(j), worker' \in [Workers -> Pass]
  PROVE  TypeOK'
<1> DEFINE e == EvalOf(j)
<1>1. e \in Evals
  BY JobParts
<1>2. language' \in [Evals -> LanguageStatuses] /\ overall' \in [Evals -> OverallStatuses]
  BY <1>1 DEF TypeOK, Terminalize, LanguageStatuses, OverallStatuses
<1>3. /\ job' \in [Jobs -> JobStatuses]
      /\ token' \in [Jobs -> 0..MaxAttempts]
      /\ lease' \in [Jobs -> {"free", "held", "expired"}]
  BY ReleaseType DEF Terminalize, JobStatuses
<1>4. unit' \in [Units -> UnitStatuses]
  BY <1>1, MoveUnitType DEF Terminalize, UnitStatuses
<1>5. status' \in SessionStatuses /\ outcome' \in Outcomes
  BY RollupType DEF Terminalize, TypeOK
<1> QED BY <1>2, <1>3, <1>4, <1>5 DEF TypeOK, Terminalize

\* Putting a job back keeps every type but those of the pass and the backoff.
LEMMA RequeueType ==
  ASSUME TypeOK, NEW j \in Jobs, Requeue(j), worker' \in [Workers -> Pass],
         delayed' \subseteq Jobs
  PROVE  TypeOK'
<1> DEFINE e == EvalOf(j)
<1>1. e \in Evals
  BY JobParts
<1>2. language' \in [Evals -> LanguageStatuses]
  BY <1>1 DEF TypeOK, Requeue, LanguageStatuses
<1>3. /\ job' \in [Jobs -> JobStatuses]
      /\ token' \in [Jobs -> 0..MaxAttempts]
      /\ lease' \in [Jobs -> {"free", "held", "expired"}]
  BY ReleaseType DEF Requeue, JobStatuses
<1> QED BY <1>2, <1>3 DEF TypeOK, Requeue, unitVars, sessionVars

\* A pass that moves to another phase, or ends, is well typed.
LEMMA PassType ==
  ASSUME TypeOK, NEW w \in Workers,
         \/ worker' = [worker EXCEPT ![w] = NoPass]
         \/ \E p \in {"evaluating", "damaged", "completing", "rejecting", "failing"} :
              worker' = [worker EXCEPT ![w].phase = p]
         \/ \E p \in {"completing", "rejecting"}, s \in UnitStatuses :
              worker' = [worker EXCEPT ![w].phase = p, ![w].seen = s]
  PROVE  worker' \in [Workers -> Pass]
<1>1. worker \in [Workers -> Pass] /\ worker[w] \in Pass
  BY DEF TypeOK
<1>2. CASE worker' = [worker EXCEPT ![w] = NoPass]
  BY <1>1, <1>2, Idles
<1>3. ASSUME NEW p \in {"evaluating", "damaged", "completing", "rejecting", "failing"},
             worker' = [worker EXCEPT ![w].phase = p]
      PROVE  worker' \in [Workers -> Pass]
  <2>1. [worker[w] EXCEPT !.phase = p] \in Pass
    BY <1>1 DEF Pass
  <2> QED BY <1>1, <1>3, <2>1
<1>4. ASSUME NEW p \in {"completing", "rejecting"}, NEW s \in UnitStatuses,
             worker' = [worker EXCEPT ![w].phase = p, ![w].seen = s]
      PROVE  worker' \in [Workers -> Pass]
  <2>1. [worker[w] EXCEPT !.phase = p, !.seen = s] \in Pass
    BY <1>1 DEF Pass
  <2> QED BY <1>1, <1>4, <2>1
<1> QED BY <1>2, <1>3, <1>4

\* The learner's actions keep the types.
LEMMA LearnerType ==
  ASSUME TypeOK, LearnerNext
  PROVE  TypeOK'
<1> USE Idles, UnitsAssumption, BoundsAssumption
<1>1. ASSUME NEW c \in Clients, NEW u \in Units, NEW x \in Versions, NEW t \in SUBSET Words,
             Submit(c, u, x, t)
      PROVE  TypeOK'
  <2> DEFINE e == <<u, x>>
  <2>1. e \in Evals /\ FirstJob(e) \in Jobs
    BY Pairs, Ones DEF FirstJob
  <2>2. latest' \in [Units -> 0..MaxVersion] /\ unit' \in [Units -> UnitStatuses]
    BY <1>1 DEF TypeOK, Submit, UnitStatuses, Versions
  <2>3. /\ language' \in [Evals -> LanguageStatuses]
        /\ overall' \in [Evals -> OverallStatuses]
        /\ text' \in [Evals -> SUBSET Words]
    BY <1>1, <2>1 DEF TypeOK, Submit, LanguageStatuses, OverallStatuses
  <2>4. job' \in [Jobs -> JobStatuses]
    BY <1>1, <2>1 DEF TypeOK, Submit, JobStatuses
  <2>5. request' \in [Clients -> Request]
    BY <1>1 DEF TypeOK, Submit, Request
  <2>6. status' \in SessionStatuses /\ outcome' \in Outcomes
    BY <1>1, RollupType DEF TypeOK, Submit
  <2> QED BY <1>1, <2>2, <2>3, <2>4, <2>5, <2>6 DEF TypeOK, Submit
<1>2. ASSUME NEW c \in Clients, ReadLatestVersion(c)
      PROVE  TypeOK'
  <2> DEFINE r == request[c]
             n == r.next
  <2>1. r \in Request /\ n \in Units /\ latest[n] \in 0..MaxVersion
    BY <1>2 DEF TypeOK, ReadLatestVersion
  <2>2. n + 1 \in 1..(NumUnits + 1)
    BY <2>1 DEF Units
  <2>3. [r.set EXCEPT ![n] = latest[n]] \in [Units -> 0..MaxVersion]
    BY <2>1 DEF Request
  <2>4. [r EXCEPT !.set[n] = latest[n], !.next = n + 1] \in Request
    BY <2>1, <2>2, <2>3 DEF Request
  <2>5. request' = [request EXCEPT ![c] = [r EXCEPT !.set[n] = latest[n], !.next = n + 1]]
    BY <1>2 DEF ReadLatestVersion, TypeOK
  <2>6. request' \in [Clients -> Request]
    BY <2>4, <2>5 DEF TypeOK
  <2> QED BY <1>2, <2>6 DEF TypeOK, ReadLatestVersion, unitVars, evalVars, jobVars, sessionVars
<1>3. ASSUME NEW c \in Clients, InsertCheck(c)
      PROVE  TypeOK'
  <2>1. request' \in [Clients -> Request]
    BY <1>3 DEF TypeOK, InsertCheck, Request
  <2>2. check' \in [set : [Units -> 0..MaxVersion], passed : BOOLEAN]
    BY <1>3 DEF TypeOK, InsertCheck, Request, Covered
  <2> QED BY <1>3, <2>1, <2>2 DEF TypeOK, InsertCheck, unitVars, evalVars, jobVars, sessionVars
<1>4. ASSUME NEW c \in Clients, Finalize(c)
      PROVE  TypeOK'
  <2>1. request' \in [Clients -> Request]
    BY <1>4 DEF TypeOK, Finalize
  <2>2. status' \in SessionStatuses /\ outcome' \in Outcomes
    BY <1>4, RollupType DEF TypeOK, Finalize
  <2> QED BY <1>4, <2>1, <2>2 DEF TypeOK, Finalize, unitVars, evalVars, jobVars
<1>5. ASSUME NEW c \in Clients, RefreshLost(c)
      PROVE  TypeOK'
  BY <1>5 DEF TypeOK, RefreshLost, unitVars, evalVars, jobVars, sessionVars
<1>6. ASSUME NEW u \in Units, Reopen(u)
      PROVE  TypeOK'
  <2>1. unit' \in [Units -> UnitStatuses]
    BY <1>6 DEF TypeOK, Reopen, UnitStatuses
  <2>2. status' \in SessionStatuses /\ outcome' \in Outcomes
    BY <1>6, RollupType DEF TypeOK, Reopen
  <2> QED BY <1>6, <2>1, <2>2 DEF TypeOK, Reopen, evalVars, jobVars
<1> QED BY <1>1, <1>2, <1>3, <1>4, <1>5, <1>6 DEF LearnerNext, Refresh

\* The actions of an evaluator pass keep the types.
LEMMA PassStepType ==
  ASSUME TypeOK, NEW w \in Workers, PassStep(w)
  PROVE  TypeOK'
<1> DEFINE j == worker[w].job
           e == EvalOf(j)
<1> USE DEF unitVars, evalVars, jobVars, sessionVars
<1>1. worker[w] \in Pass /\ j \in Jobs /\ e \in Evals
  BY JobParts DEF TypeOK, Pass
<1>2. unit[e[1]] \in UnitStatuses
  BY <1>1, JobParts DEF TypeOK
<1>3. ASSUME NEW k \in Jobs, Claim(w, k)
      PROVE  TypeOK'
  <2>1. EvalOf(k) \in Evals
    BY JobParts
  <2>2. attempts[k] + 1 \in 0..MaxAttempts
    BY <1>3, MaxAttemptsAssumption DEF Claim, TypeOK
  <2>3. /\ attempts' \in [Jobs -> 0..MaxAttempts]
        /\ token' \in [Jobs -> 0..MaxAttempts]
        /\ job' \in [Jobs -> JobStatuses]
        /\ lease' \in [Jobs -> {"free", "held", "expired"}]
    BY <1>3, <2>2 DEF Claim, TypeOK, JobStatuses
  <2>4. language' \in [Evals -> LanguageStatuses]
    BY <1>3, <2>1 DEF Claim, TypeOK, LanguageStatuses
  <2> DEFINE p == IF EvalOf(k) \in corrupt THEN "damaged" ELSE "evaluating"
             q == [NoPass EXCEPT !.phase = p, !.job = k, !.token = attempts[k] + 1]
  <2>5. q \in Pass
    BY <2>2, Idles DEF Pass
  <2>6. worker' = [worker EXCEPT ![w] = q]
    BY <1>3 DEF Claim
  <2>7. worker' \in [Workers -> Pass]
    BY <2>5, <2>6 DEF TypeOK
  <2> QED BY <1>3, <2>3, <2>4, <2>7 DEF Claim, TypeOK
<1>4. ASSUME Replied(w)
      PROVE  worker' \in [Workers -> Pass]
  BY <1>4, PassType DEF Replied
<1>5. CASE EvaluatorFails(w)
  <2>1. worker' \in [Workers -> Pass]
    BY <1>5, PassType DEF EvaluatorFails, Phase
  <2> QED BY <1>5, <2>1 DEF EvaluatorFails, TypeOK
<1>6. CASE BeginComplete(w)
  <2>1. worker' \in [Workers -> Pass]
    BY <1>2, <1>6, PassType DEF BeginComplete
  <2> QED BY <1>6, <2>1 DEF BeginComplete, TypeOK
<1>7. CASE Replay(w)
  BY <1>1, <1>4, <1>7 DEF Replay, TypeOK, JobStatuses
<1>8. ASSUME NEW b \in BOOLEAN, NEW v \in BOOLEAN, Complete(w, b, v)
      PROVE  TypeOK'
  <2>1. /\ mustFix' \subseteq Evals /\ outbox' \subseteq Evals
        /\ language' \in [Evals -> LanguageStatuses]
        /\ overall' \in [Evals -> OverallStatuses]
    BY <1>1, <1>8 DEF Complete, TypeOK, LanguageStatuses, OverallStatuses
  <2>2. unit' \in [Units -> UnitStatuses]
    BY <1>1, <1>8, MoveUnitType DEF Complete, CompletionTarget, UnitStatuses
  <2>3. /\ job' \in [Jobs -> JobStatuses]
        /\ token' \in [Jobs -> 0..MaxAttempts]
        /\ lease' \in [Jobs -> {"free", "held", "expired"}]
    BY <1>1, <1>8, ReleaseType DEF Complete, JobStatuses
  <2>4. status' \in SessionStatuses /\ outcome' \in Outcomes
    BY <1>8, RollupType DEF Complete, TypeOK
  <2> QED BY <1>4, <1>8, <2>1, <2>2, <2>3, <2>4 DEF Complete, TypeOK
<1>9. CASE CompleteRaises(w)
  <2>1. worker' \in [Workers -> Pass]
    BY <1>9, PassType DEF CompleteRaises, Phase
  <2> QED BY <1>9, <2>1 DEF CompleteRaises, TypeOK
<1>10. CASE Fail(w)
  <2>1. worker' \in [Workers -> Pass]
    BY <1>10, PassType DEF Fail
  <2>2. CASE Requeue(j) /\ delayed' = delayed \cup {j}
    BY <1>1, <2>1, <2>2, RequeueType DEF TypeOK
  <2>3. CASE Terminalize(j)
    BY <1>1, <2>1, <2>3, TerminalizeType
  <2> QED BY <1>10, <2>2, <2>3 DEF Fail
<1>11. CASE BeginReject(w)
  <2>1. worker' \in [Workers -> Pass]
    BY <1>2, <1>11, PassType DEF BeginReject
  <2> QED BY <1>11, <2>1 DEF BeginReject, TypeOK
<1>12. CASE Reject(w)
  <2>1. /\ language' \in [Evals -> LanguageStatuses]
        /\ overall' \in [Evals -> OverallStatuses]
    BY <1>1, <1>12 DEF Reject, TypeOK, LanguageStatuses, OverallStatuses
  <2>2. unit' \in [Units -> UnitStatuses]
    BY <1>1, <1>12, MoveUnitType DEF Reject, UnitStatuses
  <2>3. /\ job' \in [Jobs -> JobStatuses]
        /\ token' \in [Jobs -> 0..MaxAttempts]
        /\ lease' \in [Jobs -> {"free", "held", "expired"}]
    BY <1>1, <1>12, ReleaseType DEF Reject, JobStatuses
  <2>4. status' \in SessionStatuses /\ outcome' \in Outcomes
    BY <1>12, RollupType DEF Reject, TypeOK
  <2>5. worker' \in [Workers -> Pass]
    BY <1>12, PassType DEF Reject
  <2> QED BY <1>12, <2>1, <2>2, <2>3, <2>4, <2>5 DEF Reject, TypeOK
<1>13. CASE Abandon(w)
  <2>1. worker' \in [Workers -> Pass]
    BY <1>13, PassType DEF Abandon
  <2> QED BY <1>13, <2>1 DEF Abandon, TypeOK
<1> QED
  BY <1>3, <1>5, <1>6, <1>7, <1>8, <1>9, <1>10, <1>11, <1>12, <1>13 DEF PassStep

\* The clock, the sweeper, the operator and the storage keep the types.
LEMMA QueueType ==
  ASSUME TypeOK, QueueNext
  PROVE  TypeOK'
<1> USE DEF unitVars, evalVars, jobVars, sessionVars
<1>1. ASSUME NEW j \in Jobs, LeaseExpires(j)
      PROVE  TypeOK'
  BY <1>1 DEF LeaseExpires, TypeOK
<1>2. ASSUME NEW j \in Jobs, BackoffEnds(j)
      PROVE  TypeOK'
  BY <1>2 DEF BackoffEnds, TypeOK
<1>3. ASSUME NEW j \in Jobs, Sweep(j)
      PROVE  TypeOK'
  <2>1. worker' \in [Workers -> Pass]
    BY <1>3 DEF Sweep, TypeOK
  <2>2. CASE Requeue(j) /\ UNCHANGED delayed
    BY <2>1, <2>2, RequeueType DEF TypeOK
  <2>3. CASE Terminalize(j)
    BY <2>1, <2>3, TerminalizeType
  <2> QED BY <1>3, <2>2, <2>3 DEF Sweep
<1>4. ASSUME NEW e \in Evals, NEW g \in 1..MaxGen, Recover(e, g)
      PROVE  TypeOK'
  <2>1. <<e, g + 1>> \in Jobs
    BY <1>4, Pairs DEF Recover, Gens
  <2>2. job' \in [Jobs -> JobStatuses]
    BY <1>4, <2>1 DEF Recover, TypeOK, JobStatuses
  <2>3. language' \in [Evals -> LanguageStatuses]
    BY <1>4 DEF Recover, TypeOK, LanguageStatuses
  <2> QED BY <1>4, <2>2, <2>3 DEF Recover, TypeOK
<1>5. ASSUME NEW e \in Evals, Corrupt(e)
      PROVE  TypeOK'
  BY <1>5 DEF Corrupt, TypeOK
<1> QED BY <1>1, <1>2, <1>3, <1>4, <1>5 DEF QueueNext

\* The initial state is well typed.
LEMMA InitType == Init => TypeOK
<1> SUFFICES ASSUME Init PROVE TypeOK
  OBVIOUS
<1> USE UnitsAssumption, BoundsAssumption, MaxAttemptsAssumption
<1>1. /\ unit \in [Units -> UnitStatuses] /\ latest \in [Units -> 0..MaxVersion]
      /\ text \in [Evals -> SUBSET Words] /\ corrupt \subseteq Evals
      /\ language \in [Evals -> LanguageStatuses] /\ overall \in [Evals -> OverallStatuses]
  BY DEF Init, UnitStatuses, LanguageStatuses, OverallStatuses
<1>2. /\ job \in [Jobs -> JobStatuses] /\ attempts \in [Jobs -> 0..MaxAttempts]
      /\ token \in [Jobs -> 0..MaxAttempts] /\ lease \in [Jobs -> {"free", "held", "expired"}]
  BY DEF Init, JobStatuses
<1>3. /\ worker \in [Workers -> Pass] /\ request \in [Clients -> Request]
      /\ check \in [set : [Units -> 0..MaxVersion], passed : BOOLEAN]
  BY Idles DEF Init
<1> QED BY <1>1, <1>2, <1>3 DEF Init, TypeOK, SessionStatuses, Outcomes

\* Every step keeps the types.
LEMMA NextType ==
  ASSUME TypeOK, [Next]_vars
  PROVE  TypeOK'
<1>1. CASE LearnerNext
  BY <1>1, LearnerType
<1>2. ASSUME NEW w \in Workers, PassStep(w)
      PROVE  TypeOK'
  BY <1>2, PassStepType
<1>3. CASE QueueNext
  BY <1>3, QueueType
<1>4. CASE UNCHANGED vars
  BY <1>4 DEF vars, unitVars, evalVars, jobVars, sessionVars, TypeOK
<1> QED BY <1>1, <1>2, <1>3, <1>4 DEF Next

\* Every reachable state of the session, its queue and its passes is well typed:
\* no claim exceeds max_attempts and no status leaves its CHECK constraint.
THEOREM TypeCorrect == Spec => []TypeOK
BY InitType, NextType, PTL DEF Spec

=============================================================================
