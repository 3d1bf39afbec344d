------------------------- MODULE WritingActionProofs ------------------------
(***************************************************************************)
(* What a step of WritingSession may never do, that it implements          *)
(* WritingLifecycle, and that the session rollup tells the truth of the    *)
(* units, for every value of the constants.                                *)
(***************************************************************************)
EXTENDS WritingSafetyProofs

\* The verdict of every answer but e stays, and e was not scored before.
Decides(e) ==
  /\ overall[e] # "completed"
  /\ \A d \in Evals : d # e => overall'[d] = overall[d] /\ (d \in mustFix' <=> d \in mustFix)

\* A transaction that decides the answer of a running job leaves the scores alone.
LEMMA DecidesJob ==
  ASSUME IInv, NEW j \in Jobs, job[j] = "running", NEW o,
         overall' = [overall EXCEPT ![EvalOf(j)] = o],
         mustFix' \subseteq mustFix \cup {EvalOf(j)}, mustFix \subseteq mustFix'
  PROVE  Decides(EvalOf(j))
<1> DEFINE e == EvalOf(j)
<1>1. overall[e] # "completed"
  BY ActiveJob DEF IInv, Active
<1>2. \A d \in Evals : d # e => overall'[d] = overall[d] /\ (d \in mustFix' <=> d \in mustFix)
  BY DEF IInv, TypeOK
<1> QED BY <1>1, <1>2 DEF Decides

\* Every step leaves all verdicts alone, or decides one answer that had no score.
LEMMA VerdictSteps ==
  ASSUME IInv, Next
  PROVE  UNCHANGED <<overall, mustFix>> \/ \E e \in Evals : Decides(e)
<1> USE DEF IInv
<1>1. ASSUME NEW j \in Jobs, job[j] = "running", Terminalize(j)
      PROVE  \E e \in Evals : Decides(e)
  BY <1>1, JobParts, DecidesJob DEF Terminalize
<1>2. ASSUME NEW c \in Clients, NEW u \in Units, NEW x \in Versions, NEW t \in SUBSET Words,
             Submit(c, u, x, t)
      PROVE  \E e \in Evals : Decides(e)
  <2> DEFINE e == <<u, x>>
  <2>1. e \in Evals /\ e[1] = u /\ e[2] = x
    BY Pairs
  <2>2. x > latest[u]
    BY <1>2 DEF Submit, TypeOK
  <2>3. overall[e] = "none"
    BY <2>1, <2>2 DEF AnswerInv, EnvelopesExist
  <2>4. \A d \in Evals : d # e => overall'[d] = overall[d]
    BY <1>2, <2>1 DEF Submit, TypeOK
  <2>5. UNCHANGED mustFix
    BY <1>2 DEF Submit
  <2> QED BY <2>1, <2>3, <2>4, <2>5 DEF Decides
<1>3. ASSUME NEW c \in Clients, Refresh(c) \/ RefreshLost(c)
      PROVE  UNCHANGED <<overall, mustFix>>
  BY <1>3 DEF Refresh, RefreshLost, ReadLatestVersion, InsertCheck, Finalize, evalVars
<1>4. ASSUME NEW u \in Units, Reopen(u)
      PROVE  UNCHANGED <<overall, mustFix>>
  BY <1>4 DEF Reopen, evalVars
<1>5. ASSUME NEW w \in Workers, PassStep(w)
      PROVE  UNCHANGED <<overall, mustFix>> \/ \E e \in Evals : Decides(e)
  <2> DEFINE j == worker[w].job
  <2>1. j \in Jobs /\ EvalOf(j) \in Evals
    BY JobParts DEF TypeOK, Pass
  <2>2. ASSUME NEW k \in Jobs, Claim(w, k)
        PROVE  UNCHANGED <<overall, mustFix>>
    BY <2>2 DEF Claim
  <2>3. CASE \/ EvaluatorFails(w) \/ BeginComplete(w) \/ CompleteRaises(w)
             \/ BeginReject(w) \/ Abandon(w) \/ Replay(w)
    BY <2>3 DEF EvaluatorFails, BeginComplete, CompleteRaises, BeginReject, Abandon, Replay, evalVars
  <2>4. ASSUME NEW b \in BOOLEAN, NEW v \in BOOLEAN, Complete(w, b, v)
        PROVE  \E e \in Evals : Decides(e)
    <3>1. job[j] = "running"
      BY <2>4 DEF Complete, Owns
    <3>2. /\ overall' = [overall EXCEPT ![EvalOf(j)] = "completed"]
          /\ mustFix' \subseteq mustFix \cup {EvalOf(j)} /\ mustFix \subseteq mustFix'
      BY <2>4 DEF Complete
    <3> HIDE DEF j
    <3> QED BY <2>1, <3>1, <3>2, DecidesJob
  <2>5. CASE Fail(w)
    <3>1. CASE Requeue(j)
      BY <3>1 DEF Requeue
    <3>2. CASE Terminalize(j)
      BY <1>1, <2>1, <2>5, <3>2 DEF Fail, Owns
    <3> QED BY <2>5, <3>1, <3>2 DEF Fail
  <2>6. CASE Reject(w)
    <3>1. job[j] = "running"
      BY <2>6 DEF Reject, Owns
    <3>2. overall' = [overall EXCEPT ![EvalOf(j)] = "failed"] /\ UNCHANGED mustFix
      BY <2>6 DEF Reject
    <3> HIDE DEF j
    <3> QED BY <2>1, <3>1, <3>2, DecidesJob
  <2> QED BY <1>5, <2>2, <2>3, <2>4, <2>5, <2>6 DEF PassStep
<1>6. CASE QueueNext
  <2>1. ASSUME NEW j \in Jobs, LeaseExpires(j) \/ BackoffEnds(j)
        PROVE  UNCHANGED <<overall, mustFix>>
    BY <2>1 DEF LeaseExpires, BackoffEnds, evalVars
  <2>2. ASSUME NEW j \in Jobs, Sweep(j)
        PROVE  UNCHANGED <<overall, mustFix>> \/ \E e \in Evals : Decides(e)
    BY <1>1, <2>2 DEF Sweep, Stale, Requeue
  <2>3. ASSUME NEW e \in Evals, NEW g \in 1..MaxGen, Recover(e, g)
        PROVE  UNCHANGED <<overall, mustFix>>
    BY <2>3 DEF Recover
  <2>4. ASSUME NEW e \in Evals, Corrupt(e)
        PROVE  UNCHANGED <<overall, mustFix>>
    BY <2>4 DEF Corrupt, evalVars
  <2> QED BY <1>6, <2>1, <2>2, <2>3, <2>4 DEF QueueNext
<1> QED BY <1>2, <1>3, <1>4, <1>5, <1>6 DEF Next, LearnerNext

\* A written score survives every retry, sweep, recovery and late worker.
THEOREM ScoreIsFinalHolds == Spec => ScoreIsFinal
<1>1. ASSUME IInv, IInv', Next
      PROVE  \A e \in Evals : overall[e] = "completed" =>
               /\ overall'[e] = "completed" /\ language'[e] = "completed"
               /\ (e \in mustFix) = (e \in mustFix')
  <2> SUFFICES ASSUME NEW e \in Evals, overall[e] = "completed"
               PROVE  /\ overall'[e] = "completed" /\ language'[e] = "completed"
                      /\ (e \in mustFix) = (e \in mustFix')
    OBVIOUS
  <2>1. overall'[e] = "completed" /\ (e \in mustFix <=> e \in mustFix')
    BY <1>1, VerdictSteps DEF Decides
  <2>2. language'[e] = "completed"
    BY <1>1, <2>1 DEF IInv, AnswerInv, ScoredIsDone
  <2> QED BY <2>1, <2>2
<1>2. IInv /\ IInv' /\ [Next]_vars =>
        [\A e \in Evals : overall[e] = "completed" =>
           /\ overall'[e] = "completed" /\ language'[e] = "completed"
           /\ (e \in mustFix) = (e \in mustFix')]_vars
  BY <1>1
<1> QED BY <1>2, Invariant, PTL DEF Spec, ScoreIsFinal

\* A pass that lost its claim changes no row, whatever call it makes next.
THEOREM FencedWorkerIsInertHolds == Spec => FencedWorkerIsInert
<1> DEFINE Inert == \A w \in Workers :
             worker[w].phase # "idle" /\ LostClaim(w) /\ worker'[w] # worker[w] =>
               UNCHANGED <<unitVars, evalVars, jobVars, sessionVars>>
<1>1. ASSUME IInv, Next PROVE Inert
  <2> SUFFICES ASSUME NEW w \in Workers, worker[w].phase # "idle", LostClaim(w),
                      worker'[w] # worker[w]
               PROVE  UNCHANGED <<unitVars, evalVars, jobVars, sessionVars>>
    OBVIOUS
  <2>1. ~Owns(w)
    BY <1>1 DEF IInv, ClaimInv, TokensCurrent, LostClaim, Owns, TypeOK, Pass
  <2>2. ~LearnerNext
    BY DEF LearnerNext, Submit, Refresh, ReadLatestVersion, InsertCheck, Finalize, RefreshLost,
           Reopen
  <2>3. ~QueueNext
    BY DEF QueueNext, LeaseExpires, BackoffEnds, Sweep, Recover, Corrupt
  <2>4. ASSUME NEW v \in Workers, v # w, PassStep(v)
        PROVE  FALSE
    <3>1. worker \in [Workers -> Pass]
      BY <1>1 DEF IInv, TypeOK
    <3>2. \/ worker'[w] = worker[w]
      BY <3>1, <2>4 DEF PassStep, Claim, EvaluatorFails, BeginComplete, Replay, Complete,
         CompleteRaises, Fail, BeginReject, Reject, Abandon, Phase, Replied
    <3> QED BY <3>2
  <2>5. PassStep(w)
    BY <1>1, <2>2, <2>3, <2>4 DEF Next
  <2> QED
    BY <2>1, <2>5 DEF PassStep, Claim, EvaluatorFails, BeginComplete, Replay, Complete,
       CompleteRaises, Fail, BeginReject, Reject, Abandon
<1>2. IInv /\ [Next]_vars => [Inert]_vars
  BY <1>1
<1> QED BY <1>2, Invariant, PTL DEF Spec, FencedWorkerIsInert
-----------------------------------------------------------------------------
(* The refinement.                                                           *)

\* No stored answer is corrupt, so none was rejected.
NoRejection == corrupt = {} /\ \A e \in Evals : overall[e] # "failed"

\* A submission or a verdict on one answer is a decision on that answer.
LEMMA DecisionMoves ==
  ASSUME NEW e \in Evals, NEW o, TypeOK, overall' = [overall EXCEPT ![e] = o]
  PROVE  decision' = [decision EXCEPT ![e] = DecisionOf(o)]
<1>1. overall'[e] = o /\ \A d \in Evals : d # e => overall'[d] = overall[d]
  BY DEF TypeOK
<1>2. decision' = [d \in Evals |-> DecisionOf(overall'[d])]
  BY DEF decision, DecisionOf
<1>3. \A d \in Evals : DecisionOf(overall'[d]) = [decision EXCEPT ![e] = DecisionOf(o)][d]
  BY <1>1 DEF decision
<1>4. [decision EXCEPT ![e] = DecisionOf(o)] =
        [d \in Evals |-> [decision EXCEPT ![e] = DecisionOf(o)][d]]
  BY DEF decision
<1> QED BY <1>2, <1>3, <1>4

\* A verdict decides an awaited answer, or repeats a fallback that stands already.
LEMMA VerdictDecides ==
  ASSUME IInv, NoRejection, NEW j \in Jobs, job[j] = "running",
         NEW o \in {"completed", "terminal_partial"}, NEW seen,
         NEW target \in {"ready", "rewrite_required"}, UNCHANGED latest,
         LET e == EvalOf(j)
         IN /\ overall' = [overall EXCEPT ![e] = o]
            /\ MoveUnit(e, seen, target)
            /\ IF overall[e] = "partial" THEN seen = "evaluation_pending"
               ELSE o = "terminal_partial" /\ seen = unit[e[1]]
            /\ target = "rewrite_required" => o = "completed"
  PROVE  [Lifecycle!Next]_<<unit, latest, decision>>
<1> DEFINE e == EvalOf(j)
           u == e[1]
<1> USE DEF IInv
<1>1. e \in Evals /\ u \in Units /\ e = <<u, e[2]>>
  BY JobParts, EvalParts
<1>2. decision' = [decision EXCEPT ![e] = DecisionOf(o)]
  BY <1>1, DecisionMoves
<1>3. decision[e] = DecisionOf(overall[e])
  BY <1>1 DEF decision
<1>4. CASE overall[e] = "partial"
  <2>1. IsCurrent(e) /\ unit[u] = "evaluation_pending" /\ e = <<u, latest[u]>> /\ latest[u] > 0
    <3>1. IsCurrent(e) /\ unit[u] = "evaluation_pending"
      BY <1>1, <1>4 DEF AnswerInv, AwaitedIsInFlight
    <3>2. latest[u] > 0
      BY <1>1, <3>1 DEF AnswerInv, PendingIsAwaited
    <3> QED BY <1>1, <3>1, <3>2 DEF IsCurrent
  <2>2. unit' = [unit EXCEPT ![u] = target]
    BY <1>4, <2>1 DEF MoveUnit
  <2>3. decision[e] = "awaited"
    BY <1>3, <1>4 DEF DecisionOf
  <2>4. DecisionOf(o) \in Lifecycle!Decisions /\ target \in Lifecycle!Target(DecisionOf(o))
    BY DEF DecisionOf, Lifecycle!Decisions, Lifecycle!Target
  <2>5. Lifecycle!Decide(u, DecisionOf(o), target)
    BY <1>2, <2>1, <2>2, <2>3, <2>4 DEF Lifecycle!Decide
  <2>6. target \in {"ready", "rewrite_required", "evaluation_failed"}
    OBVIOUS
  <2>7. u \in Lifecycle!Units
    BY <1>1 DEF Lifecycle!Units, Units
  <2> HIDE DEF u
  <2> QED BY <2>4, <2>5, <2>6, <2>7 DEF Lifecycle!Next
<1>5. CASE overall[e] # "partial"
  <2>1. overall[e] = "terminal_partial"
    BY <1>1, <1>5, ActiveJob DEF NoRejection, Active, TypeOK, OverallStatuses
  <2>2. UNCHANGED decision
    BY <1>2, <1>3, <1>5, <2>1 DEF decision
  <2>3. ~(IsCurrent(e) /\ unit[u] = "evaluation_pending")
    BY <1>1, <1>5, CurrentIsLatest DEF AnswerInv, PendingIsAwaited
  <2>4. UNCHANGED unit
    BY <1>5, <2>3 DEF MoveUnit
  <2> QED BY <2>2, <2>4
<1> QED BY <1>4, <1>5

\* Without corruption no answer is ever rejected.
LEMMA NoRejectionStep ==
  ASSUME IInv, NoRejection, ~CorruptionMayHappen, Next
  PROVE  NoRejection'
<1> USE DEF IInv, NoRejection
<1>1. ASSUME NEW j \in Jobs, Terminalize(j)
      PROVE  NoRejection'
  BY <1>1 DEF Terminalize, TypeOK
<1>2. CASE LearnerNext
  <2>1. ASSUME NEW c \in Clients, NEW u \in Units, NEW x \in Versions, NEW t \in SUBSET Words,
               Submit(c, u, x, t)
        PROVE  NoRejection'
    <3>1. corrupt' = corrupt /\ overall' = [overall EXCEPT ![<<u, x>>] = "partial"]
      BY <2>1 DEF Submit
    <3> QED BY <3>1 DEF TypeOK
  <2>2. ASSUME NEW c \in Clients, Refresh(c) \/ RefreshLost(c)
        PROVE  NoRejection'
    BY <2>2 DEF Refresh, RefreshLost, ReadLatestVersion, InsertCheck, Finalize, unitVars, evalVars
  <2>3. ASSUME NEW u \in Units, Reopen(u)
        PROVE  NoRejection'
    BY <2>3 DEF Reopen, evalVars
  <2> QED BY <1>2, <2>1, <2>2, <2>3 DEF LearnerNext
<1>3. ASSUME NEW w \in Workers, PassStep(w)
      PROVE  NoRejection'
  <2>1. ~Reject(w)
    BY DEF Reject, ClaimInv, DamageIsReal
  <2>2. CASE Fail(w)
    BY <1>1, <2>2 DEF Fail, Requeue, unitVars, TypeOK, Pass
  <2>3. ASSUME NEW b \in BOOLEAN, NEW v \in BOOLEAN, Complete(w, b, v)
        PROVE  NoRejection'
    BY <2>3 DEF Complete, TypeOK
  <2>4. CASE \/ EvaluatorFails(w) \/ BeginComplete(w) \/ CompleteRaises(w) \/ BeginReject(w)
             \/ Abandon(w) \/ Replay(w) \/ \E j \in Jobs : Claim(w, j)
    BY <2>4 DEF EvaluatorFails, BeginComplete, CompleteRaises, BeginReject, Abandon, Replay, Claim,
       unitVars, evalVars
  <2> QED BY <1>3, <2>1, <2>2, <2>3, <2>4 DEF PassStep
<1>4. CASE QueueNext
  BY <1>1, <1>4 DEF QueueNext, LeaseExpires, BackoffEnds, Sweep, Requeue, Recover, Corrupt,
     unitVars, evalVars
<1> QED BY <1>2, <1>3, <1>4 DEF Next

\* Every step is a step of the abstract specification or leaves its state alone.
LEMMA StepImplements ==
  ASSUME IInv, NoRejection, ~CorruptionMayHappen, Next
  PROVE  [Lifecycle!Next]_<<unit, latest, decision>>
<1> USE DEF IInv
<1>1. ASSUME UNCHANGED <<unit, latest, overall>>
      PROVE  [Lifecycle!Next]_<<unit, latest, decision>>
  BY <1>1 DEF decision
<1>2. ASSUME NEW j \in Jobs, job[j] = "running", Terminalize(j)
      PROVE  [Lifecycle!Next]_<<unit, latest, decision>>
  <2> DEFINE e == EvalOf(j)
             seen == unit[e[1]]
  <2>1. overall[e] = "partial" => seen = "evaluation_pending"
    BY JobParts DEF AnswerInv, AwaitedIsInFlight
  <2>2. /\ overall' = [overall EXCEPT ![e] = "terminal_partial"] /\ MoveUnit(e, seen, "ready")
        /\ UNCHANGED latest /\ seen = unit[e[1]]
    BY <1>2 DEF Terminalize
  <2> HIDE DEF seen
  <2> QED BY <1>2, <2>1, <2>2, VerdictDecides
<1>3. ASSUME NEW c \in Clients, NEW u \in Units, NEW x \in Versions, NEW t \in SUBSET Words,
             Submit(c, u, x, t)
      PROVE  [Lifecycle!Next]_<<unit, latest, decision>>
  <2>1. <<u, x>> \in Evals /\ x = latest[u] + 1 /\ x <= MaxVersion /\ latest[u] \in Nat
    BY <1>3, Pairs, BoundsAssumption DEF Submit, Versions, TypeOK
  <2>2. overall' = [overall EXCEPT ![<<u, x>>] = "partial"]
    BY <1>3 DEF Submit
  <2>3. decision' = [decision EXCEPT ![<<u, x>>] = "awaited"]
    BY <2>1, <2>2, DecisionMoves DEF DecisionOf
  <2>4. Lifecycle!Submit(u)
    BY <1>3, <2>1, <2>3, BoundsAssumption DEF Submit, Submittable, Lifecycle!Submit
  <2> QED BY <2>4 DEF Lifecycle!Next, Lifecycle!Units, Units
<1>4. ASSUME NEW c \in Clients, Refresh(c) \/ RefreshLost(c)
      PROVE  [Lifecycle!Next]_<<unit, latest, decision>>
  BY <1>1, <1>4 DEF Refresh, RefreshLost, ReadLatestVersion, InsertCheck, Finalize, unitVars,
     evalVars
<1>5. ASSUME NEW u \in Units, Reopen(u)
      PROVE  [Lifecycle!Next]_<<unit, latest, decision>>
  <2>1. Lifecycle!Reopen(u)
    BY <1>5 DEF Reopen, Reopenable, evalVars, decision, Lifecycle!Reopen
  <2> QED BY <2>1 DEF Lifecycle!Next, Lifecycle!Units, Units
<1>6. ASSUME NEW w \in Workers, PassStep(w)
      PROVE  [Lifecycle!Next]_<<unit, latest, decision>>
  <2> DEFINE j == worker[w].job
  <2>1. j \in Jobs /\ EvalOf(j) \in Evals
    BY JobParts DEF TypeOK, Pass
  <2>2. ~Reject(w)
    BY DEF Reject, ClaimInv, DamageIsReal, NoRejection
  <2>3. CASE Fail(w)
    BY <1>1, <1>2, <2>1, <2>3 DEF Fail, Owns, Requeue, unitVars
  <2>4. ASSUME NEW b \in BOOLEAN, NEW v \in BOOLEAN, Complete(w, b, v)
        PROVE  [Lifecycle!Next]_<<unit, latest, decision>>
    <3> DEFINE e == EvalOf(j)
               seen == worker[w].seen
               target == CompletionTarget(b)
    <3>1. job[j] = "running" /\ overall[e] \notin Terminal
      BY <2>4 DEF Complete, Owns, AlreadyDecided
    <3>2. overall[e] = "partial"
      BY <2>1, <3>1, ActiveJob DEF Active, TypeOK, OverallStatuses, Terminal
    <3>3. seen = "evaluation_pending"
      BY <2>4, <3>2 DEF Complete, ClaimInv, SeenIsPending
    <3>4. /\ overall' = [overall EXCEPT ![e] = "completed"] /\ MoveUnit(e, seen, target)
          /\ UNCHANGED latest
      BY <2>4 DEF Complete
    <3>5. target \in {"ready", "rewrite_required"}
      BY DEF CompletionTarget
    <3> HIDE DEF j, seen, target
    <3> QED BY <2>1, <3>1, <3>2, <3>3, <3>4, <3>5, VerdictDecides
  <2>5. CASE \/ EvaluatorFails(w) \/ BeginComplete(w) \/ CompleteRaises(w) \/ BeginReject(w)
             \/ Abandon(w) \/ Replay(w) \/ \E k \in Jobs : Claim(w, k)
    BY <1>1, <2>5 DEF EvaluatorFails, BeginComplete, CompleteRaises, BeginReject, Abandon, Replay,
       Claim, unitVars, evalVars
  <2> QED BY <1>6, <2>2, <2>3, <2>4, <2>5 DEF PassStep
<1>7. CASE QueueNext
  <2>1. ASSUME NEW j \in Jobs, Sweep(j)
        PROVE  [Lifecycle!Next]_<<unit, latest, decision>>
    BY <1>1, <1>2, <2>1 DEF Sweep, Stale, Requeue, unitVars
  <2>2. CASE \/ \E j \in Jobs : LeaseExpires(j) \/ BackoffEnds(j)
             \/ \E e \in Evals, g \in 1..MaxGen : Recover(e, g)
             \/ \E e \in Evals : Corrupt(e)
    BY <1>1, <2>2 DEF LeaseExpires, BackoffEnds, Recover, Corrupt, unitVars, evalVars
  <2> QED BY <1>7, <2>1, <2>2 DEF QueueNext
<1> QED BY <1>3, <1>4, <1>5, <1>6, <1>7 DEF Next, LearnerNext

\* Unless stored answers are corrupted, the queue with its workers, retries, sweeps
\* and recoveries only submits, decides once and reopens.
THEOREM LifecycleImplemented ==
  ASSUME ~CorruptionMayHappen
  PROVE  Spec => ImplementsLifecycle
<1>1. Init => Lifecycle!Init /\ NoRejection
  BY DEF Init, NoRejection, Lifecycle!Init, Lifecycle!Units, Lifecycle!Answers, Units, Evals,
     Versions, decision, DecisionOf
<1>2. IInv /\ NoRejection /\ [Next]_vars
      => [Lifecycle!Next]_(Lifecycle!vars) /\ NoRejection'
  <2>1. ASSUME IInv, NoRejection, Next
        PROVE  [Lifecycle!Next]_(Lifecycle!vars) /\ NoRejection'
    BY <2>1, StepImplements, NoRejectionStep DEF Lifecycle!vars
  <2>2. ASSUME NoRejection, UNCHANGED vars
        PROVE  [Lifecycle!Next]_(Lifecycle!vars) /\ NoRejection'
    BY <2>2 DEF vars, unitVars, evalVars, decision, Lifecycle!vars, NoRejection
  <2> QED BY <2>1, <2>2
<1> QED
  BY <1>1, <1>2, Invariant, PTL DEF Spec, ImplementsLifecycle, Lifecycle!Spec

-----------------------------------------------------------------------------
(* The session rollup.                                                       *)

\* The rows a rollup reads, but for the coverage row and the retries left.
Quiet == UNCHANGED <<unit, latest, text, overall, mustFix, status, outcome>>

\* The answer of a running job that is not decided is its unit's newest one.
LEMMA UndecidedIsCurrent ==
  ASSUME IInv, NEW j \in Jobs, job[j] = "running", ~AlreadyDecided(EvalOf(j))
  PROVE  /\ overall[EvalOf(j)] = "partial" /\ IsCurrent(EvalOf(j))
         /\ unit[EvalOf(j)[1]] = "evaluation_pending"
<1>1. EvalOf(j) \in Evals /\ overall[EvalOf(j)] \in OverallStatuses
  BY JobParts DEF IInv, TypeOK
<1>2. overall[EvalOf(j)] = "partial"
  BY <1>1, ActiveJob DEF IInv, Active, AlreadyDecided, Terminal, OverallStatuses
<1> QED BY <1>1, <1>2 DEF IInv, AnswerInv, AwaitedIsInFlight

\* A step rolls the session up or leaves what the rollup is about alone.
LEMMA RollupOrQuiet ==
  ASSUME IInv, Next
  PROVE  Rollup \/ Quiet
<1> USE DEF IInv
<1>1. CASE LearnerNext
  BY <1>1 DEF LearnerNext, Submit, Refresh, ReadLatestVersion, InsertCheck, Finalize, RefreshLost,
     Reopen, Quiet, unitVars, evalVars, sessionVars
<1>2. ASSUME NEW w \in Workers, PassStep(w)
      PROVE  Rollup \/ Quiet
  <2>1. worker[w].job \in Jobs
    BY DEF TypeOK, Pass
  <2>2. ASSUME NEW b \in BOOLEAN, NEW v \in BOOLEAN, Complete(w, b, v)
        PROVE  Rollup
    <3>1. IsCurrent(EvalOf(worker[w].job))
      BY <2>1, <2>2, UndecidedIsCurrent DEF Complete, Owns
    <3> QED BY <2>2, <3>1 DEF Complete
  <2>3. CASE Fail(w)
    BY <2>3 DEF Fail, Requeue, Terminalize, Quiet, unitVars, sessionVars
  <2>4. CASE Reject(w)
    BY <2>4 DEF Reject
  <2>5. CASE \/ EvaluatorFails(w) \/ BeginComplete(w) \/ CompleteRaises(w) \/ BeginReject(w)
             \/ Abandon(w) \/ Replay(w) \/ \E j \in Jobs : Claim(w, j)
    BY <2>5 DEF EvaluatorFails, BeginComplete, CompleteRaises, BeginReject, Abandon, Replay, Claim,
       Quiet, unitVars, evalVars, sessionVars
  <2> QED BY <1>2, <2>2, <2>3, <2>4, <2>5 DEF PassStep
<1>3. CASE QueueNext
  BY <1>3 DEF QueueNext, LeaseExpires, BackoffEnds, Sweep, Requeue, Terminalize, Recover, Corrupt,
     Quiet, unitVars, evalVars, sessionVars
<1> QED BY <1>1, <1>2, <1>3 DEF Next

\* A submission writes the text of a new version; no other step writes one, and the
\* newest versions only grow.
LEMMA TextsStay ==
  ASSUME IInv, Next
  PROVE  \A u \in Units :
           /\ latest[u] \in Nat /\ latest'[u] \in Nat /\ latest[u] <= latest'[u]
           /\ \A n \in 1..latest[u] : text'[<<u, n>>] = text[<<u, n>>]
<1> USE DEF IInv
<1>1. \A u \in Units : latest[u] \in Nat /\ latest[u] <= MaxVersion
  BY BoundsAssumption DEF TypeOK
<1>2. CASE UNCHANGED <<latest, text>>
  BY <1>1, <1>2
<1>3. ASSUME NEW c \in Clients, NEW u \in Units, NEW x \in Versions, NEW t \in SUBSET Words,
             Submit(c, u, x, t)
      PROVE  \A v \in Units :
               /\ latest'[v] \in Nat /\ latest[v] <= latest'[v]
               /\ \A n \in 1..latest[v] : text'[<<v, n>>] = text[<<v, n>>]
  <2>1. /\ x = latest[u] + 1 /\ text' = [text EXCEPT ![<<u, x>>] = t]
        /\ latest' = [latest EXCEPT ![u] = x]
    BY <1>3 DEF Submit
  <2>2. \A v \in Units : latest'[v] \in Nat /\ latest[v] <= latest'[v]
    BY <1>1, <2>1 DEF TypeOK
  <2>3. ASSUME NEW v \in Units, NEW n \in 1..latest[v]
        PROVE  text'[<<v, n>>] = text[<<v, n>>]
    <3>1. n \in Versions
      BY <1>1, BoundsAssumption DEF Versions
    <3>2. <<v, n>> \in Evals /\ <<v, n>> # <<u, x>>
      BY <1>1, <2>1, <3>1, Pairs
    <3> QED BY <2>1, <3>2 DEF TypeOK
  <2> QED BY <2>2, <2>3
<1>4. UNCHANGED <<latest, text>> \/ \E c \in Clients, u \in Units, x \in Versions,
                                        t \in SUBSET Words : Submit(c, u, x, t)
  BY DEF Next, LearnerNext, Refresh, ReadLatestVersion, InsertCheck, Finalize, RefreshLost, Reopen,
     PassStep, Claim, EvaluatorFails, BeginComplete, Replay, Complete, CompleteRaises, Fail,
     BeginReject, Reject, Abandon, QueueNext, LeaseExpires, BackoffEnds, Sweep, Requeue,
     Terminalize, Recover, Corrupt, unitVars
<1> QED BY <1>1, <1>2, <1>3, <1>4

\* A step leaves the coverage row alone, or is the request that inserts a new one.
LEMMA CheckSteps ==
  ASSUME IInv, Next
  PROVE  \/ check' = check
         \/ \E c \in Clients :
              check' = [set |-> request[c].set, passed |-> Covered(request[c].set)]
BY DEF Next, LearnerNext, Submit, Refresh, ReadLatestVersion, InsertCheck, Finalize, RefreshLost,
   Reopen, PassStep, Claim, EvaluatorFails, BeginComplete, Replay, Complete, CompleteRaises, Fail,
   BeginReject, Reject, Abandon, QueueNext, LeaseExpires, BackoffEnds, Sweep, Requeue,
   Terminalize, Recover, Corrupt

\* A set that a request is reading grows by a version the unit has.
LEMMA SetsRead ==
  ASSUME IInv, Next, NEW c \in Clients
  PROVE  \A u \in Units :
           request'[c].set[u] = request[c].set[u] \/ request'[c].set[u] \in {0, latest[u]}
<1> USE DEF IInv
<1>1. CASE request' = request
  BY <1>1
<1>2. ASSUME NEW d \in Clients, NEW u \in Units, NEW x \in Versions, NEW t \in SUBSET Words,
             Submit(d, u, x, t)
      PROVE  \A v \in Units : request'[c].set[v] = request[c].set[v] \/ request'[c].set[v] = 0
  BY <1>2 DEF Submit, NoRequest, TypeOK
<1>3. ASSUME NEW d \in Clients, ReadLatestVersion(d)
      PROVE  \A v \in Units : \/ request'[c].set[v] = request[c].set[v]
                              \/ request'[c].set[v] = latest[v]
  <2> DEFINE r == request[d]
             n == r.next
  <2>1. r \in Request /\ n \in Units
    BY <1>3 DEF ReadLatestVersion, TypeOK
  <2>2. request' = [request EXCEPT ![d] = [r EXCEPT !.set[n] = latest[n], !.next = n + 1]]
    BY <1>3 DEF ReadLatestVersion, TypeOK
  <2>3. [r EXCEPT !.set[n] = latest[n], !.next = n + 1].set = [r.set EXCEPT ![n] = latest[n]]
    BY <2>1 DEF Request
  <2>4. c # d => request'[c] = request[c]
    BY <2>2 DEF TypeOK
  <2>5. request'[d].set = [r.set EXCEPT ![n] = latest[n]]
    BY <2>2, <2>3 DEF TypeOK
  <2>6. r.set \in [Units -> 0..MaxVersion]
    BY <2>1 DEF Request
  <2> HIDE DEF n
  <2>7. \A v \in Units : request'[d].set[v] = r.set[v] \/ request'[d].set[v] = latest[v]
    BY <2>5, <2>6
  <2> QED BY <2>4, <2>7
<1>4. ASSUME NEW d \in Clients, InsertCheck(d) \/ Finalize(d) \/ RefreshLost(d)
      PROVE  \A v \in Units : request'[c].set[v] = request[c].set[v] \/ request'[c].set[v] = 0
  BY <1>4 DEF InsertCheck, Finalize, RefreshLost, NoRequest, TypeOK
<1>5. \/ request' = request
      \/ \E d \in Clients : \/ \E u \in Units, x \in Versions, t \in SUBSET Words :
                                 Submit(d, u, x, t)
                            \/ ReadLatestVersion(d)
                            \/ InsertCheck(d) \/ Finalize(d) \/ RefreshLost(d)
  BY DEF Next, LearnerNext, Refresh, Reopen, PassStep, Claim, EvaluatorFails, BeginComplete,
     Replay, Complete, CompleteRaises, Fail, BeginReject, Reject, Abandon, QueueNext, LeaseExpires,
     BackoffEnds, Sweep, Requeue, Terminalize, Recover, Corrupt
<1> QED BY <1>1, <1>2, <1>3, <1>4, <1>5

\* The newest coverage row says passed only of a set of submitted versions that does
\* contain the words, and the sets being read hold submitted versions.
CoverageTrue ==
  /\ check.passed => Covered(check.set)
  /\ \A u \in Units : /\ check.set[u] <= latest[u]
                      /\ \A c \in Clients : request[c].set[u] <= latest[u]

\* What a set of submitted versions covers, it covers after any step.
LEMMA CoverageStays ==
  ASSUME IInv, Next
  PROVE  \A set \in [Units -> 0..MaxVersion] :
           (\A u \in Units : set[u] <= latest[u]) /\ Covered(set) =>
             \A x \in Words : \E u \in Units : set[u] > 0 /\ x \in text'[<<u, set[u]>>]
<1> SUFFICES ASSUME NEW set \in [Units -> 0..MaxVersion], \A u \in Units : set[u] <= latest[u],
                    Covered(set), NEW x \in Words
             PROVE  \E u \in Units : set[u] > 0 /\ x \in text'[<<u, set[u]>>]
  OBVIOUS
<1>1. PICK u \in Units : set[u] > 0 /\ x \in text[<<u, set[u]>>]
  BY DEF Covered
<1>2. latest[u] \in Nat /\ set[u] \in 0..MaxVersion /\ set[u] <= latest[u]
  BY TextsStay
<1>3. set[u] \in 1..latest[u]
  BY <1>1, <1>2, BoundsAssumption
<1>4. text'[<<u, set[u]>>] = text[<<u, set[u]>>]
  BY <1>3, TextsStay
<1> QED BY <1>1, <1>4

\* Submissions, reads and coverage rows keep it, in whatever order they come.
LEMMA CoverageStep ==
  ASSUME IInv, CoverageTrue, Next
  PROVE  CoverageTrue'
<1> USE DEF IInv
<1>1. \A u \in Units : /\ latest[u] \in Nat /\ latest'[u] \in Nat /\ latest[u] <= latest'[u]
                       /\ check.set[u] \in Nat
                       /\ \A c \in Clients : request[c].set[u] \in Nat
  <2>1. \A u \in Units : latest[u] \in Nat /\ latest'[u] \in Nat /\ latest[u] <= latest'[u]
    BY TextsStay
  <2>2. \A u \in Units : check.set[u] \in 0..MaxVersion
    BY DEF TypeOK
  <2>3. \A u \in Units, c \in Clients : request[c].set[u] \in 0..MaxVersion
    BY DEF TypeOK, Request
  <2> QED BY <2>1, <2>2, <2>3, BoundsAssumption
<1>2. \A u \in Units, c \in Clients : request'[c].set[u] <= latest'[u]
  <2> SUFFICES ASSUME NEW u \in Units, NEW c \in Clients
               PROVE  request'[c].set[u] <= latest'[u]
    OBVIOUS
  <2>1. request'[c].set[u] = request[c].set[u] \/ request'[c].set[u] \in {0, latest[u]}
    BY SetsRead
  <2> QED BY <1>1, <2>1 DEF CoverageTrue
<1>3. CASE check' = check
  <2>1. \A u \in Units : check'.set[u] <= latest'[u]
    BY <1>1, <1>3 DEF CoverageTrue
  <2>2. ASSUME check'.passed
        PROVE  Covered(check.set)'
    <3>1. Covered(check.set) /\ check.set \in [Units -> 0..MaxVersion]
      BY <1>3, <2>2 DEF CoverageTrue, TypeOK
    <3> QED BY <1>3, <3>1, CoverageStays DEF CoverageTrue, Covered
  <2> QED BY <1>2, <2>1, <2>2 DEF CoverageTrue
<1>4. ASSUME NEW c \in Clients,
             check' = [set |-> request[c].set, passed |-> Covered(request[c].set)]
      PROVE  CoverageTrue'
  <2>1. check'.set = request[c].set /\ (check'.passed <=> Covered(request[c].set))
    BY <1>4, Zenon
  <2>2. \A u \in Units : check'.set[u] <= latest'[u]
    BY <1>1, <2>1 DEF CoverageTrue
  <2>3. ASSUME check'.passed
        PROVE  Covered(check.set)'
    <3>1. Covered(request[c].set) /\ request[c].set \in [Units -> 0..MaxVersion]
      BY <2>1, <2>3 DEF TypeOK, Request
    <3> QED BY <2>1, <3>1, CoverageStays DEF CoverageTrue, Covered
  <2> QED BY <1>2, <2>2, <2>3 DEF CoverageTrue
<1> QED BY <1>3, <1>4, CheckSteps

\* With one generation a decided answer has no job left, and a rejected one has failed
\* its unit for good.
Unrecovered ==
  \A e \in Evals :
    /\ overall[e] \in Terminal => job[<<e, 1>>] \notin Active
    /\ overall[e] = "failed" => IsCurrent(e) /\ unit[e[1]] = "evaluation_failed"

\* A verdict that releases the only job of its answer keeps that.
LEMMA UnrecoveredVerdict ==
  ASSUME IInv, MaxGen = 1, Unrecovered, NEW j \in Jobs, job[j] = "running",
         NEW s \in {"done", "failed"}, job' = [job EXCEPT ![j] = s],
         NEW o \in Terminal, overall' = [overall EXCEPT ![EvalOf(j)] = o], UNCHANGED latest,
         LET u == EvalOf(j)[1]
         IN \/ unit' = [unit EXCEPT ![u] = "evaluation_failed"]
            \/ o # "failed" /\ \E x : unit' = [unit EXCEPT ![u] = x]
  PROVE  Unrecovered'
<1> DEFINE e == EvalOf(j)
           u == e[1]
<1> USE DEF IInv
<1>1. e \in Evals /\ u \in Units /\ j = <<e, 1>>
  BY JobParts DEF Gens
<1>2. overall[e] \notin Terminal
  BY <1>1 DEF Unrecovered, Active
<1>3. overall[e] = "partial" /\ IsCurrent(e) /\ unit[u] = "evaluation_pending"
  BY <1>2, UndecidedIsCurrent DEF AlreadyDecided
<1> HIDE DEF e, u
<1>4. /\ overall'[e] = o /\ job'[<<e, 1>>] = s
      /\ \A d \in Evals : d # e => overall'[d] = overall[d] /\ job'[<<d, 1>>] = job[<<d, 1>>]
  BY <1>1, Pairs, Ones DEF TypeOK, e
<1>5. \A v \in Units : v # u => unit'[v] = unit[v]
  BY DEF TypeOK, u, e
<1>6. o = "failed" => unit'[u] = "evaluation_failed"
  BY <1>1 DEF TypeOK, u, e
<1>7. ASSUME NEW d \in Evals
      PROVE  /\ overall'[d] \in Terminal => job'[<<d, 1>>] \notin Active
             /\ overall'[d] = "failed" => d[2] = latest'[d[1]] /\ unit'[d[1]] = "evaluation_failed"
  <2>1. CASE d = e
    BY <1>1, <1>3, <1>4, <1>6, <2>1 DEF Active, IsCurrent, u
  <2>2. CASE d # e
    <3>1. overall[d] = "failed" => IsCurrent(d) /\ unit[d[1]] = "evaluation_failed"
      BY DEF Unrecovered
    <3>2. overall[d] = "failed" => d[1] # u
      BY <1>3, <3>1
    <3> QED BY <1>4, <1>5, <2>2, <3>1, <3>2, EvalParts DEF Unrecovered, IsCurrent
  <2> QED BY <2>1, <2>2
<1> QED BY <1>7 DEF Unrecovered, IsCurrent

\* Every step keeps it while there is one generation.
LEMMA UnrecoveredStep ==
  ASSUME IInv, MaxGen = 1, Unrecovered, Next
  PROVE  Unrecovered'
<1> USE DEF IInv
<1>1. ASSUME UNCHANGED <<unit, latest, overall>>,
             \A e \in Evals : overall[e] \in Terminal =>
               (job'[<<e, 1>>] \in Active => job[<<e, 1>>] \in Active)
      PROVE  Unrecovered'
  BY <1>1 DEF Unrecovered, IsCurrent
<1>2. ASSUME NEW j \in Jobs, job[j] = "running", Terminalize(j)
      PROVE  Unrecovered'
  <2>1. /\ job' = [job EXCEPT ![j] = "failed"]
        /\ overall' = [overall EXCEPT ![EvalOf(j)] = "terminal_partial"] /\ UNCHANGED latest
    BY <1>2 DEF Terminalize, Release
  <2>2. \E x : unit' = [unit EXCEPT ![EvalOf(j)[1]] = x]
    <3>1. unit = [unit EXCEPT ![EvalOf(j)[1]] = unit[EvalOf(j)[1]]]
      BY DEF TypeOK
    <3> QED BY <1>2, <3>1 DEF Terminalize, MoveUnit
  <2>3. "terminal_partial" \in Terminal /\ "failed" \in {"done", "failed"}
    BY DEF Terminal
  <2> QED BY <1>2, <2>1, <2>2, <2>3, UnrecoveredVerdict
<1>3. CASE LearnerNext
  <2>1. ASSUME NEW c \in Clients, NEW u \in Units, NEW x \in Versions, NEW t \in SUBSET Words,
               Submit(c, u, x, t)
        PROVE  Unrecovered'
    <3> DEFINE e == <<u, x>>
    <3>1. e \in Evals /\ e[1] = u /\ e[2] = x
      BY Pairs
    <3>2. /\ overall' = [overall EXCEPT ![e] = "partial"]
          /\ job' = [job EXCEPT ![<<e, 1>>] = "pending"]
          /\ latest' = [latest EXCEPT ![u] = x] /\ unit' = [unit EXCEPT ![u] = "evaluation_pending"]
          /\ unit[u] # "evaluation_failed"
      BY <2>1 DEF Submit, FirstJob, Submittable
    <3> HIDE DEF e
    <3>3. /\ overall'[e] = "partial"
          /\ \A d \in Evals : d # e => overall'[d] = overall[d] /\ job'[<<d, 1>>] = job[<<d, 1>>]
      BY <3>1, <3>2, Pairs, Ones DEF TypeOK
    <3>4. \A v \in Units : v # u => latest'[v] = latest[v] /\ unit'[v] = unit[v]
      BY <3>2 DEF TypeOK
    <3>5. ASSUME NEW d \in Evals
          PROVE  /\ overall'[d] \in Terminal => job'[<<d, 1>>] \notin Active
                 /\ overall'[d] = "failed" => d[2] = latest'[d[1]] /\ unit'[d[1]] = "evaluation_failed"
      <4>1. CASE d = e
        BY <3>3, <4>1 DEF Terminal
      <4>2. CASE d # e
        <5>1. overall[d] = "failed" => IsCurrent(d) /\ unit[d[1]] = "evaluation_failed"
          BY DEF Unrecovered
        <5>2. overall[d] = "failed" => d[1] # u
          BY <3>2, <5>1
        <5> QED BY <3>3, <3>4, <4>2, <5>1, <5>2, EvalParts DEF Unrecovered, IsCurrent
      <4> QED BY <4>1, <4>2
    <3> QED BY <3>5 DEF Unrecovered, IsCurrent
  <2>2. ASSUME NEW c \in Clients, Refresh(c) \/ RefreshLost(c)
        PROVE  Unrecovered'
    BY <1>1, <2>2 DEF Refresh, RefreshLost, ReadLatestVersion, InsertCheck, Finalize, unitVars,
       evalVars, jobVars
  <2>3. ASSUME NEW u \in Units, Reopen(u)
        PROVE  Unrecovered'
    <3>1. unit[u] = "ready" /\ unit' = [unit EXCEPT ![u] = "draft"] /\ UNCHANGED <<latest, overall, job>>
      BY <2>3 DEF Reopen, Reopenable, evalVars, jobVars
    <3>2. \A d \in Evals : unit[d[1]] = "evaluation_failed" => unit'[d[1]] = "evaluation_failed"
      BY <3>1, EvalParts DEF TypeOK
    <3> QED BY <3>1, <3>2 DEF Unrecovered, IsCurrent
  <2> QED BY <1>3, <2>1, <2>2, <2>3 DEF LearnerNext
<1>4. ASSUME NEW w \in Workers, PassStep(w)
      PROVE  Unrecovered'
  <2> DEFINE j == worker[w].job
  <2>1. j \in Jobs /\ EvalOf(j)[1] \in Units
    BY JobParts DEF TypeOK, Pass
  <2>2. ASSUME NEW k \in Jobs, Claim(w, k)
        PROVE  Unrecovered'
    <3>1. UNCHANGED <<unit, latest, overall>> /\ job' = [job EXCEPT ![k] = "running"] /\ job[k] \in Active
      BY <2>2 DEF Claim, unitVars, Active
    <3>2. \A e \in Evals : job'[<<e, 1>>] = job[<<e, 1>>] \/ job[<<e, 1>>] \in Active
      BY <3>1, Pairs, Ones DEF TypeOK
    <3> QED BY <1>1, <3>1, <3>2
  <2>3. CASE Replay(w)
    <3>1. UNCHANGED <<unit, latest, overall>> /\ job' = [job EXCEPT ![j] = "done"]
      BY <2>3 DEF Replay, unitVars, evalVars
    <3>2. \A e \in Evals : job'[<<e, 1>>] = job[<<e, 1>>] \/ job'[<<e, 1>>] = "done"
      BY <3>1, Pairs, Ones DEF TypeOK
    <3> QED BY <1>1, <3>1, <3>2 DEF Active
  <2>4. ASSUME NEW b \in BOOLEAN, NEW v \in BOOLEAN, Complete(w, b, v)
        PROVE  Unrecovered'
    <3>1. /\ job' = [job EXCEPT ![j] = "done"] /\ job[j] = "running"
          /\ overall' = [overall EXCEPT ![EvalOf(j)] = "completed"] /\ UNCHANGED latest
      BY <2>4 DEF Complete, Release, Owns
    <3>2. \E x : unit' = [unit EXCEPT ![EvalOf(j)[1]] = x]
      <4>1. unit = [unit EXCEPT ![EvalOf(j)[1]] = unit[EvalOf(j)[1]]]
        BY DEF TypeOK
      <4> QED BY <2>4, <4>1 DEF Complete, MoveUnit
    <3>3. "completed" \in Terminal /\ "done" \in {"done", "failed"}
      BY DEF Terminal
    <3> HIDE DEF j
    <3> QED BY <2>1, <3>1, <3>2, <3>3, UnrecoveredVerdict
  <2>5. CASE Fail(w)
    <3>1. job[j] = "running"
      BY <2>5 DEF Fail, Owns
    <3>2. CASE Requeue(j)
      <4>1. UNCHANGED <<unit, latest, overall>> /\ job' = [job EXCEPT ![j] = "pending"]
        BY <3>2 DEF Requeue, Release, unitVars
      <4>2. \A e \in Evals : job'[<<e, 1>>] = job[<<e, 1>>] \/ job[<<e, 1>>] \in Active
        BY <3>1, <4>1, Pairs, Ones DEF TypeOK, Active
      <4> QED BY <1>1, <4>1, <4>2
    <3> QED BY <1>2, <2>1, <2>5, <3>1, <3>2 DEF Fail
  <2>6. CASE Reject(w)
    <3> DEFINE e == EvalOf(j)
    <3>1. /\ job' = [job EXCEPT ![j] = "failed"] /\ job[j] = "running"
          /\ overall' = [overall EXCEPT ![e] = "failed"] /\ UNCHANGED latest
      BY <2>6 DEF Reject, Release, Owns
    <3>2. overall[e] \notin Terminal
      <4>1. e \in Evals /\ j = <<e, 1>>
        BY <2>1, JobParts DEF Gens
      <4> QED BY <3>1, <4>1 DEF Unrecovered, Active
    <3>3. overall[e] = "partial" /\ IsCurrent(e)
      BY <2>1, <3>1, <3>2, UndecidedIsCurrent DEF AlreadyDecided
    <3>4. worker[w].seen = "evaluation_pending"
      BY <2>6, <3>3 DEF Reject, ClaimInv, SeenIsPending
    <3>5. unit' = [unit EXCEPT ![e[1]] = "evaluation_failed"]
      BY <2>6, <3>3, <3>4 DEF Reject, MoveUnit
    <3>6. "failed" \in Terminal /\ "failed" \in {"done", "failed"}
      BY DEF Terminal
    <3> HIDE DEF j
    <3> QED BY <2>1, <3>1, <3>5, <3>6, UnrecoveredVerdict
  <2>7. CASE \/ EvaluatorFails(w) \/ BeginComplete(w) \/ CompleteRaises(w) \/ BeginReject(w)
             \/ Abandon(w)
    BY <1>1, <2>7 DEF EvaluatorFails, BeginComplete, CompleteRaises, BeginReject, Abandon, unitVars,
       evalVars, jobVars
  <2> QED BY <1>4, <2>2, <2>3, <2>4, <2>5, <2>6, <2>7 DEF PassStep
<1>5. CASE QueueNext
  <2>1. ASSUME NEW j \in Jobs, Sweep(j)
        PROVE  Unrecovered'
    <3>1. job[j] = "running"
      BY <2>1 DEF Sweep, Stale
    <3>2. CASE Requeue(j)
      <4>1. UNCHANGED <<unit, latest, overall>> /\ job' = [job EXCEPT ![j] = "pending"]
        BY <3>2 DEF Requeue, Release, unitVars
      <4>2. \A e \in Evals : job'[<<e, 1>>] = job[<<e, 1>>] \/ job[<<e, 1>>] \in Active
        BY <3>1, <4>1, Pairs, Ones DEF TypeOK, Active
      <4> QED BY <1>1, <4>1, <4>2
    <3> QED BY <1>2, <2>1, <3>1, <3>2 DEF Sweep
  <2>2. ~ \E e \in Evals, g \in 1..MaxGen : Recover(e, g)
    BY DEF Recover
  <2>3. CASE \/ \E j \in Jobs : LeaseExpires(j) \/ BackoffEnds(j)
             \/ \E e \in Evals : Corrupt(e)
    BY <1>1, <2>3 DEF LeaseExpires, BackoffEnds, Corrupt, unitVars, evalVars, jobVars
  <2> QED BY <1>5, <2>1, <2>2, <2>3 DEF QueueNext
<1> QED BY <1>3, <1>4, <1>5 DEF Next

\* Either no stored answer is corrupted or no failed evaluation is recovered: with
\* both, ewp_recover_evaluation, which ends without a rollup, leaves the session behind.
RejectionsStand == ~CorruptionMayHappen \/ MaxGen = 1

\* What the rollup's conditions rest on.
RowsInv ==
  /\ IInv
  /\ ~CorruptionMayHappen => NoRejection
  /\ MaxGen = 1 => Unrecovered
  /\ CoverageTrue

\* The initial rows, and every step, keep it.
LEMMA RowsInvariant == Spec => []RowsInv
<1>1. Init => (~CorruptionMayHappen => NoRejection) /\ (MaxGen = 1 => Unrecovered) /\ CoverageTrue
  <2> SUFFICES ASSUME Init
               PROVE  NoRejection /\ Unrecovered /\ CoverageTrue
    OBVIOUS
  <2>1. NoRejection /\ Unrecovered
    BY DEF Init, NoRejection, Unrecovered, Terminal
  <2>2. CoverageTrue
    BY DEF Init, CoverageTrue, NoCheck, NoRequest
  <2> QED BY <2>1, <2>2
<1>2. RowsInv /\ [Next]_vars
      => ((~CorruptionMayHappen => NoRejection) /\ (MaxGen = 1 => Unrecovered) /\ CoverageTrue)'
  <2>1. ASSUME RowsInv, Next
        PROVE  ((~CorruptionMayHappen => NoRejection) /\ (MaxGen = 1 => Unrecovered) /\ CoverageTrue)'
    BY <2>1, NoRejectionStep, UnrecoveredStep, CoverageStep DEF RowsInv
  <2>2. ASSUME RowsInv, UNCHANGED vars
        PROVE  ((~CorruptionMayHappen => NoRejection) /\ (MaxGen = 1 => Unrecovered) /\ CoverageTrue)'
    BY <2>2 DEF RowsInv, vars, unitVars, evalVars, jobVars, NoRejection, Unrecovered, CoverageTrue,
       Covered, IsCurrent
  <2> QED BY <2>1, <2>2
<1> QED BY <1>1, <1>2, Invariant, PTL DEF Spec, RowsInv

\* A failed unit is left with its jobs, and a ready one has a usable verdict.
LEMMA RowsAtRest ==
  ASSUME RejectionsStand, RowsInv, NEW u \in Units
  PROVE  /\ unit[u] = "evaluation_failed" =>
              MaxGen = 1 /\ \A g \in Gens : job[<<LatestEval(u), g>>] \notin Active
         /\ unit[u] = "ready" =>
              latest[u] > 0 /\ overall[LatestEval(u)] \in {"completed", "terminal_partial"}
<1> USE DEF RowsInv, IInv
<1>1. CASE ~CorruptionMayHappen
  <2>1. unit[u] # "evaluation_failed"
    BY <1>1 DEF NoRejection, AnswerInv, VerdictsMatch
  <2>2. unit[u] = "ready" => latest[u] > 0 /\ overall[LatestEval(u)] \in Terminal
    BY DEF AnswerInv, VerdictsMatch
  <2>3. latest[u] > 0 => overall[LatestEval(u)] # "failed"
    BY <1>1, Latest DEF NoRejection
  <2> QED BY <2>1, <2>2, <2>3 DEF Terminal
<1>2. CASE MaxGen = 1
  <2>1. unit[u] \in {"ready", "evaluation_failed"} =>
          /\ latest[u] > 0 /\ overall[LatestEval(u)] \in Terminal
          /\ LatestEval(u) \in Evals /\ LatestEval(u)[1] = u
    BY Latest DEF AnswerInv, VerdictsMatch
  <2>2. \A g \in Gens : g = 1
    BY <1>2 DEF Gens
  <2> QED BY <1>2, <2>1, <2>2 DEF Unrecovered, Terminal
<1> QED BY <1>1, <1>2 DEF RejectionsStand

\* With one generation only a claim counts an attempt, and only a submission mints a
\* job: what is left to retry of a job that is not active stays.
LEMMA RetriesStay ==
  ASSUME IInv, MaxGen = 1, Next, Quiet
  PROVE  \A k \in Jobs : job[k] \notin Active =>
           (job'[k] = "none" <=> job[k] = "none") /\ attempts'[k] = attempts[k]
<1> USE DEF IInv
<1>1. CASE UNCHANGED <<job, attempts>>
  BY <1>1
<1>2. ASSUME NEW j \in Jobs, job[j] \in Active, NEW s \in JobStatuses \ {"none"},
             job' = [job EXCEPT ![j] = s],
             attempts' = attempts \/ \E n : attempts' = [attempts EXCEPT ![j] = n]
      PROVE  \A k \in Jobs : job[k] \notin Active =>
               (job'[k] = "none" <=> job[k] = "none") /\ attempts'[k] = attempts[k]
  BY <1>2 DEF TypeOK
<1>3. \A s \in {"pending", "running", "done", "failed"} : s \in JobStatuses \ {"none"}
  BY DEF JobStatuses
<1>4. CASE LearnerNext
  <2>1. ASSUME NEW c \in Clients, NEW u \in Units, NEW x \in Versions, NEW t \in SUBSET Words,
               Submit(c, u, x, t)
        PROVE  FALSE
    <3>1. latest'[u] = latest[u] + 1 /\ latest[u] \in Nat /\ latest' = latest
      BY <2>1 DEF Submit, TypeOK, Quiet
    <3> QED BY <3>1
  <2> QED BY <1>1, <1>4, <2>1 DEF LearnerNext, Refresh, ReadLatestVersion, InsertCheck, Finalize,
     RefreshLost, Reopen, jobVars
<1>5. ASSUME NEW w \in Workers, PassStep(w)
      PROVE  \A k \in Jobs : job[k] \notin Active =>
               (job'[k] = "none" <=> job[k] = "none") /\ attempts'[k] = attempts[k]
  <2> DEFINE j == worker[w].job
  <2>1. j \in Jobs /\ (Owns(w) => job[j] \in Active)
    BY DEF TypeOK, Pass, Owns, Active
  <2>2. ASSUME NEW k \in Jobs, Claim(w, k)
        PROVE  \A i \in Jobs : job[i] \notin Active =>
                 (job'[i] = "none" <=> job[i] = "none") /\ attempts'[i] = attempts[i]
    <3>1. job[k] \in Active /\ job' = [job EXCEPT ![k] = "running"]
      BY <2>2 DEF Claim, Active
    <3>2. \E n : attempts' = [attempts EXCEPT ![k] = n]
      BY <2>2 DEF Claim
    <3> QED BY <1>2, <1>3, <3>1, <3>2
  <2>3. CASE Owns(w) /\ UNCHANGED attempts /\ \E s \in {"pending", "done", "failed"} :
               job' = [job EXCEPT ![j] = s]
    <3> HIDE DEF j
    <3> QED BY <1>2, <1>3, <2>1, <2>3
  <2>4. CASE \/ Replay(w) \/ Fail(w) \/ Reject(w)
             \/ \E b, v \in BOOLEAN : Complete(w, b, v)
    BY <2>3, <2>4 DEF Replay, Fail, Reject, Complete, Requeue, Terminalize, Release
  <2>5. CASE \/ EvaluatorFails(w) \/ BeginComplete(w) \/ CompleteRaises(w) \/ BeginReject(w)
             \/ Abandon(w)
    BY <1>1, <2>5 DEF EvaluatorFails, BeginComplete, CompleteRaises, BeginReject, Abandon, jobVars
  <2> QED BY <1>5, <2>2, <2>4, <2>5 DEF PassStep
<1>6. CASE QueueNext
  <2>1. ASSUME NEW j \in Jobs, Sweep(j)
        PROVE  \A k \in Jobs : job[k] \notin Active =>
                 (job'[k] = "none" <=> job[k] = "none") /\ attempts'[k] = attempts[k]
    <3>1. job[j] \in Active /\ UNCHANGED attempts
      BY <2>1 DEF Sweep, Stale, Requeue, Terminalize, Active
    <3>2. \E s \in {"pending", "failed"} : job' = [job EXCEPT ![j] = s]
      BY <2>1 DEF Sweep, Requeue, Terminalize, Release
    <3> QED BY <1>2, <1>3, <3>1, <3>2
  <2>2. ~ \E e \in Evals, g \in 1..MaxGen : Recover(e, g)
    BY DEF Recover
  <2> QED BY <1>1, <1>6, <2>1, <2>2 DEF QueueNext, LeaseExpires, BackoffEnds, Corrupt, jobVars
<1> QED BY <1>4, <1>5, <1>6 DEF Next

\* A step without a rollup changes what a rollup would compute only by a coverage row,
\* and only while every unit is ready.
LEMMA QuietStatus ==
  ASSUME RejectionsStand, RowsInv, Next, Quiet
  PROVE  \/ SessionStatus' = SessionStatus
         \/ /\ \A u \in Units : unit[u] = "ready"
            /\ SessionStatus \in {"completed", "rewrite_required"}
            /\ SessionStatus' \in {"completed", "rewrite_required"}
<1> USE DEF RowsInv
<1>1. UNCHANGED <<unit, latest, mustFix>>
  BY DEF Quiet
<1>2. ASSUME NEW u \in Units, unit[u] = "evaluation_failed"
      PROVE  RecoveryAvailable(u)' <=> RecoveryAvailable(u)
  <2> DEFINE e == LatestEval(u)
  <2>1. MaxGen = 1 /\ \A g \in Gens : job[<<e, g>>] \notin Active
    BY <1>2, RowsAtRest
  <2>2. \A k \in Jobs : EvalOf(k) = e => job[k] \notin Active
    BY <2>1, JobParts
  <2>3. \A k \in Jobs : EvalOf(k) = e =>
          (job'[k] = "none" <=> job[k] = "none") /\ attempts'[k] = attempts[k]
    BY <2>1, <2>2, RetriesStay
  <2>4. LatestEval(u)' = e
    BY <1>1 DEF LatestEval
  <2>5. {k \in Jobs : EvalOf(k) = LatestEval(u)' /\ job'[k] # "none"} =
          {k \in Jobs : EvalOf(k) = e /\ job[k] # "none"}
    BY <2>3, <2>4
  <2> QED BY <2>3, <2>5 DEF RecoveryAvailable, RetriesLeft
<1>3. AwaitsEvaluation' <=> AwaitsEvaluation
  BY <1>1, <1>2 DEF AwaitsEvaluation
<1>4. \A set : SomeUnit(set)' <=> SomeUnit(set)
  BY <1>1 DEF SomeUnit
<1>5. CASE \A u \in Units : unit[u] = "ready"
  <2>1. ~SomeUnit({"not_started", "draft"}) /\ ~AwaitsEvaluation /\ ~SomeUnit({"evaluation_failed"})
    BY <1>5 DEF SomeUnit, AwaitsEvaluation
  <2> QED BY <1>3, <1>4, <1>5, <2>1 DEF SessionStatus
<1>6. ASSUME NEW u \in Units, unit[u] # "ready"
      PROVE  SessionStatus' = SessionStatus
  <2>1. unit[u] \in UnitStatuses
    BY DEF IInv, TypeOK
  <2>2. \/ SomeUnit({"not_started", "draft"}) \/ AwaitsEvaluation \/ SomeUnit({"evaluation_failed"})
        \/ SomeUnit({"rewrite_required"})
    BY <1>6, <2>1 DEF UnitStatuses, SomeUnit, AwaitsEvaluation
  <2> QED BY <1>3, <1>4, <2>2 DEF SessionStatus
<1> QED BY <1>5, <1>6

\* The session status is what a rollup would compute, but for a coverage row that is
\* not finalized yet: no unit transition is committed without its rollup.
THEOREM StatusTracksUnitsHolds ==
  ASSUME RejectionsStand
  PROVE  Spec => []StatusTracksUnits
<1>1. Init => StatusTracksUnits
  BY UnitsAssumption DEF Init, StatusTracksUnits, SessionStatus, SomeUnit, Units
<1>2. RowsInv /\ StatusTracksUnits /\ [Next]_vars => StatusTracksUnits'
  <2>1. ASSUME RowsInv, StatusTracksUnits, Next
        PROVE  StatusTracksUnits'
    <3>1. CASE Rollup
      BY <3>1 DEF Rollup, StatusTracksUnits
    <3>2. CASE Quiet
      <4>1. UNCHANGED <<unit, status>>
        BY <3>2 DEF Quiet
      <4> QED BY <2>1, <3>2, <4>1, QuietStatus DEF StatusTracksUnits
    <3> QED BY <2>1, <3>1, <3>2, RollupOrQuiet DEF RowsInv
  <2>2. ASSUME StatusTracksUnits, UNCHANGED vars
        PROVE  StatusTracksUnits'
    <3>1. UNCHANGED <<status, unit, latest, mustFix, job, attempts, check>>
      BY <2>2 DEF vars, unitVars, evalVars, jobVars, sessionVars
    <3>2. SessionStatus' = SessionStatus
      BY <3>1 DEF SessionStatus, SomeUnit, AwaitsEvaluation, RecoveryAvailable, RetriesLeft,
         LatestEval, CoverageOk, UnresolvedMustFix
    <3> QED BY <2>2, <3>1, <3>2 DEF StatusTracksUnits
  <2> QED BY <2>1, <2>2
<1> QED BY <1>1, <1>2, RowsInvariant, PTL DEF Spec

\* What a rollup that completes the session has found.
CompletionEarned ==
  SessionStatus = "completed" =>
    /\ \A u \in Units : unit[u] = "ready" /\ overall[LatestEval(u)] \in Terminal
    /\ Covered(latest)
    /\ ~UnresolvedMustFix
    /\ Aggregate \in {"deterministic_only", "fully_evaluated"}

\* The conditions of section 4.6c hold of the rows whenever the rollup says so.
LEMMA CompletionIsEarned ==
  ASSUME RejectionsStand
  PROVE  RowsInv => CompletionEarned
<1> SUFFICES ASSUME RowsInv, SessionStatus = "completed"
             PROVE  /\ \A u \in Units : unit[u] = "ready" /\ overall[LatestEval(u)] \in Terminal
                    /\ Covered(latest)
                    /\ ~UnresolvedMustFix
                    /\ Aggregate \in {"deterministic_only", "fully_evaluated"}
  BY DEF CompletionEarned
<1> USE DEF RowsInv
<1>1. /\ ~SomeUnit({"not_started", "draft"}) /\ ~AwaitsEvaluation /\ ~SomeUnit({"evaluation_failed"})
      /\ ~SomeUnit({"rewrite_required"}) /\ CoverageOk /\ ~UnresolvedMustFix
  BY DEF SessionStatus
<1>2. \A u \in Units : unit[u] = "ready"
  BY <1>1 DEF IInv, TypeOK, UnitStatuses, SomeUnit, AwaitsEvaluation
<1>3. \A u \in Units : latest[u] > 0 /\ overall[LatestEval(u)] \in {"completed", "terminal_partial"}
  BY <1>2, RowsAtRest
<1>4. Covered(latest)
  BY <1>1 DEF CoverageOk, CoverageTrue
<1>5. Aggregate \in {"deterministic_only", "fully_evaluated"}
  <2>1. \A u \in Units : LatestOverall(u) \in {"completed", "terminal_partial"}
    <3>1. \A u \in Units : latest[u] # 0
      BY <1>3 DEF IInv, TypeOK
    <3> QED BY <1>3, <3>1 DEF LatestOverall
  <2>2. {LatestOverall(u) : u \in Units} \subseteq {"completed", "terminal_partial"}
    BY <2>1
  <2>3. /\ {LatestOverall(u) : u \in Units} \subseteq Terminal
        /\ "failed" \notin {LatestOverall(u) : u \in Units}
    BY <2>2 DEF Terminal
  <2> QED BY <2>3 DEF Aggregate
<1> QED BY <1>1, <1>2, <1>3, <1>4, <1>5 DEF Terminal

\* A completed session meets the conditions of section 4.6c, whatever coverage rows
\* overlapping refreshes wrote and in whatever order.
THEOREM CompletedSessionSoundHolds ==
  ASSUME RejectionsStand
  PROVE  Spec => []CompletedSessionSound
<1>1. Init => CompletedSessionSound
  BY DEF Init, CompletedSessionSound
<1>2. IInv /\ CompletedSessionSound /\ CompletionEarned' /\ [Next]_vars => CompletedSessionSound'
  <2>1. ASSUME IInv, CompletedSessionSound, CompletionEarned', Next
        PROVE  CompletedSessionSound'
    <3>1. CASE Rollup
      <4>1. ASSUME status' = "completed"
            PROVE  SessionStatus' = "completed"
        BY <3>1, <4>1 DEF Rollup
      <4>2. ASSUME Aggregate' \in {"deterministic_only", "fully_evaluated"}
            PROVE  outcome' \in {"deterministic_only", "fully_evaluated"}
        BY <2>1, <3>1, <4>2 DEF Rollup, Promote, Rank, IInv, TypeOK, Outcomes
      <4> QED BY <2>1, <4>1, <4>2 DEF CompletionEarned, CompletedSessionSound
    <3>2. CASE Quiet
      BY <2>1, <3>2 DEF Quiet, CompletedSessionSound, Covered, UnresolvedMustFix, LatestEval
    <3> QED BY <2>1, <3>1, <3>2, RollupOrQuiet
  <2>2. ASSUME CompletedSessionSound, UNCHANGED vars
        PROVE  CompletedSessionSound'
    BY <2>2 DEF vars, unitVars, evalVars, sessionVars, CompletedSessionSound, Covered,
       UnresolvedMustFix, LatestEval
  <2> QED BY <2>1, <2>2
<1>3. RowsInv => CompletionEarned
  BY CompletionIsEarned
<1> QED BY <1>1, <1>2, <1>3, RowsInvariant, Invariant, PTL DEF Spec

=============================================================================
