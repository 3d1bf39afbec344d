------------------------- MODULE WritingSafetyProofs ------------------------
(***************************************************************************)
(* The inductive invariant of WritingSession and the safety properties     *)
(* that follow from it, for every value of the constants.                  *)
(***************************************************************************)
EXTENDS WritingSessionProofs

\* An active job is the newest generation of an answer that is not scored, and an
\* undecided answer is in the hands of its first generation.
LEMMA ActiveJob ==
  ASSUME TypeOK, AnswerInv, NEW j \in Jobs, job[j] \in Active
  PROVE  LET e == EvalOf(j)
         IN /\ overall[e] \notin {"none", "completed"}
            /\ e \notin mustFix
            /\ overall[e] = "partial" => j = <<e, 1>>
            /\ \A g \in Gens : g < j[2] => job[<<e, g>>] = "failed"
            /\ \A g \in Gens : g > j[2] => job[<<e, g>>] = "none"
<1> DEFINE e == EvalOf(j)
<1>1. e \in Evals /\ j[2] \in Gens /\ j = <<e, j[2]>> /\ 1 \in Gens
  BY JobParts, Ones
<1>2. overall[e] # "none"
  BY <1>1 DEF AnswerInv, EnvelopesExist, Active
<1>3. \A g \in Gens : g < j[2] => job[<<e, g>>] = "failed"
  BY <1>1 DEF AnswerInv, GenerationsOrdered, Active
<1>4. \A g \in Gens : g > j[2] => job[<<e, g>>] = "none"
  BY <1>1 DEF AnswerInv, GenerationsOrdered, Active
<1>5. j[2] # 1 => job[<<e, 1>>] = "failed"
  BY <1>1, <1>3 DEF Gens
<1>6. overall[e] # "completed"
  BY <1>1, <1>5 DEF AnswerInv, ScoredIsDone, Active
<1>7. e \notin mustFix
  BY <1>1, <1>6 DEF AnswerInv, ScoredIsDone
<1>8. overall[e] = "partial" => j[2] = 1
  BY <1>1, <1>5 DEF AnswerInv, AwaitedIsInFlight, Active
<1> QED BY <1>1, <1>2, <1>3, <1>4, <1>6, <1>7, <1>8

\* The newest answer of a unit that has one.
LEMMA Latest ==
  ASSUME TypeOK, NEW u \in Units, latest[u] > 0
  PROVE  /\ LatestEval(u) \in Evals
         /\ LatestEval(u)[1] = u
         /\ LatestEval(u)[2] = latest[u]
<1>1. latest[u] \in Versions
  BY DEF TypeOK, Versions
<1> QED BY <1>1, Pairs DEF LatestEval

\* The newest answer of a unit is the only current one.
LEMMA CurrentIsLatest ==
  \A e \in Evals : IsCurrent(e) => e = LatestEval(e[1])
BY EvalParts DEF IsCurrent, LatestEval

\* Steps that leave the rows of the answers alone keep what they say.
LEMMA AnswerUnchanged ==
  ASSUME AnswerInv,
         UNCHANGED <<unit, latest, overall, mustFix, language, job, attempts, corrupt>>
  PROVE  AnswerInv'
BY DEF AnswerInv, EnvelopesExist, AwaitedIsInFlight, PendingIsAwaited, GenerationsOrdered,
       ScoredIsDone, FailedIsDecided, AttemptsCounted, VerdictsMatch, LatestEval, IsCurrent

-----------------------------------------------------------------------------
(* The learner's actions.                                                    *)

\* A submission writes the rows of a version that had none.
LEMMA SubmitAnswer ==
  ASSUME TypeOK, AnswerInv, NEW c \in Clients, NEW u \in Units, NEW x \in Versions,
         NEW t \in SUBSET Words, Submit(c, u, x, t)
  PROVE  AnswerInv'
<1> DEFINE e == <<u, x>>
<1> USE DEF AnswerInv
<1>1. e \in Evals /\ <<e, 1>> \in Jobs /\ 1 \in Gens /\ e[1] = u /\ e[2] = x /\ e = <<u, x>>
  BY Pairs, Ones
<1>2. x = latest[u] + 1 /\ latest[u] \in Nat
  BY DEF Submit, TypeOK
<1> HIDE DEF e
<1>3. overall[e] = "none" /\ \A g \in Gens : job[<<e, g>>] = "none"
  BY <1>1, <1>2 DEF EnvelopesExist
<1>4. \A d \in Evals : d # e =>
        /\ overall'[d] = overall[d] /\ language'[d] = language[d]
        /\ \A g \in Gens : job'[<<d, g>>] = job[<<d, g>>]
  BY <1>1, Pairs DEF Submit, TypeOK, FirstJob, e
<1>5. /\ overall'[e] = "partial" /\ language'[e] = "queued" /\ job'[<<e, 1>>] = "pending"
      /\ \A g \in Gens : g # 1 => job'[<<e, g>>] = "none"
  BY <1>1, <1>3, Pairs DEF Submit, TypeOK, FirstJob, e
<1>6. /\ latest'[u] = x /\ unit'[u] = "evaluation_pending"
      /\ \A v \in Units : v # u => latest'[v] = latest[v] /\ unit'[v] = unit[v]
  BY DEF Submit, TypeOK
<1>7. UNCHANGED <<corrupt, mustFix, attempts>>
  BY DEF Submit
<1>8. unit[u] # "evaluation_pending"
  BY DEF Submit, Submittable
<1>9. \A d \in Evals : d # e /\ d[1] = u => overall[d] # "partial" /\ d[2] # x
  <2>1. \A d \in Evals : d[1] = u /\ d[2] = x => d = e
    BY <1>1, EvalParts
  <2> QED BY <2>1, <1>8 DEF AwaitedIsInFlight
<1>10. EnvelopesExist'
  <2> SUFFICES ASSUME NEW d \in Evals
               PROVE  /\ overall'[d] = "none" <=> d[2] > latest'[d[1]]
                      /\ overall'[d] = "none" => \A g \in Gens : job'[<<d, g>>] = "none"
                      /\ overall'[d] # "none" => job'[<<d, 1>>] # "none"
    BY DEF EnvelopesExist
  <2>1. CASE d = e
    BY <2>1, <1>1, <1>2, <1>5, <1>6
  <2>2. CASE d # e /\ d[1] # u
    BY <2>2, <1>1, <1>4, <1>6, EvalParts DEF EnvelopesExist
  <2>3. CASE d # e /\ d[1] = u
    <3>1. d[2] \in Nat /\ d[2] # x
      BY <2>3, <1>9, EvalParts DEF Versions
    <3>2. d[2] > x <=> d[2] > latest[u]
      BY <3>1, <1>2
    <3> QED BY <2>3, <3>2, <1>1, <1>4, <1>6 DEF EnvelopesExist
  <2> QED BY <2>1, <2>2, <2>3
<1>11. AwaitedIsInFlight'
  <2> SUFFICES ASSUME NEW d \in Evals, overall'[d] = "partial"
               PROVE  /\ d[2] = latest'[d[1]]
                      /\ unit'[d[1]] = "evaluation_pending"
                      /\ job'[<<d, 1>>] \in Active
    BY DEF AwaitedIsInFlight, IsCurrent
  <2>1. CASE d = e
    BY <2>1, <1>1, <1>5, <1>6 DEF Active
  <2>2. CASE d # e
    BY <2>2, <1>1, <1>4, <1>6, <1>9, EvalParts DEF AwaitedIsInFlight, IsCurrent
  <2> QED BY <2>1, <2>2
<1>12. PendingIsAwaited'
  <2> SUFFICES ASSUME NEW v \in Units, unit'[v] = "evaluation_pending"
               PROVE  latest'[v] > 0 /\ overall'[<<v, latest'[v]>>] = "partial"
    BY DEF PendingIsAwaited, LatestEval
  <2>1. CASE v = u
    BY <2>1, <1>1, <1>2, <1>5, <1>6
  <2>2. CASE v # u
    <3>1. unit[v] = "evaluation_pending" /\ latest'[v] = latest[v]
      BY <2>2, <1>6
    <3>2. latest[v] > 0 /\ overall[LatestEval(v)] = "partial"
      BY <3>1 DEF PendingIsAwaited
    <3>3. LatestEval(v) \in Evals /\ LatestEval(v) # e
      BY <2>2, <3>2, <1>1, Latest
    <3> QED BY <3>1, <3>2, <3>3, <1>4 DEF LatestEval
  <2> QED BY <2>1, <2>2
<1>13. GenerationsOrdered'
  <2> SUFFICES ASSUME NEW d \in Evals, NEW g \in Gens, NEW h \in Gens,
                      g < h, job'[<<d, h>>] # "none"
               PROVE  job'[<<d, g>>] = "failed"
    BY DEF GenerationsOrdered
  <2>1. d # e
    BY <1>5 DEF Gens
  <2> QED BY <2>1, <1>4 DEF GenerationsOrdered
<1>14. ScoredIsDone'
  <2> SUFFICES ASSUME NEW d \in Evals
               PROVE  /\ overall'[d] = "completed" <=> language'[d] = "completed"
                      /\ overall'[d] = "completed" => job'[<<d, 1>>] = "done"
                      /\ d \in mustFix => overall'[d] = "completed"
    BY <1>7 DEF ScoredIsDone
  <2>1. CASE d = e
    BY <2>1, <1>3, <1>5 DEF ScoredIsDone
  <2>2. CASE d # e
    BY <2>2, <1>1, <1>4 DEF ScoredIsDone
  <2> QED BY <2>1, <2>2
<1>15. FailedIsDecided'
  <2> SUFFICES ASSUME NEW k \in Jobs, job'[k] = "failed"
               PROVE  overall'[EvalOf(k)] \in Terminal \ {"completed"}
    BY DEF FailedIsDecided
  <2>1. EvalOf(k) # e
    BY <1>5, JobParts
  <2> QED BY <2>1, <1>4, JobParts DEF FailedIsDecided
<1>16. AttemptsCounted'
  <2> SUFFICES ASSUME NEW k \in Jobs
               PROVE  /\ job'[k] = "none" => attempts[k] = 0
                      /\ job'[k] = "pending" => attempts[k] < MaxAttempts
    BY <1>7 DEF AttemptsCounted
  <2>1. CASE EvalOf(k) = e
    BY <2>1, <1>3, <1>5, JobParts, MaxAttemptsAssumption DEF AttemptsCounted
  <2>2. CASE EvalOf(k) # e
    BY <2>2, <1>4, JobParts DEF AttemptsCounted
  <2> QED BY <2>1, <2>2
<1>17. VerdictsMatch'
  <2> SUFFICES ASSUME NEW v \in Units, v # u
               PROVE  (LET d == LatestEval(v)
                       IN /\ unit[v] \in {"ready", "rewrite_required", "evaluation_failed"} =>
                               latest[v] > 0 /\ overall[d] \in Terminal
                          /\ unit[v] = "ready" =>
                               d \notin mustFix /\ (overall[d] = "failed" => d \in corrupt)
                          /\ unit[v] = "rewrite_required" =>
                               overall[d] = "completed" /\ d \in mustFix
                          /\ unit[v] = "evaluation_failed" =>
                               d \in corrupt /\ overall[d] # "completed")'
    BY <1>6 DEF VerdictsMatch
  <2>1. LatestEval(v)' = LatestEval(v)
    BY <1>6 DEF LatestEval
  <2>2. latest[v] > 0 => LatestEval(v) \in Evals /\ LatestEval(v) # e
    BY <1>1, Latest
  <2> QED BY <2>1, <2>2, <1>4, <1>6, <1>7 DEF VerdictsMatch
<1> QED
  BY <1>10, <1>11, <1>12, <1>13, <1>14, <1>15, <1>16, <1>17

\* Reopening a decided unit says nothing about its answers.
LEMMA ReopenAnswer ==
  ASSUME TypeOK, AnswerInv, NEW u \in Units, Reopen(u)
  PROVE  AnswerInv'
<1> USE DEF AnswerInv
<1>1. UNCHANGED <<latest, overall, mustFix, language, job, attempts, corrupt>>
  BY DEF Reopen, evalVars, jobVars
<1>2. unit[u] = "ready" /\ unit'[u] = "draft" /\ \A v \in Units : v # u => unit'[v] = unit[v]
  BY DEF Reopen, Reopenable, TypeOK
<1>3. EnvelopesExist' /\ GenerationsOrdered' /\ ScoredIsDone' /\ FailedIsDecided' /\ AttemptsCounted'
  BY <1>1 DEF EnvelopesExist, GenerationsOrdered, ScoredIsDone, FailedIsDecided, AttemptsCounted
<1>4. AwaitedIsInFlight'
  BY <1>1, <1>2, EvalParts DEF AwaitedIsInFlight, IsCurrent
<1>5. PendingIsAwaited'
  BY <1>1, <1>2 DEF PendingIsAwaited, LatestEval
<1>6. VerdictsMatch'
  BY <1>1, <1>2 DEF VerdictsMatch, LatestEval
<1> QED BY <1>3, <1>4, <1>5, <1>6

-----------------------------------------------------------------------------
(* The queue.                                                                *)

\* Moving the newest job of an unscored answer between the queue and the passes,
\* or acknowledging the job of a decided one, changes nothing the rows say.
LEMMA JobMoves ==
  ASSUME TypeOK, AnswerInv, NEW j \in Jobs, NEW s \in {"pending", "running", "done"},
         job' = [job EXCEPT ![j] = s],
         UNCHANGED <<unit, latest, overall, mustFix, corrupt>>,
         \A e \in Evals : language'[e] = "completed" <=> language[e] = "completed",
         \A k \in Jobs : k # j => attempts'[k] = attempts[k],
         s = "pending" => attempts'[j] < MaxAttempts,
         overall[EvalOf(j)] \notin {"none", "completed"},
         overall[EvalOf(j)] = "partial" => s \in Active,
         \A g \in Gens : g < j[2] => job[<<EvalOf(j), g>>] = "failed",
         \A g \in Gens : g > j[2] => job[<<EvalOf(j), g>>] = "none"
  PROVE  AnswerInv'
<1> DEFINE e == EvalOf(j)
<1> USE DEF AnswerInv
<1>1. e \in Evals /\ j[2] \in Gens /\ j = <<e, j[2]>>
  BY JobParts
<1>2. job'[j] = s /\ \A k \in Jobs : k # j => job'[k] = job[k]
  BY DEF TypeOK
<1>3. \A d \in Evals : d # e => \A g \in Gens : job'[<<d, g>>] = job[<<d, g>>]
  BY <1>1, <1>2, Pairs
<1>4. \A g \in Gens : g # j[2] => job'[<<e, g>>] = job[<<e, g>>]
  BY <1>1, <1>2, Pairs
<1> HIDE DEF e
<1>5. EnvelopesExist'
  <2> SUFFICES ASSUME NEW d \in Evals
               PROVE  /\ overall[d] = "none" <=> d[2] > latest[d[1]]
                      /\ overall[d] = "none" => \A g \in Gens : job'[<<d, g>>] = "none"
                      /\ overall[d] # "none" => job'[<<d, 1>>] # "none"
    BY DEF EnvelopesExist
  <2>1. CASE d # e
    BY <2>1, <1>3, Ones DEF EnvelopesExist
  <2>2. CASE d = e
    <3>1. overall[d] # "none" /\ (overall[d] = "none" <=> d[2] > latest[d[1]]) /\ job[<<d, 1>>] # "none"
      BY <2>2 DEF EnvelopesExist, e
    <3>2. job'[<<d, 1>>] # "none"
      BY <2>2, <3>1, <1>1, <1>2, <1>4, Ones
    <3> QED BY <3>1, <3>2
  <2> QED BY <2>1, <2>2
<1>6. AwaitedIsInFlight'
  <2> SUFFICES ASSUME NEW d \in Evals, overall[d] = "partial"
               PROVE  IsCurrent(d) /\ unit[d[1]] = "evaluation_pending" /\ job'[<<d, 1>>] \in Active
    BY DEF AwaitedIsInFlight, IsCurrent
  <2>1. IsCurrent(d) /\ unit[d[1]] = "evaluation_pending" /\ job[<<d, 1>>] \in Active
    BY DEF AwaitedIsInFlight
  <2>2. CASE d # e
    BY <2>1, <2>2, <1>3, Ones
  <2>3. CASE d = e
    BY <2>1, <2>3, <1>1, <1>2, <1>4, Ones DEF e
  <2> QED BY <2>1, <2>2, <2>3
<1>7. PendingIsAwaited' /\ VerdictsMatch'
  BY DEF PendingIsAwaited, VerdictsMatch, LatestEval
<1>8. GenerationsOrdered'
  <2> SUFFICES ASSUME NEW d \in Evals, NEW g \in Gens, NEW h \in Gens,
                      g < h, job'[<<d, h>>] # "none"
               PROVE  job'[<<d, g>>] = "failed"
    BY DEF GenerationsOrdered
  <2>1. CASE d # e
    BY <2>1, <1>3 DEF GenerationsOrdered
  <2>2. CASE d = e /\ h = j[2]
    BY <2>2, <1>1, <1>4 DEF e, Gens
  <2>3. CASE d = e /\ h # j[2]
    <3>1. job[<<e, h>>] # "none" /\ h < j[2]
      BY <2>3, <1>1, <1>4 DEF e, Gens
    <3> QED BY <2>3, <3>1, <1>1, <1>4 DEF GenerationsOrdered, Gens
  <2> QED BY <2>1, <2>2, <2>3
<1>9. ScoredIsDone'
  <2> SUFFICES ASSUME NEW d \in Evals, overall[d] = "completed"
               PROVE  job'[<<d, 1>>] = "done"
    BY DEF ScoredIsDone
  <2>1. d # e
    BY DEF e
  <2> QED BY <2>1, <1>3, Ones DEF ScoredIsDone
<1>10. FailedIsDecided'
  BY <1>2 DEF FailedIsDecided
<1>11. AttemptsCounted'
  BY <1>2 DEF AttemptsCounted
<1> QED BY <1>5, <1>6, <1>7, <1>8, <1>9, <1>10, <1>11

\* A claim takes a queued job and counts the attempt.
LEMMA ClaimAnswer ==
  ASSUME TypeOK, AnswerInv, NEW w \in Workers, NEW j \in Jobs, Claim(w, j)
  PROVE  AnswerInv'
<1>1. job[j] \in Active /\ EvalOf(j) \in Evals
  BY JobParts DEF Claim, Active
<1>2. \A e \in Evals : language'[e] = "completed" <=> language[e] = "completed"
  BY <1>1 DEF Claim, TypeOK
<1>3. /\ job' = [job EXCEPT ![j] = "running"]
      /\ UNCHANGED <<unit, latest, overall, mustFix, corrupt>>
      /\ \A k \in Jobs : k # j => attempts'[k] = attempts[k]
  BY DEF Claim, unitVars, TypeOK
<1> QED BY <1>1, <1>2, <1>3, ActiveJob, JobMoves DEF Active

\* A requeued job has an attempt left.
LEMMA RequeueAnswer ==
  ASSUME TypeOK, AnswerInv, NEW j \in Jobs, job[j] = "running", RetriesLeft(j), Requeue(j)
  PROVE  AnswerInv'
<1>1. job[j] \in Active /\ EvalOf(j) \in Evals
  BY JobParts DEF Active
<1>2. \A e \in Evals : language'[e] = "completed" <=> language[e] = "completed"
  BY <1>1 DEF Requeue, TypeOK
<1>3. /\ job' = [job EXCEPT ![j] = "pending"]
      /\ UNCHANGED <<unit, latest, overall, mustFix, corrupt, attempts>>
      /\ attempts[j] < MaxAttempts
  BY DEF Requeue, Release, RetriesLeft, unitVars
<1> QED BY <1>1, <1>2, <1>3, ActiveJob, JobMoves DEF Active

\* The replay guard only acknowledges jobs of decided answers.
LEMMA ReplayAnswer ==
  ASSUME TypeOK, AnswerInv, NEW w \in Workers, Replay(w)
  PROVE  AnswerInv'
<1> DEFINE j == worker[w].job
<1>1. j \in Jobs /\ job[j] \in Active
  BY DEF TypeOK, Pass, Replay, Owns, Active
<1>2. overall[EvalOf(j)] # "partial"
  BY DEF Replay, AlreadyDecided, Terminal
<1>3. /\ job' = [job EXCEPT ![j] = "done"]
      /\ UNCHANGED <<unit, latest, overall, mustFix, corrupt, attempts, language>>
  BY DEF Replay, unitVars, evalVars
<1> HIDE DEF j
<1> QED BY <1>1, <1>2, <1>3, ActiveJob, JobMoves

\* Recovery mints a generation above a failed one, for a decided answer.
LEMMA RecoverAnswer ==
  ASSUME TypeOK, AnswerInv, NEW e \in Evals, NEW g \in 1..MaxGen, Recover(e, g)
  PROVE  AnswerInv'
<1> DEFINE j == <<e, g + 1>>
<1> USE DEF AnswerInv
<1>1. g \in Gens /\ g + 1 \in Gens /\ <<e, g>> \in Jobs /\ j \in Jobs
      /\ EvalOf(j) = e /\ j[2] = g + 1 /\ EvalOf(<<e, g>>) = e
  BY Pairs DEF Recover, Gens
<1>2. job[<<e, g>>] = "failed" /\ job[j] = "none"
  BY DEF Recover, Recoverable
<1>3. overall[e] \notin {"none", "completed", "partial"}
  BY <1>1, <1>2 DEF FailedIsDecided, Terminal
<1>4. \A h \in Gens : h < g + 1 => job[<<e, h>>] = "failed"
  BY <1>1, <1>2 DEF GenerationsOrdered, Gens
<1>5. \A h \in Gens : h > g + 1 => job[<<e, h>>] = "none"
  BY <1>1, <1>2 DEF GenerationsOrdered, Gens
<1>6. /\ job' = [job EXCEPT ![j] = "pending"]
      /\ UNCHANGED <<unit, latest, overall, mustFix, corrupt, attempts>>
  BY DEF Recover, unitVars
<1>7. \A d \in Evals : language'[d] = "completed" <=> language[d] = "completed"
  BY DEF Recover, TypeOK
<1>8. attempts[j] < MaxAttempts
  BY <1>1, <1>2, MaxAttemptsAssumption DEF AttemptsCounted
<1> HIDE DEF j
<1> QED BY <1>1, <1>3, <1>4, <1>5, <1>6, <1>7, <1>8, JobMoves DEF AnswerInv

\* Corruption only adds to the corrupt answers.
LEMMA CorruptAnswer ==
  ASSUME TypeOK, AnswerInv, NEW e \in Evals, Corrupt(e)
  PROVE  AnswerInv'
<1> USE DEF AnswerInv
<1>1. /\ UNCHANGED <<unit, latest, overall, mustFix, language, job, attempts>>
      /\ corrupt \subseteq corrupt'
  BY DEF Corrupt, evalVars, jobVars
<1>2. EnvelopesExist' /\ GenerationsOrdered' /\ ScoredIsDone' /\ FailedIsDecided' /\ AttemptsCounted'
  BY <1>1 DEF EnvelopesExist, GenerationsOrdered, ScoredIsDone, FailedIsDecided, AttemptsCounted
<1>3. AwaitedIsInFlight' /\ PendingIsAwaited'
  BY <1>1 DEF AwaitedIsInFlight, IsCurrent, PendingIsAwaited, LatestEval
<1>4. VerdictsMatch'
  BY <1>1 DEF VerdictsMatch, LatestEval
<1> QED BY <1>2, <1>3, <1>4

-----------------------------------------------------------------------------
(* Verdicts: the score, the fallback and the rejection.                      *)

\* A transaction that decides an answer and ends its running job keeps the rows
\* consistent, provided it moves a waiting unit and scores an undecided answer only.
LEMMA Decided ==
  ASSUME TypeOK, AnswerInv, NEW j \in Jobs, job[j] = "running",
         NEW d \in Terminal, NEW seen, NEW target \in UnitStatuses, NEW fix \in BOOLEAN,
         LET e == EvalOf(j)
         IN /\ overall[e] = "partial" => seen = "evaluation_pending"
            /\ d = "completed" => overall[e] = "partial"
            /\ d = "failed" => e \in corrupt
            /\ fix => d = "completed"
            /\ overall' = [overall EXCEPT ![e] = d]
            /\ language' = [language EXCEPT ![e] =
                              IF d = "completed" THEN "completed" ELSE "failed"]
            /\ job' = [job EXCEPT ![j] = IF d = "completed" THEN "done" ELSE "failed"]
            /\ mustFix' = IF fix THEN mustFix \cup {e} ELSE mustFix
            /\ MoveUnit(e, seen, target),
         target = CASE d = "failed" -> "evaluation_failed"
                    [] d = "completed" /\ fix -> "rewrite_required"
                    [] OTHER -> "ready",
         UNCHANGED <<latest, attempts, corrupt>>
  PROVE  AnswerInv'
<1> DEFINE e == EvalOf(j)
           u == e[1]
           s == IF d = "completed" THEN "done" ELSE "failed"
<1> USE DEF AnswerInv
<1>1. /\ e \in Evals /\ u \in Units /\ j[2] \in Gens /\ j = <<e, j[2]>>
      /\ e = <<u, e[2]>> /\ e[2] \in Versions
  BY JobParts, EvalParts
<1>2. /\ overall[e] \notin {"none", "completed"} /\ e \notin mustFix
      /\ overall[e] = "partial" => j = <<e, 1>>
      /\ \A g \in Gens : g < j[2] => job[<<e, g>>] = "failed"
      /\ \A g \in Gens : g > j[2] => job[<<e, g>>] = "none"
  BY ActiveJob DEF Active
<1>3. /\ overall'[e] = d /\ \A x \in Evals : x # e => overall'[x] = overall[x]
      /\ language'[e] = "completed" <=> d = "completed"
      /\ \A x \in Evals : x # e => language'[x] = language[x]
  BY <1>1 DEF TypeOK
<1>4. job'[j] = s /\ \A k \in Jobs : k # j => job'[k] = job[k]
  BY DEF TypeOK
<1>5. \A x \in Evals : x # e => \A g \in Gens : job'[<<x, g>>] = job[<<x, g>>]
  BY <1>1, <1>4, Pairs
<1>6. \A g \in Gens : g # j[2] => job'[<<e, g>>] = job[<<e, g>>]
  BY <1>1, <1>4, Pairs
<1>7. /\ \A v \in Units : v # u => unit'[v] = unit[v]
      /\ IF IsCurrent(e) /\ seen = "evaluation_pending"
         THEN unit'[u] = target ELSE unit'[u] = unit[u]
  BY <1>1 DEF MoveUnit, TypeOK
<1>8. \A x \in Evals : x # e => (x \in mustFix' <=> x \in mustFix)
  OBVIOUS
<1>9. e \in mustFix' <=> fix
  BY <1>2
<1>10. unit[u] = "evaluation_pending" => latest[u] > 0 /\ overall[LatestEval(u)] = "partial"
  BY <1>1 DEF PendingIsAwaited
<1> HIDE DEF e, u, s
<1>11. EnvelopesExist'
  <2> SUFFICES ASSUME NEW x \in Evals
               PROVE  /\ overall'[x] = "none" <=> x[2] > latest[x[1]]
                      /\ overall'[x] = "none" => \A g \in Gens : job'[<<x, g>>] = "none"
                      /\ overall'[x] # "none" => job'[<<x, 1>>] # "none"
    BY DEF EnvelopesExist
  <2>1. CASE x # e
    BY <2>1, <1>3, <1>5, Ones DEF EnvelopesExist
  <2>2. CASE x = e
    <3>1. overall'[x] # "none" /\ ~(x[2] > latest[x[1]]) /\ job[<<e, 1>>] # "none"
      BY <2>2, <1>1, <1>2, <1>3 DEF EnvelopesExist, Terminal
    <3>2. job'[<<e, 1>>] # "none"
      BY <3>1, <1>1, <1>4, <1>6, Ones DEF s
    <3> QED BY <2>2, <3>1, <3>2
  <2> QED BY <2>1, <2>2
<1>12. AwaitedIsInFlight'
  <2> SUFFICES ASSUME NEW x \in Evals, overall'[x] = "partial"
               PROVE  /\ IsCurrent(x)' /\ unit'[x[1]] = "evaluation_pending"
                      /\ job'[<<x, 1>>] \in Active
    BY DEF AwaitedIsInFlight
  <2>1. x # e
    BY <1>3 DEF Terminal
  <2>2. /\ x[2] = latest[x[1]] /\ unit[x[1]] = "evaluation_pending"
        /\ job[<<x, 1>>] \in Active /\ x = <<x[1], x[2]>>
    BY <2>1, <1>3, EvalParts DEF AwaitedIsInFlight, IsCurrent
  <2>3. unit'[x[1]] = "evaluation_pending"
    BY <2>1, <2>2, <1>1, <1>7, EvalParts DEF IsCurrent
  <2> QED BY <2>1, <2>2, <2>3, <1>5, Ones DEF IsCurrent
<1>13. PendingIsAwaited'
  <2> SUFFICES ASSUME NEW v \in Units, unit'[v] = "evaluation_pending"
               PROVE  latest[v] > 0 /\ overall'[LatestEval(v)] = "partial"
    BY DEF PendingIsAwaited, LatestEval
  <2>1. unit[v] = "evaluation_pending"
    BY <1>7
  <2>2. latest[v] > 0 /\ overall[LatestEval(v)] = "partial"
    BY <2>1 DEF PendingIsAwaited
  <2>3. LatestEval(v) \in Evals /\ LatestEval(v)[1] = v
    BY <2>2, Latest
  <2>4. LatestEval(v) # e
    <3> SUFFICES ASSUME LatestEval(v) = e PROVE FALSE
      OBVIOUS
    <3>1. u = v /\ IsCurrent(e) /\ seen = "evaluation_pending"
      BY <2>2, <2>3, <1>1, Latest DEF e, u, IsCurrent
    <3> QED BY <3>1, <1>7
  <2> QED BY <2>2, <2>3, <2>4, <1>3
<1>14. GenerationsOrdered'
  <2> SUFFICES ASSUME NEW x \in Evals, NEW g \in Gens, NEW h \in Gens,
                      g < h, job'[<<x, h>>] # "none"
               PROVE  job'[<<x, g>>] = "failed"
    BY DEF GenerationsOrdered
  <2>1. CASE x # e
    BY <2>1, <1>5 DEF GenerationsOrdered
  <2>2. CASE x = e /\ h = j[2]
    BY <2>2, <1>2, <1>6 DEF Gens
  <2>3. CASE x = e /\ h # j[2]
    <3>1. h < j[2]
      BY <2>3, <1>1, <1>2, <1>6 DEF Gens
    <3> QED BY <2>3, <3>1, <1>1, <1>2, <1>6 DEF Gens
  <2> QED BY <2>1, <2>2, <2>3
<1>15. ScoredIsDone'
  <2> SUFFICES ASSUME NEW x \in Evals
               PROVE  /\ overall'[x] = "completed" <=> language'[x] = "completed"
                      /\ overall'[x] = "completed" => job'[<<x, 1>>] = "done"
                      /\ x \in mustFix' => overall'[x] = "completed"
    BY DEF ScoredIsDone
  <2>1. CASE x # e
    BY <2>1, <1>3, <1>5, <1>8, Ones DEF ScoredIsDone
  <2>2. CASE x = e
    BY <2>2, <1>2, <1>3, <1>4, <1>9 DEF e, s
  <2> QED BY <2>1, <2>2
<1>16. FailedIsDecided'
  <2> SUFFICES ASSUME NEW k \in Jobs, job'[k] = "failed"
               PROVE  overall'[EvalOf(k)] \in Terminal \ {"completed"}
    BY DEF FailedIsDecided
  <2>1. CASE EvalOf(k) # e
    BY <2>1, <1>3, <1>4, JobParts DEF FailedIsDecided, e
  <2>2. CASE EvalOf(k) = e /\ d # "completed"
    BY <2>2, <1>3
  <2>3. CASE EvalOf(k) = e /\ d = "completed"
    <3>1. k # j /\ overall[e] = "partial"
      BY <2>3, <1>4 DEF e, s
    <3> QED BY <2>3, <3>1, <1>4 DEF FailedIsDecided, Terminal
  <2> QED BY <2>1, <2>2, <2>3
<1>17. AttemptsCounted'
  BY <1>4 DEF AttemptsCounted, s
<1>18. VerdictsMatch'
  <2> SUFFICES ASSUME NEW v \in Units
               PROVE  (LET x == LatestEval(v)
                       IN /\ unit[v] \in {"ready", "rewrite_required", "evaluation_failed"} =>
                               latest[v] > 0 /\ overall[x] \in Terminal
                          /\ unit[v] = "ready" =>
                               x \notin mustFix /\ (overall[x] = "failed" => x \in corrupt)
                          /\ unit[v] = "rewrite_required" =>
                               overall[x] = "completed" /\ x \in mustFix
                          /\ unit[v] = "evaluation_failed" =>
                               x \in corrupt /\ overall[x] # "completed")'
    BY DEF VerdictsMatch
  <2> DEFINE x == LatestEval(v)
  <2>1. x' = x
    BY DEF LatestEval
  <2>2. latest[v] > 0 => x \in Evals /\ x[1] = v
    BY Latest
  <2>3. CASE x # e
    <3>1. unit'[v] = unit[v]
      <4>1. CASE v # u
        BY <4>1, <1>7
      <4>2. CASE v = u
        <5>1. ~IsCurrent(e)
          BY <2>3, <4>2, <1>1, CurrentIsLatest DEF u
        <5> QED BY <5>1, <4>2, <1>7
      <4> QED BY <4>1, <4>2
    <3> QED BY <2>1, <2>2, <2>3, <3>1, <1>3, <1>8 DEF VerdictsMatch
  <2>4. CASE x = e
    <3>1. v = u /\ IsCurrent(e) /\ latest[v] > 0
      BY <2>4, <1>1 DEF LatestEval, IsCurrent, u, Versions
    <3>2. overall'[x] = d /\ x' = e
      BY <2>1, <2>4, <1>3
    <3>3. CASE seen = "evaluation_pending"
      BY <3>1, <3>2, <3>3, <2>4, <1>7, <1>9 DEF Terminal, e
    <3>4. CASE seen # "evaluation_pending"
      <4>1. unit'[v] = unit[v] /\ overall[e] # "partial" /\ d # "completed"
        BY <3>1, <3>4, <1>7 DEF e
      <4>2. unit[v] # "rewrite_required"
        BY <2>4, <1>2 DEF VerdictsMatch
      <4> QED BY <3>1, <3>2, <4>1, <4>2, <2>4, <1>9 DEF VerdictsMatch, e
    <3> QED BY <3>3, <3>4
  <2> QED BY <2>3, <2>4
<1> QED
  BY <1>11, <1>12, <1>13, <1>14, <1>15, <1>16, <1>17, <1>18

\* Giving up an exhausted job leaves the deterministic result.
LEMMA TerminalizeAnswer ==
  ASSUME TypeOK, AnswerInv, NEW j \in Jobs, job[j] = "running", Terminalize(j)
  PROVE  AnswerInv'
<1> DEFINE e == EvalOf(j)
           seen == unit[e[1]]
<1>1. e \in Evals
  BY JobParts
<1>2. overall[e] = "partial" => seen = "evaluation_pending"
  BY <1>1 DEF AnswerInv, AwaitedIsInFlight
<1>3. /\ overall' = [overall EXCEPT ![e] = "terminal_partial"]
      /\ language' = [language EXCEPT ![e] = "failed"]
      /\ job' = [job EXCEPT ![j] = "failed"]
      /\ MoveUnit(e, seen, "ready")
      /\ UNCHANGED <<latest, attempts, corrupt, mustFix>>
  BY DEF Terminalize, Release
<1> HIDE DEF seen
<1> QED
  BY <1>2, <1>3, Decided DEF Terminal, UnitStatuses

\* A completion that passes the fence and the replay guard scores the answer.
LEMMA CompleteAnswer ==
  ASSUME TypeOK, AnswerInv, ClaimInv, NEW w \in Workers, NEW blocking \in BOOLEAN,
         NEW evidence \in BOOLEAN, Complete(w, blocking, evidence)
  PROVE  AnswerInv'
<1> DEFINE j == worker[w].job
           e == EvalOf(j)
<1>1. j \in Jobs /\ e \in Evals /\ job[j] = "running"
  BY JobParts DEF TypeOK, Pass, Complete, Owns
<1>2. overall[e] = "partial"
  BY <1>1, ActiveJob DEF Active, Complete, AlreadyDecided, TypeOK, OverallStatuses, Terminal
<1>3. worker[w].seen = "evaluation_pending"
  BY <1>2 DEF Complete, ClaimInv, SeenIsPending
<1>4. IsCurrent(e)
  BY <1>1, <1>2 DEF AnswerInv, AwaitedIsInFlight
<1>5. /\ overall' = [overall EXCEPT ![e] = "completed"]
      /\ language' = [language EXCEPT ![e] = "completed"]
      /\ job' = [job EXCEPT ![j] = "done"]
      /\ mustFix' = IF blocking THEN mustFix \cup {e} ELSE mustFix
      /\ MoveUnit(e, worker[w].seen, CompletionTarget(blocking))
      /\ UNCHANGED <<latest, attempts, corrupt>>
  BY <1>4 DEF Complete, Release
<1> HIDE DEF j
<1> QED
  BY <1>1, <1>2, <1>3, <1>5, Decided DEF Terminal, UnitStatuses, CompletionTarget

\* A rejection that passes the fence fails a corrupt answer.
LEMMA RejectAnswer ==
  ASSUME TypeOK, AnswerInv, ClaimInv, NEW w \in Workers, Reject(w)
  PROVE  AnswerInv'
<1> DEFINE j == worker[w].job
           e == EvalOf(j)
<1>1. j \in Jobs /\ e \in Evals /\ job[j] = "running"
  BY JobParts DEF TypeOK, Pass, Reject, Owns
<1>2. overall[e] = "partial" => worker[w].seen = "evaluation_pending"
  BY DEF Reject, ClaimInv, SeenIsPending
<1>3. e \in corrupt
  BY DEF Reject, ClaimInv, DamageIsReal
<1>4. /\ overall' = [overall EXCEPT ![e] = "failed"]
      /\ language' = [language EXCEPT ![e] = "failed"]
      /\ job' = [job EXCEPT ![j] = "failed"]
      /\ MoveUnit(e, worker[w].seen, "evaluation_failed")
      /\ UNCHANGED <<latest, attempts, corrupt, mustFix>>
  BY DEF Reject, Release
<1> HIDE DEF j
<1> QED
  BY <1>1, <1>2, <1>3, <1>4, Decided DEF Terminal, UnitStatuses

-----------------------------------------------------------------------------
(* What the passes know.                                                     *)

\* Steps of other actors that start no claim keep what the passes know.
LEMMA ClaimsUnchanged ==
  ASSUME ClaimInv, UNCHANGED <<worker, job, token, attempts>>, corrupt \subseteq corrupt',
         \A w \in Workers :
           LET e == EvalOf(worker[w].job)
           IN Owns(w) /\ overall'[e] = "partial" => overall[e] = "partial"
  PROVE  ClaimInv'
<1> USE DEF ClaimInv
<1>1. TokensCurrent' /\ ClaimsPast' /\ ClaimsDistinct' /\ DamageIsReal'
  BY DEF TokensCurrent, ClaimsPast, ClaimsDistinct, DamageIsReal
<1>2. SeenIsPending'
  BY DEF SeenIsPending, Owns
<1> QED BY <1>1, <1>2

\* A job that leaves "running" is owned by nobody.
LEMMA ClaimsReleased ==
  ASSUME TypeOK, ClaimInv, NEW j \in Jobs, NEW s \in JobStatuses \ {"none", "running"},
         job' = [job EXCEPT ![j] = s],
         \A k \in Jobs : k # j => token'[k] = token[k],
         UNCHANGED <<attempts, corrupt>>,
         \A e \in Evals : e # EvalOf(j) => overall'[e] = overall[e],
         overall'[EvalOf(j)] = "partial" => overall[EvalOf(j)] = "partial",
         \A w \in Workers :
           \/ worker'[w] = worker[w]
           \/ worker'[w].phase = "idle"
           \/ /\ worker'[w].phase = "failing" /\ worker[w].phase # "idle"
              /\ worker'[w].job = worker[w].job /\ worker'[w].token = worker[w].token
  PROVE  ClaimInv'
<1> USE DEF ClaimInv
<1>1. job'[j] = s /\ \A k \in Jobs : k # j => job'[k] = job[k]
  BY DEF TypeOK
<1>2. \A w \in Workers : worker[w].job \in Jobs
  BY DEF TypeOK, Pass
<1>3. TokensCurrent'
  BY <1>1 DEF TokensCurrent
<1>4. ClaimsPast'
  BY <1>1, <1>2 DEF ClaimsPast
<1>5. ClaimsDistinct'
  BY DEF ClaimsDistinct
<1>6. SeenIsPending'
  <2> SUFFICES ASSUME NEW w \in Workers, worker'[w].phase \in {"completing", "rejecting"},
                      Owns(w)', overall'[EvalOf(worker'[w].job)] = "partial"
               PROVE  worker'[w].seen = "evaluation_pending"
    BY DEF SeenIsPending, EvalOf
  <2>1. worker'[w] = worker[w]
    OBVIOUS
  <2>2. worker[w].job # j
    BY <2>1, <1>1 DEF Owns
  <2>3. Owns(w)
    BY <2>1, <2>2, <1>1, <1>2 DEF Owns
  <2>4. overall[EvalOf(worker[w].job)] = "partial"
    BY <2>1, <1>2, JobParts
  <2> QED BY <2>1, <2>3, <2>4 DEF SeenIsPending
<1>7. DamageIsReal'
  BY DEF DamageIsReal
<1> QED BY <1>3, <1>4, <1>5, <1>6, <1>7

\* A pass that only changes phase, or ends, learns at most the unit it reads.
LEMMA PhaseMoves ==
  ASSUME TypeOK, ClaimInv, AnswerInv, NEW w \in Workers,
         UNCHANGED <<job, token, attempts, overall, corrupt>>,
         \A v \in Workers : v # w => worker'[v] = worker[v],
         \/ worker'[w].phase = "idle"
         \/ /\ worker'[w].job = worker[w].job /\ worker'[w].token = worker[w].token
            /\ worker[w].phase # "idle"
            /\ \/ worker'[w].phase = "failing"
               \/ /\ worker'[w].phase = "completing"
                  /\ worker'[w].seen = unit[EvalOf(worker[w].job)[1]]
               \/ /\ worker'[w].phase = "rejecting" /\ worker[w].phase = "damaged"
                  /\ worker'[w].seen = unit[EvalOf(worker[w].job)[1]]
  PROVE  ClaimInv'
<1> USE DEF ClaimInv
<1>1. TokensCurrent'
  BY DEF TokensCurrent
<1>2. ClaimsPast'
  BY DEF ClaimsPast
<1>3. ClaimsDistinct'
  BY DEF ClaimsDistinct
<1>4. SeenIsPending'
  <2> SUFFICES ASSUME NEW v \in Workers, worker'[v].phase \in {"completing", "rejecting"},
                      Owns(v)', overall[EvalOf(worker'[v].job)] = "partial"
               PROVE  worker'[v].seen = "evaluation_pending"
    BY DEF SeenIsPending, EvalOf
  <2>1. CASE v # w
    BY <2>1 DEF SeenIsPending, Owns
  <2>2. CASE v = w
    <3>1. worker'[w].job = worker[w].job /\ worker[w].job \in Jobs
          /\ worker'[w].seen = unit[EvalOf(worker[w].job)[1]]
      BY <2>2 DEF TypeOK, Pass
    <3> QED BY <2>2, <3>1, JobParts DEF AnswerInv, AwaitedIsInFlight
  <2> QED BY <2>1, <2>2
<1>5. DamageIsReal'
  BY DEF DamageIsReal
<1> QED BY <1>1, <1>2, <1>3, <1>4, <1>5

\* A claim mints a token no pass holds.
LEMMA ClaimClaims ==
  ASSUME TypeOK, ClaimInv, NEW w \in Workers, NEW j \in Jobs, Claim(w, j)
  PROVE  ClaimInv'
<1> USE DEF ClaimInv
<1>1. /\ job'[j] = "running" /\ attempts'[j] = attempts[j] + 1 /\ token'[j] = attempts[j] + 1
      /\ attempts[j] \in Nat
      /\ \A k \in Jobs : k # j => /\ job'[k] = job[k] /\ attempts'[k] = attempts[k]
                                  /\ token'[k] = token[k]
  BY DEF Claim, TypeOK
<1>2. \A v \in Workers : v # w => worker'[v] = worker[v]
  BY DEF Claim, TypeOK
<1>3. /\ worker'[w].job = j /\ worker'[w].token = attempts[j] + 1
      /\ worker'[w].phase \in {"damaged", "evaluating"}
      /\ worker'[w].phase = "damaged" => EvalOf(j) \in corrupt
  BY DEF Claim, TypeOK, NoPass
<1>4. \A v \in Workers : worker[v].job \in Jobs /\ worker[v].token \in Nat
  BY DEF TypeOK, Pass
<1>5. UNCHANGED <<overall, corrupt>>
  BY DEF Claim, unitVars
<1>6. \A k \in Jobs : attempts[k] \in Nat
  BY DEF TypeOK
<1>7. TokensCurrent'
  BY <1>1 DEF TokensCurrent
<1>8. ClaimsPast'
  <2> SUFFICES ASSUME NEW v \in Workers, worker'[v].phase # "idle"
               PROVE  /\ worker'[v].token \in 1..attempts'[worker'[v].job]
                      /\ job'[worker'[v].job] # "none"
    BY DEF ClaimsPast
  <2>1. CASE v = w
    BY <2>1, <1>1, <1>3
  <2>2. CASE v # w
    <3>1. worker[v].token \in 1..attempts[worker[v].job] /\ job[worker[v].job] # "none"
      BY <2>2, <1>2 DEF ClaimsPast
    <3> QED BY <3>1, <2>2, <1>1, <1>2, <1>4, <1>6
  <2> QED BY <2>1, <2>2
<1>9. \A v \in Workers :
        v # w /\ worker[v].phase # "idle" /\ worker[v].job = j => worker[v].token # attempts[j] + 1
  BY <1>1, <1>4 DEF ClaimsPast
<1>10. ClaimsDistinct'
  BY <1>2, <1>3, <1>9 DEF ClaimsDistinct
<1>11. SeenIsPending'
  <2> SUFFICES ASSUME NEW v \in Workers, worker'[v].phase \in {"completing", "rejecting"},
                      Owns(v)', overall[EvalOf(worker'[v].job)] = "partial"
               PROVE  worker'[v].seen = "evaluation_pending"
    BY <1>5 DEF SeenIsPending, EvalOf
  <2>1. v # w /\ worker'[v] = worker[v]
    BY <1>2, <1>3
  <2>2. worker[v].job # j
    BY <2>1, <1>1, <1>9 DEF Owns
  <2>3. Owns(v)
    BY <2>1, <2>2, <1>1, <1>4 DEF Owns
  <2> QED BY <2>1, <2>3 DEF SeenIsPending
<1>12. DamageIsReal'
  BY <1>2, <1>3, <1>5 DEF DamageIsReal, EvalOf
<1> QED BY <1>7, <1>8, <1>10, <1>11, <1>12

-----------------------------------------------------------------------------
(* The invariant is inductive.                                               *)

\* The invariant holds initially.
LEMMA InitInv == Init => IInv
<1> SUFFICES ASSUME Init PROVE IInv
  OBVIOUS
<1>1. TypeOK
  BY InitType
<1>2. AnswerInv
  <2> USE DEF Init
  <2>1. EnvelopesExist
    BY EvalParts, Pairs DEF EnvelopesExist, Versions
  <2>2. AwaitedIsInFlight /\ PendingIsAwaited /\ ScoredIsDone
    BY DEF AwaitedIsInFlight, PendingIsAwaited, ScoredIsDone
  <2>3. GenerationsOrdered
    BY Pairs DEF GenerationsOrdered
  <2>4. FailedIsDecided /\ AttemptsCounted /\ VerdictsMatch
    BY MaxAttemptsAssumption DEF FailedIsDecided, AttemptsCounted, VerdictsMatch
  <2> QED BY <2>1, <2>2, <2>3, <2>4 DEF AnswerInv
<1>3. ClaimInv
  BY DEF Init, ClaimInv, TokensCurrent, ClaimsPast, ClaimsDistinct, SeenIsPending, DamageIsReal,
         NoPass
<1> QED BY <1>1, <1>2, <1>3 DEF IInv

\* The learner's actions preserve it.
LEMMA LearnerInv ==
  ASSUME IInv, LearnerNext
  PROVE  IInv'
<1> USE DEF IInv
<1>1. TypeOK'
  BY LearnerType
<1>2. ASSUME NEW c \in Clients, NEW u \in Units, NEW x \in Versions, NEW t \in SUBSET Words,
             Submit(c, u, x, t)
      PROVE  AnswerInv' /\ ClaimInv'
  <2> DEFINE e == <<u, x>>
  <2>1. e \in Evals /\ FirstJob(e) \in Jobs /\ e[1] = u /\ e[2] = x /\ EvalOf(FirstJob(e)) = e
    BY Pairs, Ones DEF FirstJob
  <2>2. x > latest[u]
    BY <1>2 DEF Submit, TypeOK
  <2>3. overall[e] = "none" /\ \A g \in Gens : job[<<e, g>>] = "none"
    BY <2>1, <2>2 DEF AnswerInv, EnvelopesExist
  <2>4. \A d \in Evals : d # e => overall'[d] = overall[d]
    BY <1>2, <2>1 DEF Submit, TypeOK
  <2>5. job' = [job EXCEPT ![FirstJob(e)] = "pending"]
    BY <1>2 DEF Submit
  <2>6. UNCHANGED <<worker, token, attempts, corrupt>>
    BY <1>2 DEF Submit
  <2>7. ClaimInv'
    <3>1. \A w \in Workers : worker[w].job \in Jobs
      BY DEF TypeOK, Pass
    <3>2. \A k \in Jobs : k # FirstJob(e) => job'[k] = job[k]
      BY <2>5 DEF TypeOK
    <3>3. job'[FirstJob(e)] = "pending" /\ job[FirstJob(e)] = "none"
      BY <2>1, <2>3, <2>5, Ones DEF TypeOK, FirstJob
    <3> HIDE DEF e
    <3>4. TokensCurrent' /\ ClaimsDistinct' /\ DamageIsReal'
      BY <2>6, <3>2, <3>3 DEF ClaimInv, TokensCurrent, ClaimsDistinct, DamageIsReal
    <3>5. ClaimsPast'
      BY <2>6, <3>1, <3>2, <3>3 DEF ClaimInv, ClaimsPast
    <3>6. SeenIsPending'
      <4> SUFFICES ASSUME NEW w \in Workers, worker[w].phase \in {"completing", "rejecting"},
                          Owns(w)', overall'[EvalOf(worker[w].job)] = "partial"
                   PROVE  worker[w].seen = "evaluation_pending"
        BY <2>6 DEF SeenIsPending
      <4>1. worker[w].job # FirstJob(e) /\ Owns(w)
        BY <2>6, <3>1, <3>2, <3>3 DEF Owns
      <4>2. EvalOf(worker[w].job) # e
        <5>1. job[worker[w].job] = "running"
          BY <4>1 DEF Owns
        <5> QED BY <5>1, <3>1, <2>3, JobParts
      <4>3. overall[EvalOf(worker[w].job)] = "partial"
        BY <2>4, <3>1, <4>2, JobParts
      <4> QED BY <4>1, <4>3 DEF ClaimInv, SeenIsPending
    <3> QED BY <3>4, <3>5, <3>6 DEF ClaimInv
  <2> QED BY <1>2, <2>7, SubmitAnswer
<1>3. ASSUME NEW c \in Clients, Refresh(c) \/ RefreshLost(c)
      PROVE  AnswerInv' /\ ClaimInv'
  <2>1. UNCHANGED <<unitVars, evalVars, jobVars, worker>>
    BY <1>3 DEF Refresh, RefreshLost, ReadLatestVersion, InsertCheck, Finalize
  <2> QED
    BY <2>1, AnswerUnchanged, ClaimsUnchanged DEF unitVars, evalVars, jobVars
<1>4. ASSUME NEW u \in Units, Reopen(u)
      PROVE  AnswerInv' /\ ClaimInv'
  <2>1. UNCHANGED <<overall, corrupt, worker, job, token, attempts>>
    BY <1>4 DEF Reopen, evalVars, jobVars
  <2> QED BY <1>4, <2>1, ReopenAnswer, ClaimsUnchanged
<1> QED BY <1>1, <1>2, <1>3, <1>4 DEF LearnerNext

\* The actions of a pass preserve it.
LEMMA PassStepInv ==
  ASSUME IInv, NEW w \in Workers, PassStep(w)
  PROVE  IInv'
<1> USE DEF IInv
<1> DEFINE j == worker[w].job
           e == EvalOf(j)
<1>1. TypeOK'
  BY PassStepType
<1>2. j \in Jobs /\ e \in Evals
  BY JobParts DEF TypeOK, Pass
<1>3. ASSUME NEW k \in Jobs, Claim(w, k)
      PROVE  AnswerInv' /\ ClaimInv'
  BY <1>3, ClaimAnswer, ClaimClaims
<1>4. ASSUME UNCHANGED <<unitVars, evalVars, jobVars>>,
             \/ worker' = [worker EXCEPT ![w] = NoPass]
             \/ worker' = [worker EXCEPT ![w].phase = "failing"] /\ worker[w].phase # "idle"
             \/ worker' = [worker EXCEPT ![w].phase = "completing", ![w].seen = unit[e[1]]]
                /\ worker[w].phase # "idle"
             \/ worker' = [worker EXCEPT ![w].phase = "rejecting", ![w].seen = unit[e[1]]]
                /\ worker[w].phase = "damaged"
      PROVE  AnswerInv' /\ ClaimInv'
  <2>1. UNCHANGED <<unit, latest, overall, mustFix, language, job, attempts, token, corrupt>>
    BY <1>4 DEF unitVars, evalVars, jobVars
  <2>2. \A v \in Workers : v # w => worker'[v] = worker[v]
    BY <1>4 DEF TypeOK
  <2>3. worker[w] \in Pass /\ NoPass.phase = "idle"
    BY DEF TypeOK, NoPass
  <2>4. \/ worker'[w].phase = "idle"
        \/ /\ worker'[w].job = j /\ worker'[w].token = worker[w].token
           /\ worker[w].phase # "idle"
           /\ \/ worker'[w].phase = "failing"
              \/ /\ worker'[w].phase = "completing"
                 /\ worker'[w].seen = unit[e[1]]
              \/ /\ worker'[w].phase = "rejecting" /\ worker[w].phase = "damaged"
                 /\ worker'[w].seen = unit[e[1]]
    BY <1>4, <2>3 DEF TypeOK, Pass
  <2> QED BY <2>1, <2>2, <2>4, AnswerUnchanged, PhaseMoves
<1>5. CASE EvaluatorFails(w) \/ BeginComplete(w) \/ CompleteRaises(w) \/ BeginReject(w) \/ Abandon(w)
  <2>1. UNCHANGED <<unitVars, evalVars, jobVars>>
    BY <1>5 DEF EvaluatorFails, BeginComplete, CompleteRaises, BeginReject, Abandon
  <2>2. \/ worker' = [worker EXCEPT ![w] = NoPass]
        \/ worker' = [worker EXCEPT ![w].phase = "failing"] /\ worker[w].phase # "idle"
        \/ worker' = [worker EXCEPT ![w].phase = "completing", ![w].seen = unit[e[1]]]
           /\ worker[w].phase # "idle"
        \/ worker' = [worker EXCEPT ![w].phase = "rejecting", ![w].seen = unit[e[1]]]
           /\ worker[w].phase = "damaged"
    <3>1. CASE EvaluatorFails(w) \/ CompleteRaises(w)
      BY <3>1 DEF EvaluatorFails, CompleteRaises, Phase
    <3>2. CASE BeginComplete(w)
      BY <3>2 DEF BeginComplete
    <3>3. CASE BeginReject(w)
      BY <3>3 DEF BeginReject
    <3>4. CASE Abandon(w)
      BY <3>4 DEF Abandon
    <3> QED BY <1>5, <3>1, <3>2, <3>3, <3>4
  <2> HIDE DEF j, e
  <2> QED BY <1>1, <2>1, <2>2, <1>4
<1>6. ASSUME Owns(w), worker[w].phase # "idle",
             worker' = [worker EXCEPT ![w] = NoPass]
             \/ worker' = [worker EXCEPT ![w].phase = "failing"]
      PROVE  \A v \in Workers :
               \/ worker'[v] = worker[v]
               \/ worker'[v].phase = "idle"
               \/ /\ worker'[v].phase = "failing" /\ worker[v].phase # "idle"
                  /\ worker'[v].job = worker[v].job /\ worker'[v].token = worker[v].token
  BY <1>6 DEF TypeOK, Pass, NoPass
<1>7. CASE Replay(w)
  <2>1. /\ job' = [job EXCEPT ![j] = "done"]
        /\ UNCHANGED <<token, attempts, corrupt, overall>>
    BY <1>7 DEF Replay, unitVars, evalVars
  <2>2. \A v \in Workers :
               \/ worker'[v] = worker[v]
               \/ worker'[v].phase = "idle"
               \/ /\ worker'[v].phase = "failing" /\ worker[v].phase # "idle"
                  /\ worker'[v].job = worker[v].job /\ worker'[v].token = worker[v].token
    BY <1>6, <1>7 DEF Replay, Replied
  <2>3. ClaimInv'
    <3> HIDE DEF j, e
    <3>1. e = EvalOf(j) /\ "done" \in JobStatuses \ {"none", "running"}
      BY DEF JobStatuses, e
    <3> QED BY <3>1, <1>2, <2>1, <2>2, ClaimsReleased
  <2> QED BY <1>1, <1>7, <2>3, ReplayAnswer
<1>8. ASSUME NEW b \in BOOLEAN, NEW v \in BOOLEAN, Complete(w, b, v)
      PROVE  AnswerInv' /\ ClaimInv'
  <2>1. /\ job' = [job EXCEPT ![j] = "done"]
        /\ \A k \in Jobs : k # j => token'[k] = token[k]
        /\ UNCHANGED <<attempts, corrupt>>
        /\ overall' = [overall EXCEPT ![e] = "completed"]
    BY <1>8 DEF Complete, Release, TypeOK
  <2>2. /\ \A x \in Evals : x # e => overall'[x] = overall[x]
        /\ overall'[e] # "partial"
    BY <1>2, <2>1 DEF TypeOK
  <2>3. \A x \in Workers :
               \/ worker'[x] = worker[x]
               \/ worker'[x].phase = "idle"
               \/ /\ worker'[x].phase = "failing" /\ worker[x].phase # "idle"
                  /\ worker'[x].job = worker[x].job /\ worker'[x].token = worker[x].token
    BY <1>6, <1>8 DEF Complete, Replied
  <2>4. ClaimInv'
    <3> HIDE DEF j, e
    <3>1. e = EvalOf(j) /\ "done" \in JobStatuses \ {"none", "running"}
      BY DEF JobStatuses, e
    <3> QED BY <3>1, <1>2, <2>1, <2>2, <2>3, ClaimsReleased
  <2> QED BY <1>8, <2>4, CompleteAnswer
<1>9. CASE Fail(w)
  <2>1. job[j] = "running"
    BY <1>9 DEF Fail, Owns
  <2>2. \A x \in Workers :
               \/ worker'[x] = worker[x]
               \/ worker'[x].phase = "idle"
               \/ /\ worker'[x].phase = "failing" /\ worker[x].phase # "idle"
                  /\ worker'[x].job = worker[x].job /\ worker'[x].token = worker[x].token
    BY <1>6, <1>9 DEF Fail
  <2>3. CASE RetriesLeft(j) /\ Requeue(j)
    <3>1. /\ job' = [job EXCEPT ![j] = "pending"]
          /\ \A k \in Jobs : k # j => token'[k] = token[k]
          /\ UNCHANGED <<attempts, corrupt, overall>>
      BY <2>3 DEF Requeue, Release, TypeOK, unitVars
    <3>2. ClaimInv'
      <4> HIDE DEF j, e
      <4>1. e = EvalOf(j) /\ "pending" \in JobStatuses \ {"none", "running"}
        BY DEF JobStatuses, e
      <4> QED BY <4>1, <1>2, <2>2, <3>1, ClaimsReleased
    <3> QED BY <1>1, <1>2, <2>1, <2>3, <3>2, RequeueAnswer
  <2>4. CASE Terminalize(j)
    <3>1. /\ job' = [job EXCEPT ![j] = "failed"]
          /\ \A k \in Jobs : k # j => token'[k] = token[k]
          /\ UNCHANGED <<attempts, corrupt>>
          /\ overall' = [overall EXCEPT ![e] = "terminal_partial"]
      BY <2>4 DEF Terminalize, Release, TypeOK
    <3>2. /\ \A x \in Evals : x # e => overall'[x] = overall[x]
          /\ overall'[e] # "partial"
      BY <1>2, <3>1 DEF TypeOK
    <3>3. ClaimInv'
      <4> HIDE DEF j, e
      <4>1. e = EvalOf(j) /\ "failed" \in JobStatuses \ {"none", "running"}
        BY DEF JobStatuses, e
      <4> QED BY <4>1, <1>2, <2>2, <3>1, <3>2, ClaimsReleased
    <3> QED BY <1>1, <1>2, <2>1, <2>4, <3>3, TerminalizeAnswer
  <2> QED BY <1>9, <2>3, <2>4 DEF Fail
<1>10. CASE Reject(w)
  <2>1. /\ job' = [job EXCEPT ![j] = "failed"]
        /\ \A k \in Jobs : k # j => token'[k] = token[k]
        /\ UNCHANGED <<attempts, corrupt>>
        /\ overall' = [overall EXCEPT ![e] = "failed"]
    BY <1>10 DEF Reject, Release, TypeOK
  <2>2. /\ \A x \in Evals : x # e => overall'[x] = overall[x]
        /\ overall'[e] # "partial"
    BY <1>2, <2>1 DEF TypeOK
  <2>3. \A x \in Workers :
               \/ worker'[x] = worker[x]
               \/ worker'[x].phase = "idle"
               \/ /\ worker'[x].phase = "failing" /\ worker[x].phase # "idle"
                  /\ worker'[x].job = worker[x].job /\ worker'[x].token = worker[x].token
    BY <1>6, <1>10 DEF Reject
  <2>4. ClaimInv'
    <3> HIDE DEF j, e
    <3>1. e = EvalOf(j) /\ "failed" \in JobStatuses \ {"none", "running"}
      BY DEF JobStatuses, e
    <3> QED BY <3>1, <1>2, <2>1, <2>2, <2>3, ClaimsReleased
  <2> QED BY <1>1, <1>10, <2>4, RejectAnswer
<1> QED
  BY <1>1, <1>3, <1>5, <1>7, <1>8, <1>9, <1>10 DEF PassStep

\* The queue's clock, the sweeper, recovery and corruption preserve it.
LEMMA QueueInv ==
  ASSUME IInv, QueueNext
  PROVE  IInv'
<1> USE DEF IInv
<1>1. TypeOK'
  BY QueueType
<1>2. ASSUME NEW j \in Jobs, LeaseExpires(j) \/ BackoffEnds(j)
      PROVE  AnswerInv' /\ ClaimInv'
  <2>1. UNCHANGED <<unitVars, evalVars, job, attempts, token, worker>>
    BY <1>2 DEF LeaseExpires, BackoffEnds
  <2> QED BY <2>1, AnswerUnchanged, ClaimsUnchanged DEF unitVars, evalVars
<1>3. ASSUME NEW j \in Jobs, Sweep(j)
      PROVE  AnswerInv' /\ ClaimInv'
  <2>1. job[j] = "running" /\ UNCHANGED worker
    BY <1>3 DEF Sweep, Stale
  <2>2. CASE RetriesLeft(j) /\ Requeue(j)
    <3>1. /\ job' = [job EXCEPT ![j] = "pending"]
          /\ \A k \in Jobs : k # j => token'[k] = token[k]
          /\ UNCHANGED <<attempts, corrupt, overall>>
      BY <2>2 DEF Requeue, Release, TypeOK, unitVars
    <3>2. "pending" \in JobStatuses \ {"none", "running"}
      BY DEF JobStatuses
    <3> QED BY <2>1, <2>2, <3>1, <3>2, ClaimsReleased, RequeueAnswer
  <2>3. CASE Terminalize(j)
    <3> DEFINE e == EvalOf(j)
    <3>1. /\ job' = [job EXCEPT ![j] = "failed"]
          /\ \A k \in Jobs : k # j => token'[k] = token[k]
          /\ UNCHANGED <<attempts, corrupt>>
          /\ overall' = [overall EXCEPT ![e] = "terminal_partial"]
      BY <2>3 DEF Terminalize, Release, TypeOK
    <3>2. /\ \A x \in Evals : x # e => overall'[x] = overall[x]
          /\ overall'[e] # "partial"
      BY <3>1, JobParts DEF TypeOK
    <3>3. e = EvalOf(j) /\ "failed" \in JobStatuses \ {"none", "running"}
      BY DEF JobStatuses
    <3> HIDE DEF e
    <3> QED BY <2>1, <2>3, <3>1, <3>2, <3>3, ClaimsReleased, TerminalizeAnswer
  <2> QED BY <1>3, <2>2, <2>3 DEF Sweep
<1>4. ASSUME NEW e \in Evals, NEW g \in 1..MaxGen, Recover(e, g)
      PROVE  AnswerInv' /\ ClaimInv'
  <2> DEFINE j == <<e, g + 1>>
  <2>1. /\ UNCHANGED <<worker, token, attempts, corrupt, overall>>
        /\ job' = [job EXCEPT ![j] = "pending"] /\ job[j] = "none"
    BY <1>4 DEF Recover, Recoverable, unitVars
  <2>2. \A w \in Workers : worker[w].job \in Jobs
    BY DEF TypeOK, Pass
  <2>3. \A k \in Jobs : k # j => job'[k] = job[k]
    BY <2>1 DEF TypeOK
  <2>4. \A k \in Jobs : job'[k] = "running" => job[k] = "running"
    BY <2>1 DEF TypeOK
  <2>5. \A k \in Jobs : job[k] # "none" => job'[k] # "none"
    BY <2>1, <2>3 DEF TypeOK
  <2> HIDE DEF j
  <2>6. TokensCurrent' /\ ClaimsDistinct' /\ DamageIsReal'
    BY <2>1, <2>4 DEF ClaimInv, TokensCurrent, ClaimsDistinct, DamageIsReal
  <2>7. ClaimsPast'
    BY <2>1, <2>2, <2>5 DEF ClaimInv, ClaimsPast
  <2>8. SeenIsPending'
    BY <2>1, <2>2, <2>4 DEF ClaimInv, SeenIsPending, Owns
  <2> QED BY <1>4, <2>6, <2>7, <2>8, RecoverAnswer DEF ClaimInv
<1>5. ASSUME NEW e \in Evals, Corrupt(e)
      PROVE  AnswerInv' /\ ClaimInv'
  <2>1. UNCHANGED <<worker, job, token, attempts, overall>> /\ corrupt \subseteq corrupt'
    BY <1>5 DEF Corrupt, evalVars, jobVars
  <2> QED BY <1>5, <2>1, CorruptAnswer, ClaimsUnchanged
<1> QED BY <1>1, <1>2, <1>3, <1>4, <1>5 DEF QueueNext

\* Every step preserves the invariant.
LEMMA NextInv ==
  ASSUME IInv, [Next]_vars
  PROVE  IInv'
<1>1. CASE LearnerNext
  BY <1>1, LearnerInv
<1>2. ASSUME NEW w \in Workers, PassStep(w)
      PROVE  IInv'
  BY <1>2, PassStepInv
<1>3. CASE QueueNext
  BY <1>3, QueueInv
<1>4. CASE UNCHANGED vars
  <2>1. UNCHANGED <<unitVars, evalVars, jobVars, worker>> /\ TypeOK'
    BY <1>4, NextType DEF vars, IInv
  <2>2. AnswerInv'
    BY <2>1, AnswerUnchanged DEF IInv, unitVars, evalVars, jobVars
  <2>3. ClaimInv'
    BY <2>1, ClaimsUnchanged DEF IInv, unitVars, evalVars, jobVars
  <2> QED BY <2>1, <2>2, <2>3 DEF IInv
<1> QED BY <1>1, <1>2, <1>3, <1>4 DEF Next

\* The rows of an answer, the chain of its jobs and the claims of the passes agree
\* in every reachable state: the inductive invariant the theorems below rest on.
THEOREM Invariant == Spec => []IInv
BY InitInv, NextInv, PTL DEF Spec

-----------------------------------------------------------------------------
(* The safety properties.                                                    *)

\* A unit in evaluation_pending waits for an undecided answer with a live job.
THEOREM PendingUnitHasLiveJobHolds == Spec => []PendingUnitHasLiveJob
<1>1. IInv => PendingUnitHasLiveJob
  <2> SUFFICES ASSUME IInv, NEW u \in Units, unit[u] = "evaluation_pending"
               PROVE  /\ latest[u] > 0
                      /\ overall[LatestEval(u)] = "partial"
                      /\ \E g \in 1..MaxGen : job[<<LatestEval(u), g>>] \in Active
    BY DEF PendingUnitHasLiveJob
  <2>1. latest[u] > 0 /\ overall[LatestEval(u)] = "partial"
    BY DEF IInv, AnswerInv, PendingIsAwaited
  <2>2. job[<<LatestEval(u), 1>>] \in Active
    BY <2>1, Latest DEF IInv, AnswerInv, AwaitedIsInFlight
  <2> QED BY <2>1, <2>2, Ones DEF Gens
<1> QED BY <1>1, Invariant, PTL

\* No answer is superseded or reopened while it is being evaluated.
THEOREM AwaitedAnswerIsCurrentHolds == Spec => []AwaitedAnswerIsCurrent
<1>1. IInv => AwaitedAnswerIsCurrent
  BY DEF IInv, AnswerInv, AwaitedIsInFlight, AwaitedAnswerIsCurrent
<1> QED BY <1>1, Invariant, PTL

\* Two generations of one evaluation are never active together.
THEOREM OneActiveJobHolds == Spec => []OneActiveJob
<1>1. IInv => OneActiveJob
  <2> SUFFICES ASSUME IInv, NEW e \in Evals, NEW g \in Gens, NEW h \in Gens,
                      job[<<e, g>>] \in Active, job[<<e, h>>] \in Active
               PROVE  g = h
    BY DEF OneActiveJob, Gens
  <2>1. ~(g < h) /\ ~(h < g)
    BY DEF IInv, AnswerInv, GenerationsOrdered, Active
  <2>2. g \in Nat /\ h \in Nat
    BY DEF Gens
  <2> QED BY <2>1, <2>2
<1> QED BY <1>1, Invariant, PTL

\* A scored answer has no job left that could score it again.
THEOREM ScoredAnswerIsSettledHolds == Spec => []ScoredAnswerIsSettled
<1>1. IInv => ScoredAnswerIsSettled
  <2> SUFFICES ASSUME IInv, NEW e \in Evals, overall[e] = "completed"
               PROVE  /\ language[e] = "completed"
                      /\ \A g \in 1..MaxGen : job[<<e, g>>] \notin Active
    BY DEF ScoredAnswerIsSettled
  <2>1. language[e] = "completed"
    BY DEF IInv, AnswerInv, ScoredIsDone
  <2>2. ASSUME NEW g \in Gens, job[<<e, g>>] \in Active
        PROVE  FALSE
    <3>1. <<e, g>> \in Jobs /\ EvalOf(<<e, g>>) = e
      BY Pairs
    <3> QED BY <2>2, <3>1, ActiveJob DEF IInv
  <2> QED BY <2>1, <2>2 DEF Gens
<1> QED BY <1>1, Invariant, PTL

\* A queued job can always be claimed within its attempt limit.
THEOREM RetryBudgetHolds == Spec => []RetryBudget
<1>1. IInv => RetryBudget
  BY DEF IInv, AnswerInv, AttemptsCounted, RetryBudget
<1> QED BY <1>1, Invariant, PTL

\* The unit status read before the locks is current whenever it is used.
THEOREM StaleReadHarmlessHolds == Spec => []StaleReadHarmless
<1>1. IInv => StaleReadHarmless
  <2> SUFFICES ASSUME IInv, NEW w \in Workers,
                      worker[w].phase \in {"completing", "rejecting"}, Owns(w),
                      ~AlreadyDecided(EvalOf(worker[w].job))
               PROVE  worker[w].seen = unit[EvalOf(worker[w].job)[1]]
    BY DEF StaleReadHarmless
  <2> DEFINE j == worker[w].job
             e == EvalOf(j)
  <2>1. j \in Jobs /\ e \in Evals /\ job[j] \in Active
    BY JobParts DEF IInv, TypeOK, Pass, Owns, Active
  <2>2. overall[e] = "partial"
    BY <2>1, ActiveJob DEF IInv, TypeOK, OverallStatuses, Terminal, AlreadyDecided
  <2>3. worker[w].seen = "evaluation_pending"
    BY <2>2 DEF IInv, ClaimInv, SeenIsPending
  <2>4. unit[e[1]] = "evaluation_pending"
    BY <2>1, <2>2 DEF IInv, AnswerInv, AwaitedIsInFlight
  <2> QED BY <2>3, <2>4
<1> QED BY <1>1, Invariant, PTL

\* The unit shown to the learner agrees with the verdict on the newest answer.
THEOREM UnitMatchesVerdictHolds == Spec => []UnitMatchesVerdict
<1>1. IInv => UnitMatchesVerdict
  <2> SUFFICES ASSUME IInv, NEW u \in Units
               PROVE  LET e == LatestEval(u)
                      IN /\ unit[u] = "ready" =>
                              /\ overall[e] \in Terminal /\ e \notin mustFix
                              /\ overall[e] = "failed" => e \in corrupt
                         /\ unit[u] = "rewrite_required" => overall[e] = "completed" /\ e \in mustFix
                         /\ unit[u] = "evaluation_failed" => e \in corrupt /\ language[e] # "completed"
    BY DEF UnitMatchesVerdict
  <2>1. unit[u] = "evaluation_failed" => language[LatestEval(u)] # "completed"
    BY Latest DEF IInv, AnswerInv, VerdictsMatch, ScoredIsDone
  <2> QED BY <2>1 DEF IInv, AnswerInv, VerdictsMatch
<1> QED BY <1>1, Invariant, PTL

=============================================================================
