--------------------------- MODULE WritingSession ---------------------------
(***************************************************************************)
(* One writing session of the English Writing Practice feature: its units, *)
(* the immutable answer versions, one evaluation per version, the leased   *)
(* and fenced evaluation jobs, the workers that run them, the stale-lease  *)
(* sweeper, generation+1 recovery, the required-word coverage check and    *)
(* the session rollup.                                                     *)
(*                                                                         *)
(* Every SQL function runs in one transaction behind the session row lock, *)
(* so each is one action.  What is NOT one transaction is split into       *)
(* steps: the evaluator call between claim and completion, the unit row    *)
(* that completion reads before it takes its locks, the reply of a         *)
(* committed completion, and the API's submit / check / finalize chain.    *)
(***************************************************************************)
EXTENDS Naturals, FiniteSets

CONSTANTS
  NumUnits,      \* units of the session, numbered from 1
  MaxVersion,    \* bound: versions a unit may collect
  MaxGen,        \* bound: job generations of one evaluation
  MaxAttempts,   \* writing_evaluation_jobs.max_attempts (3 in the schema)
  Workers,       \* passes of the writing:evaluate job that may overlap
  Clients,       \* API requests of the learner that may overlap
  Words,         \* the prompt's required words
  CorruptionMayHappen,  \* whether a stored answer may stop matching its hash
  RefreshMayFail        \* whether the post-submit refresh may be swallowed

ASSUME UnitsAssumption == NumUnits \in Nat \ {0}
ASSUME BoundsAssumption == MaxVersion \in Nat \ {0} /\ MaxGen \in Nat \ {0}
ASSUME MaxAttemptsAssumption == MaxAttempts \in Nat \ {0}
ASSUME SwitchesAssumption == CorruptionMayHappen \in BOOLEAN /\ RefreshMayFail \in BOOLEAN

VARIABLES
  unit,       \* writing_session_units.status
  latest,     \* MAX(version_number) of a unit, 0 when it has no version
  text,       \* required words a version's answer contains
  corrupt,    \* versions whose stored text no longer matches content_hash
  language,   \* writing_evaluations.language_status
  overall,    \* writing_evaluations.overall_status
  mustFix,    \* evaluations with a must_fix issue that affects_current_state
  job,        \* writing_evaluation_jobs.status
  attempts,   \* writing_evaluation_jobs.attempts
  token,      \* claim_token: the ordinal of the claim that holds it, 0 for NULL
  lease,      \* locked_at: "free" for NULL, "held", "expired"
  delayed,    \* jobs whose scheduled_for is still in the future
  worker,     \* the evaluator pass a worker is in
  outbox,     \* evaluations with a mastery outbox row
  check,      \* the newest required_word_coverage row
  request,    \* the learner's submit request an API thread is in
  status,     \* writing_sessions.status
  outcome     \* writing_sessions.evaluation_outcome

unitVars == <<unit, latest, text, corrupt>>
evalVars == <<language, overall, mustFix, outbox>>
jobVars == <<job, attempts, token, lease, delayed>>
sessionVars == <<status, outcome>>
vars == <<unitVars, evalVars, jobVars, worker, check, request, sessionVars>>

Units == 1..NumUnits
Versions == 1..MaxVersion
Evals == Units \X Versions
Jobs == Evals \X (1..MaxGen)

UnitStatuses == {"not_started", "draft", "evaluation_pending", "evaluation_failed",
                 "rewrite_required", "ready"}
LanguageStatuses == {"none", "queued", "running", "completed", "failed"}
OverallStatuses == {"none", "partial", "completed", "terminal_partial", "failed"}
JobStatuses == {"none", "pending", "running", "done", "failed"}
SessionStatuses == {"active", "evaluation_pending", "evaluation_incomplete",
                    "rewrite_required", "completed"}
Outcomes == {"none", "unscored", "deterministic_only", "fully_evaluated"}

Terminal == {"completed", "terminal_partial", "failed"}
Active == {"pending", "running"}

LatestEval(u) == <<u, latest[u]>>
IsCurrent(e) == e[2] = latest[e[1]]
EvalOf(j) == j[1]
FirstJob(e) == <<e, 1>>

NoCheck == [set |-> [u \in Units |-> 0], passed |-> FALSE]
NoRequest == [phase |-> "idle", next |-> 1, set |-> [u \in Units |-> 0]]
NoPass == [phase |-> "idle", job |-> FirstJob(<<1, 1>>), token |-> 0,
           seen |-> "not_started"]

\* A pass of the evaluator.  "damaged" has found a hash mismatch; "completing" and
\* "rejecting" have sent the terminal RPC, whose unlocked reads are in seen;
\* "failing" is in the except branch.
Pass == [phase : {"idle", "evaluating", "damaged", "completing", "rejecting", "failing"},
         job : Jobs, token : 0..MaxAttempts, seen : UnitStatuses]
Request == [phase : {"idle", "reading", "finalizing"}, next : 1..(NumUnits + 1),
            set : [Units -> 0..MaxVersion]]

TypeOK ==
  /\ unit \in [Units -> UnitStatuses]
  /\ latest \in [Units -> 0..MaxVersion]
  /\ text \in [Evals -> SUBSET Words]
  /\ corrupt \subseteq Evals
  /\ language \in [Evals -> LanguageStatuses]
  /\ overall \in [Evals -> OverallStatuses]
  /\ mustFix \subseteq Evals
  /\ job \in [Jobs -> JobStatuses]
  /\ attempts \in [Jobs -> 0..MaxAttempts]
  /\ token \in [Jobs -> 0..MaxAttempts]
  /\ lease \in [Jobs -> {"free", "held", "expired"}]
  /\ delayed \subseteq Jobs
  /\ worker \in [Workers -> Pass]
  /\ outbox \subseteq Evals
  /\ check \in [set : [Units -> 0..MaxVersion], passed : BOOLEAN]
  /\ request \in [Clients -> Request]
  /\ status \in SessionStatuses
  /\ outcome \in Outcomes

Init ==
  /\ unit = [u \in Units |-> "not_started"]
  /\ latest = [u \in Units |-> 0]
  /\ text = [e \in Evals |-> {}]
  /\ corrupt = {}
  /\ language = [e \in Evals |-> "none"]
  /\ overall = [e \in Evals |-> "none"]
  /\ mustFix = {}
  /\ job = [j \in Jobs |-> "none"]
  /\ attempts = [j \in Jobs |-> 0]
  /\ token = [j \in Jobs |-> 0]
  /\ lease = [j \in Jobs |-> "free"]
  /\ delayed = {}
  /\ worker = [w \in Workers |-> NoPass]
  /\ outbox = {}
  /\ check = NoCheck
  /\ request = [c \in Clients |-> NoRequest]
  /\ status = "active"
  /\ outcome = "none"

-----------------------------------------------------------------------------
(* The session rollup: ewp_apply_session_rollup recomputes the session from  *)
(* the units, the latest evaluations and the newest coverage row.  Every     *)
(* transaction that moves a unit ends with it.                               *)

\* Faulty: an off-by-one in the attempt limit.
RetriesLeftLoose(j) == attempts[j] <= MaxAttempts

RetriesLeft(j) == attempts[j] < MaxAttempts

RecoveryAvailable(u) ==
  LET jobs == {j \in Jobs : EvalOf(j) = LatestEval(u) /\ job[j] # "none"}
  IN jobs = {} \/ \E j \in jobs : RetriesLeft(j)

UnresolvedMustFix == \E u \in Units : LatestEval(u) \in mustFix

\* Faulty: the version_set_hash comparison is missing.
CoverageOkStale == check.passed

\* The newest row counts only while its version_set_hash is the current one.
CoverageOk == check.passed /\ check.set = latest

SomeUnit(statuses) == \E u \in Units : unit[u] \in statuses

\* Faulty: only failed units are looked at.
AwaitsRecovery == \E u \in Units : unit[u] = "evaluation_failed" /\ RecoveryAvailable(u)

AwaitsEvaluation ==
  \E u \in Units : \/ unit[u] = "evaluation_pending"
                   \/ unit[u] = "evaluation_failed" /\ RecoveryAvailable(u)

SessionStatus ==
  IF SomeUnit({"not_started", "draft"}) THEN "active"
  ELSE IF AwaitsEvaluation THEN "evaluation_pending"
  ELSE IF SomeUnit({"evaluation_failed"}) THEN "evaluation_incomplete"
  ELSE IF ~SomeUnit({"rewrite_required"}) /\ CoverageOk /\ ~UnresolvedMustFix
       THEN "completed"
  ELSE "rewrite_required"

LatestOverall(u) == IF latest[u] = 0 THEN "none" ELSE overall[LatestEval(u)]

Aggregate ==
  LET verdicts == {LatestOverall(u) : u \in Units}
  IN IF ~(verdicts \subseteq Terminal) THEN "none"
     ELSE IF "failed" \in verdicts THEN "unscored"
     ELSE IF "terminal_partial" \in verdicts THEN "deterministic_only"
     ELSE "fully_evaluated"

Rank(o) ==
  CASE o = "none" -> 0 [] o = "unscored" -> 1
    [] o = "deterministic_only" -> 2 [] OTHER -> 3

Promote(cur, new) == IF Rank(new) > Rank(cur) THEN new ELSE cur

\* Faulty: the rollup runs before the unit is updated.
RollupEarly ==
  /\ status' = SessionStatus
  /\ outcome' = Promote(outcome, Aggregate')

Rollup ==
  /\ status' = SessionStatus'
  /\ outcome' = Promote(outcome, Aggregate')

-----------------------------------------------------------------------------
(* The learner: submit_unit and reopen_unit of the API.                      *)

\* Faulty: a new version is accepted while the last one is being evaluated.
SubmittableAwaited == {"not_started", "draft", "rewrite_required", "evaluation_pending"}

Submittable == {"not_started", "draft", "rewrite_required"}

\* x is the client's expected_version.  The submitted answer contains the
\* required words t.  The RPC commits; the rest of the request is the refresh.
Submit(c, u, x, t) ==
  LET e == <<u, x>>
  IN /\ request[c].phase = "idle"
     /\ status # "completed"
     /\ unit[u] \in Submittable
     /\ x = latest[u] + 1
     /\ latest' = [latest EXCEPT ![u] = x]
     /\ text' = [text EXCEPT ![e] = t]
     /\ language' = [language EXCEPT ![e] = "queued"]
     /\ overall' = [overall EXCEPT ![e] = "partial"]
     /\ job' = [job EXCEPT ![FirstJob(e)] = "pending"]
     /\ unit' = [unit EXCEPT ![u] = "evaluation_pending"]
     /\ request' = [request EXCEPT ![c] = [NoRequest EXCEPT !.phase = "reading"]]
     /\ UNCHANGED <<corrupt, mustFix, outbox, attempts, token, lease, delayed, worker, check>>
     /\ Rollup

\* _latest_versions reads the latest version of one unit per query.
ReadLatestVersion(c) ==
  LET u == request[c].next
  IN /\ request[c].phase = "reading"
     /\ u \in Units
     /\ request' = [request EXCEPT ![c].set[u] = latest[u], ![c].next = u + 1]
     /\ UNCHANGED <<unitVars, evalVars, jobVars, worker, check, sessionVars>>

Covered(set) ==
  \A x \in Words : \E u \in Units : set[u] > 0 /\ x \in text[<<u, set[u]>>]

InsertCheck(c) ==
  /\ request[c].phase = "reading"
  /\ request[c].next = NumUnits + 1
  /\ check' = [set |-> request[c].set, passed |-> Covered(request[c].set)]
  /\ request' = [request EXCEPT ![c] = [NoRequest EXCEPT !.phase = "finalizing"]]
  /\ UNCHANGED <<unitVars, evalVars, jobVars, worker, sessionVars>>

\* ewp_finalize_writing_session.
Finalize(c) ==
  /\ request[c].phase = "finalizing"
  /\ request' = [request EXCEPT ![c] = NoRequest]
  /\ UNCHANGED <<unitVars, evalVars, jobVars, worker, check>>
  /\ Rollup

\* Any step of the refresh raises: submit_unit logs it and answers the learner.
RefreshLost(c) ==
  /\ RefreshMayFail
  /\ request[c].phase # "idle"
  /\ request' = [request EXCEPT ![c] = NoRequest]
  /\ UNCHANGED <<unitVars, evalVars, jobVars, worker, check, sessionVars>>

Reopenable == {"ready"}

\* The caller names the latest version; naming another one only raises.
Reopen(u) ==
  /\ status \in {"rewrite_required", "active", "completed"}
  /\ unit[u] \in Reopenable
  /\ unit' = [unit EXCEPT ![u] = "draft"]
  /\ UNCHANGED <<latest, text, corrupt, evalVars, jobVars, worker, check, request>>
  /\ Rollup

-----------------------------------------------------------------------------
(* The evaluator: run_worker_pass and the job RPCs it calls.                 *)

\* Faulty: no fence, and a fence without the claim_token.
OwnsAlways(w) == TRUE
OwnsAnyClaim(w) == job[worker[w].job] = "running"

Owns(w) ==
  LET j == worker[w].job IN job[j] = "running" /\ token[j] = worker[w].token

\* A job that leaves "running" gives up its lease and its claim_token.
Release(j, s) ==
  /\ job' = [job EXCEPT ![j] = s]
  /\ token' = [token EXCEPT ![j] = 0]
  /\ lease' = [lease EXCEPT ![j] = "free"]

\* Faulty: the status of the unit is not checked.
MoveUnitAnyway(e, seen, target) ==
  unit' = IF IsCurrent(e) THEN [unit EXCEPT ![e[1]] = target] ELSE unit

\* seen is the unit status the transaction read, which may predate its locks.
MoveUnit(e, seen, target) ==
  unit' = IF IsCurrent(e) /\ seen = "evaluation_pending"
          THEN [unit EXCEPT ![e[1]] = target] ELSE unit

\* ewp_terminalize_eval_job; the deterministic stage always completes at submit.
Terminalize(j) ==
  LET e == EvalOf(j)
  IN /\ language' = [language EXCEPT ![e] = "failed"]
     /\ overall' = [overall EXCEPT ![e] = "terminal_partial"]
     /\ Release(j, "failed")
     /\ MoveUnit(e, unit[e[1]], "ready")
     /\ UNCHANGED <<latest, text, corrupt, mustFix, outbox, attempts, delayed, check, request>>
     /\ Rollup

\* Back to the queue; language_status follows unless the evaluation moved on.
Requeue(j) ==
  LET e == EvalOf(j)
  IN /\ Release(j, "pending")
     /\ language' = IF language[e] = "running"
                    THEN [language EXCEPT ![e] = "queued"] ELSE language
     /\ UNCHANGED <<unitVars, overall, mustFix, outbox, attempts, check, request, sessionVars>>

\* CHECK (attempts <= max_attempts) refuses one claim more.  The pass compares the
\* hash of the text the claim returned.
Claim(w, j) ==
  LET e == EvalOf(j)
  IN /\ worker[w].phase = "idle"
     /\ job[j] = "pending"
     /\ j \notin delayed
     /\ attempts[j] < MaxAttempts
     /\ job' = [job EXCEPT ![j] = "running"]
     /\ attempts' = [attempts EXCEPT ![j] = @ + 1]
     /\ token' = [token EXCEPT ![j] = attempts[j] + 1]
     /\ lease' = [lease EXCEPT ![j] = "held"]
     /\ language' = IF language[e] \in {"queued", "failed", "running"}
                    THEN [language EXCEPT ![e] = "running"] ELSE language
     /\ worker' = [worker EXCEPT ![w] =
          [NoPass EXCEPT !.phase = IF e \in corrupt THEN "damaged" ELSE "evaluating",
                         !.job = j, !.token = attempts[j] + 1]]
     /\ UNCHANGED <<unitVars, overall, mustFix, outbox, delayed, check, request, sessionVars>>

Phase(w, p) == worker' = [worker EXCEPT ![w].phase = p]

\* The evaluator or a step before the completion RPC raises.
EvaluatorFails(w) ==
  /\ worker[w].phase = "evaluating"
  /\ Phase(w, "failing")
  /\ UNCHANGED <<unitVars, evalVars, jobVars, check, request, sessionVars>>

\* ewp_complete_language_evaluation starts and reads the unit without a lock.
BeginComplete(w) ==
  LET u == EvalOf(worker[w].job)[1]
  IN /\ worker[w].phase = "evaluating"
     /\ worker' = [worker EXCEPT ![w].phase = "completing", ![w].seen = unit[u]]
     /\ UNCHANGED <<unitVars, evalVars, jobVars, check, request, sessionVars>>

\* Faulty: the name of a session status, and the two outcomes swapped.
CompletionTargetMisnamed(blocking) == IF blocking THEN "rewrite_required" ELSE "completed"
CompletionTargetSwapped(blocking) == IF blocking THEN "ready" ELSE "rewrite_required"

\* Where a scored answer sends its unit (learning mode).
CompletionTarget(blocking) == IF blocking THEN "rewrite_required" ELSE "ready"

\* The RPC committed; its reply reaches the pass, or is lost and raises there.
Replied(w) ==
  worker' \in {[worker EXCEPT ![w] = NoPass], [worker EXCEPT ![w].phase = "failing"]}

\* Faulty: the deterministic result counts as a decision; only a score does.
AlreadyDecidedPartly(e) == overall[e] # "none"
AlreadyScored(e) == overall[e] = "completed"

AlreadyDecided(e) == overall[e] \in Terminal

\* The replay guard acknowledges the job and leaves its claim_token in place.
Replay(w) ==
  LET j == worker[w].job
  IN /\ worker[w].phase = "completing"
     /\ Owns(w)
     /\ AlreadyDecided(EvalOf(j))
     /\ job' = [job EXCEPT ![j] = "done"]
     /\ lease' = [lease EXCEPT ![j] = "free"]
     /\ Replied(w)
     /\ UNCHANGED <<unitVars, evalVars, attempts, token, delayed, check, request, sessionVars>>

\* blocking: the evaluator's issues hold a must_fix.  evidence: it passed an
\* idempotency key for the mastery outbox.
Complete(w, blocking, evidence) ==
  LET j == worker[w].job
      e == EvalOf(j)
      current == IsCurrent(e)
  IN /\ worker[w].phase = "completing"
     /\ Owns(w)
     /\ ~AlreadyDecided(e)
     /\ mustFix' = IF current /\ blocking THEN mustFix \cup {e} ELSE mustFix
     /\ language' = [language EXCEPT ![e] = "completed"]
     /\ overall' = [overall EXCEPT ![e] = "completed"]
     /\ MoveUnit(e, worker[w].seen, CompletionTarget(blocking))
     /\ outbox' = IF current /\ evidence THEN outbox \cup {e} ELSE outbox
     /\ Release(j, "done")
     /\ Replied(w)
     /\ UNCHANGED <<latest, text, corrupt, attempts, delayed, check, request>>
     /\ IF current THEN Rollup ELSE UNCHANGED sessionVars

\* Fenced out, or the call itself is lost: nothing is written and the RPC raises.
CompleteRaises(w) ==
  /\ worker[w].phase = "completing"
  /\ Phase(w, "failing")
  /\ UNCHANGED <<unitVars, evalVars, jobVars, check, request, sessionVars>>

\* ewp_fail_evaluation_job.
Fail(w) ==
  LET j == worker[w].job
  IN /\ worker[w].phase = "failing"
     /\ Owns(w)
     /\ worker' = [worker EXCEPT ![w] = NoPass]
     /\ \/ RetriesLeft(j) /\ Requeue(j) /\ delayed' = delayed \cup {j}
        \/ ~RetriesLeft(j) /\ Terminalize(j)

\* ewp_reject_corrupt_version starts and reads the unit without a lock.
BeginReject(w) ==
  LET u == EvalOf(worker[w].job)[1]
  IN /\ worker[w].phase = "damaged"
     /\ worker' = [worker EXCEPT ![w].phase = "rejecting", ![w].seen = unit[u]]
     /\ UNCHANGED <<unitVars, evalVars, jobVars, check, request, sessionVars>>

Reject(w) ==
  LET j == worker[w].job
      e == EvalOf(j)
  IN /\ worker[w].phase = "rejecting"
     /\ Owns(w)
     /\ language' = [language EXCEPT ![e] = "failed"]
     /\ overall' = [overall EXCEPT ![e] = "failed"]
     /\ Release(j, "failed")
     /\ MoveUnit(e, worker[w].seen, "evaluation_failed")
     /\ worker' = [worker EXCEPT ![w] = NoPass]
     /\ UNCHANGED <<latest, text, corrupt, mustFix, outbox, attempts, delayed, check, request>>
     /\ Rollup

\* The process dies, or the pass swallows the error of its last RPC (fenced out
\* of Fail or Reject, or the call lost): it ends and leaves the job as it is.
Abandon(w) ==
  /\ worker[w].phase # "idle"
  /\ worker' = [worker EXCEPT ![w] = NoPass]
  /\ UNCHANGED <<unitVars, evalVars, jobVars, check, request, sessionVars>>

-----------------------------------------------------------------------------
(* The clock, the sweeper, the operator and the storage.                     *)

LeaseExpires(j) ==
  /\ lease[j] = "held"
  /\ lease' = [lease EXCEPT ![j] = "expired"]
  /\ UNCHANGED <<unitVars, evalVars, job, attempts, token, delayed, worker, check, request,
                 sessionVars>>

BackoffEnds(j) ==
  /\ j \in delayed
  /\ delayed' = delayed \ {j}
  /\ UNCHANGED <<unitVars, evalVars, job, attempts, token, lease, worker, check, request,
                 sessionVars>>

\* Faulty: exhausted jobs are left to somebody else.
StaleRetriable(j) == job[j] = "running" /\ lease[j] = "expired" /\ RetriesLeft(j)

\* What ewp_requeue_stale_eval_job revalidates once it holds the locks.
Stale(j) == job[j] = "running" /\ lease[j] = "expired"

Sweep(j) ==
  /\ Stale(j)
  /\ UNCHANGED worker
  /\ \/ RetriesLeft(j) /\ Requeue(j) /\ UNCHANGED delayed
     \/ ~RetriesLeft(j) /\ Terminalize(j)

\* Faulty: an evaluation may be recovered while its job is still active.
RecoverableActive(e, g) ==
  /\ job[<<e, g>>] # "none"
  /\ job[<<e, g + 1>>] = "none"

\* Generations are minted in order: the latest one is g when g + 1 is absent.
Recoverable(e, g) ==
  /\ job[<<e, g>>] = "failed"
  /\ job[<<e, g + 1>>] = "none"

\* ewp_recover_evaluation: generation g + 1, without a rollup.
Recover(e, g) ==
  /\ g + 1 \in 1..MaxGen
  /\ Recoverable(e, g)
  /\ language[e] # "completed"
  /\ job' = [job EXCEPT ![<<e, g + 1>>] = "pending"]
  /\ language' = IF language[e] = "failed"
                 THEN [language EXCEPT ![e] = "queued"] ELSE language
  /\ UNCHANGED <<unitVars, overall, mustFix, outbox, attempts, token, lease, delayed, worker,
                 check, request, sessionVars>>

\* A stored answer stops matching its hash; nothing in the code does this.
Corrupt(e) ==
  /\ CorruptionMayHappen
  /\ overall[e] # "none"
  /\ corrupt' = corrupt \cup {e}
  /\ UNCHANGED <<unit, latest, text, evalVars, jobVars, worker, check, request, sessionVars>>

-----------------------------------------------------------------------------
Refresh(c) == ReadLatestVersion(c) \/ InsertCheck(c) \/ Finalize(c)

LearnerNext ==
  \/ \E c \in Clients :
       \/ \E u \in Units, x \in Versions, t \in SUBSET Words : Submit(c, u, x, t)
       \/ Refresh(c)
       \/ RefreshLost(c)
  \/ \E u \in Units : Reopen(u)

PassStep(w) ==
  \/ \E j \in Jobs : Claim(w, j)
  \/ EvaluatorFails(w)
  \/ BeginComplete(w)
  \/ Replay(w)
  \/ \E blocking, evidence \in BOOLEAN : Complete(w, blocking, evidence)
  \/ CompleteRaises(w)
  \/ Fail(w)
  \/ BeginReject(w)
  \/ Reject(w)
  \/ Abandon(w)

QueueNext ==
  \/ \E j \in Jobs : LeaseExpires(j) \/ BackoffEnds(j) \/ Sweep(j)
  \/ \E e \in Evals, g \in 1..MaxGen : Recover(e, g)
  \/ \E e \in Evals : Corrupt(e)

Next == LearnerNext \/ (\E w \in Workers : PassStep(w)) \/ QueueNext

Spec == Init /\ [][Next]_vars

\* The scheduler runs the pass and the sweep forever, time passes, and an API
\* thread goes on with its refresh; nobody has to submit, reopen or recover.
Fairness ==
  /\ \A w \in Workers : WF_vars(PassStep(w))
  /\ \A j \in Jobs : WF_vars(LeaseExpires(j)) /\ WF_vars(BackoffEnds(j)) /\ WF_vars(Sweep(j))
  /\ \A c \in Clients : WF_vars(Refresh(c) \/ RefreshLost(c))

FairSpec == Spec /\ Fairness

-----------------------------------------------------------------------------
(* Safety.                                                                   *)

\* A unit shown as being evaluated has a job that will decide it: no order of
\* claims, crashes, sweeps, replays and recoveries strands a learner's answer.
PendingUnitHasLiveJob ==
  \A u \in Units :
    unit[u] = "evaluation_pending" =>
      /\ latest[u] > 0
      /\ overall[LatestEval(u)] = "partial"
      /\ \E g \in 1..MaxGen : job[<<LatestEval(u), g>>] \in Active

\* An undecided answer is the newest of its unit and the unit waits for it: the
\* learner cannot supersede or reopen an answer that is still being evaluated,
\* so the "stale version" branches of the completion RPC are never taken.
AwaitedAnswerIsCurrent ==
  \A e \in Evals :
    overall[e] = "partial" => IsCurrent(e) /\ unit[e[1]] = "evaluation_pending"

\* At most one job of an evaluation is pending or running, which the partial
\* unique index demands: recovery never meets an active earlier generation.
OneActiveJob ==
  \A e \in Evals : \A g, h \in 1..MaxGen :
    job[<<e, g>>] \in Active /\ job[<<e, h>>] \in Active => g = h

\* Once the language score is written no job of that evaluation can run again,
\* though its worker may not have seen the reply and calls the fail RPC.
ScoredAnswerIsSettled ==
  \A e \in Evals :
    overall[e] = "completed" =>
      /\ language[e] = "completed"
      /\ \A g \in 1..MaxGen : job[<<e, g>>] \notin Active

\* A queued job has an attempt left.  CHECK (attempts <= max_attempts) would make
\* the claim of any other raise, for that pass and for every later one.
RetryBudget == \A j \in Jobs : job[j] = "pending" => attempts[j] < MaxAttempts

\* The unit status that completion and rejection read before their locks is still
\* the unit's status when the owner of an undecided answer writes its verdict.
StaleReadHarmless ==
  \A w \in Workers :
    LET e == EvalOf(worker[w].job)
    IN worker[w].phase \in {"completing", "rejecting"} /\ Owns(w) /\ ~AlreadyDecided(e) =>
         worker[w].seen = unit[e[1]]

\* A unit's status agrees with the verdict and the issues of its newest answer: a
\* ready one has no must_fix, a rewrite is asked for a must_fix only, and only an
\* answer whose bytes are corrupt fails its unit.
UnitMatchesVerdict ==
  \A u \in Units :
    LET e == LatestEval(u)
    IN /\ unit[u] = "ready" =>
            /\ overall[e] \in Terminal /\ e \notin mustFix
            /\ overall[e] = "failed" => e \in corrupt
       /\ unit[u] = "rewrite_required" => overall[e] = "completed" /\ e \in mustFix
       /\ unit[u] = "evaluation_failed" => e \in corrupt /\ language[e] # "completed"

\* A completed session really meets the conditions of section 4.6c, whichever
\* coverage rows concurrent refreshes wrote and in whichever order.
CompletedSessionSound ==
  status = "completed" =>
    /\ \A u \in Units : unit[u] = "ready" /\ overall[LatestEval(u)] \in Terminal
    /\ Covered(latest)
    /\ ~UnresolvedMustFix
    /\ outcome \in {"deterministic_only", "fully_evaluated"}

\* The session status never lags a committed unit transition: it is what a rollup
\* would compute now, up to a coverage row whose finalize has not run yet.
StatusTracksUnits ==
  \/ status = SessionStatus
  \/ /\ \A u \in Units : unit[u] = "ready"
     /\ {status, SessionStatus} = {"completed", "rewrite_required"}

(* What a step may never do.                                                 *)

\* No retry, sweep, recovery or late worker touches a score once it is written.
ScoreIsFinal ==
  [][\A e \in Evals : overall[e] = "completed" =>
       /\ overall'[e] = "completed" /\ language'[e] = "completed"
       /\ (e \in mustFix) = (e \in mustFix')]_vars

\* A pass whose claim was swept, re-claimed or already settled writes nothing:
\* its completion, rejection or failure call changes no row.
LostClaim(w) ==
  LET j == worker[w].job IN ~(job[j] = "running" /\ attempts[j] = worker[w].token)

FencedWorkerIsInert ==
  [][\A w \in Workers :
       worker[w].phase # "idle" /\ LostClaim(w) /\ worker'[w] # worker[w] =>
         UNCHANGED <<unitVars, evalVars, jobVars, sessionVars>>]_vars

(* Liveness, under FairSpec.                                                 *)

\* Every job ends although any worker may crash at any step: the lease, the
\* sweep and the attempt limit bound what a crash can cost.
EveryJobEnds == \A j \in Jobs : job[j] \in Active ~> job[j] \in {"done", "failed"}

\* A session never hangs in evaluation_pending (section 4.3b).
SessionSettles == status = "evaluation_pending" ~> status # "evaluation_pending"

(* What the documents say and the code does not do.                          *)

\* Section 9.1a: a language failure that is later recovered reaches a full
\* evaluation.
RecoveredIsEvaluated ==
  \A e \in Evals, g \in 2..MaxGen : job[<<e, g>>] = "done" => language[e] = "completed"

\* The header of ewp_reject_corrupt_version: a corrupt version, once rejected,
\* stays failed and never becomes terminal_partial.
RejectedStaysFailed ==
  [][\A e \in Evals : overall[e] = "failed" => overall'[e] = "failed"]_vars

\* The same header: rejection forces the unit to evaluation_failed, and a corrupt
\* version can never become a usable result.
RejectedIsUnusable ==
  \A u \in Units : latest[u] > 0 /\ overall[LatestEval(u)] = "failed" => unit[u] # "ready"

\* Section 4.6c: with the refreshes over, a session that meets the completion
\* conditions is completed.
CompletedWhenConditionsHold ==
  /\ \A u \in Units : unit[u] = "ready"
  /\ \A c \in Clients : request[c].phase = "idle"
  /\ Covered(latest)
  => status = "completed"

\* Section 7.2: only an open session can be reopened.
CompletedSessionStaysClosed == [][status = "completed" => status' # "active"]_vars

-----------------------------------------------------------------------------
(* The abstract specification this one implements while no stored answer is  *)
(* corrupted.                                                                *)

DecisionOf(o) ==
  CASE o = "partial" -> "awaited"
    [] o = "completed" -> "scored"
    [] o = "terminal_partial" -> "fallback"
    [] o = "failed" -> "rejected"
    [] OTHER -> "none"

decision == [e \in Evals |-> DecisionOf(overall[e])]

Lifecycle == INSTANCE WritingLifecycle WITH
  NumUnits <- NumUnits, MaxVersion <- MaxVersion, unit <- unit, latest <- latest, decision <- decision

\* The queue, its workers, sweeps, retries and recoveries only ever submit, decide
\* and reopen: a decision is taken once, moves its unit once and is never redone.
ImplementsLifecycle == Lifecycle!Spec
=============================================================================
