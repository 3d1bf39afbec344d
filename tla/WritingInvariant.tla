-------------------------- MODULE WritingInvariant --------------------------
(***************************************************************************)
(* The inductive invariant of WritingSession.  It ties the four places the *)
(* state of one answer is spread over: its unit, its evaluation envelope,  *)
(* its chain of job generations and the passes that may hold a claim.      *)
(***************************************************************************)
EXTENDS WritingSession

Gens == 1..MaxGen

\* Submission writes the version, the envelope and the first job together.
EnvelopesExist ==
  \A e \in Evals :
    /\ overall[e] = "none" <=> e[2] > latest[e[1]]
    /\ overall[e] = "none" => \A g \in Gens : job[<<e, g>>] = "none"
    /\ overall[e] # "none" => job[<<e, 1>>] # "none"

\* Only the newest answer can be undecided, its unit waits for it, and it is
\* still in the hands of its first job.
AwaitedIsInFlight ==
  \A e \in Evals :
    overall[e] = "partial" =>
      /\ IsCurrent(e)
      /\ unit[e[1]] = "evaluation_pending"
      /\ job[<<e, 1>>] \in Active

PendingIsAwaited ==
  \A u \in Units :
    unit[u] = "evaluation_pending" =>
      latest[u] > 0 /\ overall[LatestEval(u)] = "partial"

\* A generation exists only above failed ones.
GenerationsOrdered ==
  \A e \in Evals : \A g, h \in Gens :
    g < h /\ job[<<e, h>>] # "none" => job[<<e, g>>] = "failed"

ScoredIsDone ==
  \A e \in Evals :
    /\ overall[e] = "completed" <=> language[e] = "completed"
    /\ overall[e] = "completed" => job[<<e, 1>>] = "done"
    /\ e \in mustFix => overall[e] = "completed"

FailedIsDecided ==
  \A j \in Jobs : job[j] = "failed" => overall[EvalOf(j)] \in Terminal \ {"completed"}

AttemptsCounted ==
  \A j \in Jobs :
    /\ job[j] = "none" => attempts[j] = 0
    /\ job[j] = "pending" => attempts[j] < MaxAttempts

\* The claim_token of a running job is the one its last claim minted.
TokensCurrent ==
  \A j \in Jobs : job[j] = "running" => token[j] = attempts[j] /\ attempts[j] > 0

ClaimsPast ==
  \A w \in Workers :
    worker[w].phase # "idle" =>
      /\ worker[w].token \in 1..attempts[worker[w].job]
      /\ job[worker[w].job] # "none"

\* No two passes were ever handed the same token for the same job.
ClaimsDistinct ==
  \A v, w \in Workers :
    worker[v].phase # "idle" /\ worker[w].phase # "idle"
    /\ worker[v].job = worker[w].job /\ worker[v].token = worker[w].token => v = w

SeenIsPending ==
  \A w \in Workers :
    worker[w].phase \in {"completing", "rejecting"} /\ Owns(w)
    /\ overall[EvalOf(worker[w].job)] = "partial" => worker[w].seen = "evaluation_pending"

DamageIsReal ==
  \A w \in Workers :
    worker[w].phase \in {"damaged", "rejecting"} => EvalOf(worker[w].job) \in corrupt

VerdictsMatch ==
  \A u \in Units :
    LET e == LatestEval(u)
    IN /\ unit[u] \in {"ready", "rewrite_required", "evaluation_failed"} =>
            latest[u] > 0 /\ overall[e] \in Terminal
       /\ unit[u] = "ready" => e \notin mustFix /\ (overall[e] = "failed" => e \in corrupt)
       /\ unit[u] = "rewrite_required" => overall[e] = "completed" /\ e \in mustFix
       /\ unit[u] = "evaluation_failed" => e \in corrupt /\ overall[e] # "completed"

\* What the rows of one answer say of each other.
AnswerInv ==
  /\ EnvelopesExist
  /\ AwaitedIsInFlight
  /\ PendingIsAwaited
  /\ GenerationsOrdered
  /\ ScoredIsDone
  /\ FailedIsDecided
  /\ AttemptsCounted
  /\ VerdictsMatch

\* What the passes know of the jobs they claimed.
ClaimInv ==
  /\ TokensCurrent
  /\ ClaimsPast
  /\ ClaimsDistinct
  /\ SeenIsPending
  /\ DamageIsReal

IInv == TypeOK /\ AnswerInv /\ ClaimInv
=============================================================================
