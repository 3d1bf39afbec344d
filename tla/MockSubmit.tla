----------------------------- MODULE MockSubmit -----------------------------
(***************************************************************************)
(* What follows the submission of one mock attempt: the score, the         *)
(* mock_tests row, the analytics and the mastery write-back, done by the   *)
(* submit route (app/backend/app/api/mock_engine.py) and by the jobs that  *)
(* the sweeper runs (app/backend/app/study_os/mock_engine.py and           *)
(* mastery_writer.py, migrations 145 and 180).                             *)
(*                                                                         *)
(* One server process: its routes run one at a time ("route"), with the    *)
(* sweeper's thread ("sweeper") beside them. A step is one database call.  *)
(***************************************************************************)
EXTENDS Naturals

CONSTANTS
  MaxTries,       \* attempts of a job before it fails (5 in the code)
  MaxSubmits,     \* bound: submit requests
  MaxFaults,      \* bound: faults, of all kinds together
  Faults,         \* "call": a call raises without effect; "reply": it takes effect
                  \* and raises; "read": a read fails and its default is used;
                  \* "schedule": schedule_job's write fails and is swallowed;
                  \* "crash": the process dies
  LateSubmits,    \* the learner may submit after the sweeper began to close attempts
  Quick           \* the route ends its mastery write-back before the next pass lists it

ASSUME SubmitAssumption ==
  /\ {MaxTries, MaxSubmits, MaxFaults} \subseteq Nat
  /\ Faults \subseteq {"call", "reply", "read", "schedule", "crash"}
  /\ {LateSubmits, Quick} \subseteq BOOLEAN

VARIABLES
  status,      \* mock_attempts.status
  clock,       \* "open", or "overdue": 60 seconds past the end of the window
  submits,     \* submit requests so far
  faults,      \* faults so far
  tests,       \* mock_tests rows of the attempt
  analytics,   \* its summary and the classification of its answers
  applied,     \* how often its deltas were added to the learner's mastery
  errors,      \* how often its error patterns were inserted
  drafted,     \* its correction tasks exist
  jobs,        \* mock_attempt_jobs: the newest row of each kind
  settled,     \* an older mastery_retry row is done
  thread       \* what the route and the sweeper do

attemptVars == <<status, clock, submits>>
derivedVars == <<tests, analytics, applied, errors, drafted>>
vars == <<status, clock, submits, faults, tests, analytics, applied, errors, drafted, jobs, settled, thread>>

Kinds == {"auto_submit", "analytics_retry", "mock_tests_retry", "mastery_retry"}
NoJob == "none"
Threads == {"route", "sweeper"}
Steps == {"idle", "fetch", "flip", "emit", "derive", "compute", "settle", "repairTests",
          "repairSummary", "claim", "ready", "audit", "apply", "errors", "draft", "check",
          "insert", "redraft", "handoff", "sched", "put", "finish", "raise", "list", "next"}

\* status "absent": no row of the kind yet; due: its scheduled_for has passed.
Row == [status : {"absent", "pending", "running", "done", "failed"},
        tries : 0 .. MaxTries, due : BOOLEAN]

\* job: the job it runs; was: the attempt was submitted when the request came;
\* kind, found, then: the arguments, the read and the caller of schedule_job;
\* todo: the due jobs that the sweeper listed.
Thread == [at : Steps, job : Kinds \cup {NoJob}, was : BOOLEAN, kind : Kinds, found : BOOLEAN,
           then : Steps, todo : SUBSET Kinds]

Idle == [at |-> "idle", job |-> NoJob, was |-> FALSE, kind |-> "auto_submit", found |-> FALSE,
         then |-> "idle", todo |-> {}]

\* More than one of anything is counted as 2.
Several(n) == IF n = 0 THEN 1 ELSE 2

TypeOK ==
  /\ status \in {"in_progress", "submitted"}
  /\ clock \in {"open", "overdue"}
  /\ submits \in 0 .. MaxSubmits /\ faults \in 0 .. MaxFaults
  /\ {tests, applied, errors} \subseteq 0 .. 2
  /\ analytics \in {"none", "partial", "full"}
  /\ {drafted, settled} \subseteq BOOLEAN
  /\ jobs \in [Kinds -> Row]
  /\ thread \in [Threads -> Thread]

Init ==
  /\ status = "in_progress" /\ clock = "open" /\ submits = 0 /\ faults = 0
  /\ tests = 0 /\ applied = 0 /\ errors = 0
  /\ analytics = "none"
  /\ drafted = FALSE /\ settled = FALSE
  /\ jobs = [k \in Kinds |-> [status |-> "absent", tries |-> 0, due |-> FALSE]]
  /\ thread = [t \in Threads |-> Idle]

-----------------------------------------------------------------------------
(* Rows of mock_attempt_jobs.                                                *)

Active(k) == jobs[k].status \in {"pending", "running"}
Due == {k \in Kinds : Active(k) /\ jobs[k].due}

Put(k, s, due) == jobs' = [jobs EXCEPT ![k].status = s, ![k].due = due]

\* A new row of the kind; a mastery_retry row that is done stays beside it.
Insert(k, s, due) ==
  /\ jobs' = [jobs EXCEPT ![k] = [status |-> s, tries |-> 0, due |-> due]]
  /\ settled' = (settled \/ (k = "mastery_retry" /\ jobs[k].status = "done"))

-----------------------------------------------------------------------------
(* Threads.                                                                  *)

IsAt(t, step) == thread[t].at = step
GoesTo(t, step) == thread' = [thread EXCEPT ![t].at = step]
Raises(t) == GoesTo(t, "raise")
Leaves(t) == thread' = [thread EXCEPT ![t].at = IF t = "route" THEN "idle" ELSE "next",
                                      ![t].job = NoJob, ![t].was = FALSE]
Schedules(t, k, then) ==
  thread' = [thread EXCEPT ![t].at = "sched", ![t].kind = k, ![t].then = then]
Returns(t, step) ==
  thread' = [thread EXCEPT ![t].at = step, ![t].kind = Idle.kind, ![t].found = FALSE,
                           ![t].then = Idle.then]

Fault(kind) == kind \in Faults /\ faults < MaxFaults /\ faults' = faults + 1
NoFault == UNCHANGED faults

\* The call may raise: without effect, or after it took effect.
MayRaise(unchanged, done) == \/ Fault("call") /\ unchanged
                             \/ Fault("reply") /\ done

\* A submit request: the route reads the status, for its own use later.
Submit ==
  /\ IsAt("route", "idle") /\ submits < MaxSubmits
  /\ LateSubmits \/ clock = "open" \/ status = "submitted"
  /\ submits' = submits + 1
  /\ thread' = [thread EXCEPT !["route"] =
                  [Idle EXCEPT !.at = "fetch", !.was = (status = "submitted")]]
  /\ UNCHANGED <<status, clock, faults, derivedVars, jobs, settled>>

\* submit_attempt and auto_submit_attempt read the attempt; the route repairs what
\* a submitted attempt lacks, the sweeper has nothing to do. An attempt that cannot
\* be read is not found.
Fetch(t) ==
  /\ IsAt(t, "fetch")
  /\ \/ /\ NoFault
        /\ GoesTo(t, CASE status = "in_progress" -> "flip"
                       [] status = "submitted" /\ t = "route" -> "repairTests"
                       [] status = "submitted" /\ t = "sweeper" -> "finish")
     \/ Fault("read") /\ IF t = "route" THEN Leaves(t) ELSE GoesTo(t, "finish")
  /\ UNCHANGED <<attemptVars, derivedVars, jobs, settled>>

\* _finalize_submission sets the status whatever became of it since.
Flip(t) ==
  /\ IsAt(t, "flip")
  /\ \/ status' = "submitted" /\ NoFault /\ GoesTo(t, "emit")
     \/ MayRaise(status' = status, status' = "submitted") /\ Raises(t)
  /\ UNCHANGED <<clock, submits, derivedVars, jobs, settled>>

\* (mutant) A failure of the insert is only logged.
EmitSwallowed(t) ==
  /\ IsAt(t, "emit")
  /\ \/ tests' = Several(tests) /\ NoFault
     \/ MayRaise(tests' = tests, tests' = Several(tests))
  /\ GoesTo(t, "derive")
  /\ UNCHANGED <<attemptVars, analytics, applied, errors, drafted, jobs, settled>>

\* _emit_mock_tests_row: a failure schedules its retry.
Emit(t) ==
  /\ IsAt(t, "emit")
  /\ \/ tests' = Several(tests) /\ NoFault /\ GoesTo(t, "derive")
     \/ /\ MayRaise(tests' = tests, tests' = Several(tests))
        /\ Schedules(t, "mock_tests_retry", "derive")
  /\ UNCHANGED <<attemptVars, analytics, applied, errors, drafted, jobs, settled>>

\* The route derives the analytics inline, the sweeper by a job.
Derive(t) ==
  /\ IsAt(t, "derive")
  /\ IF t = "route" THEN GoesTo(t, "compute") ELSE Schedules(t, "analytics_retry", "finish")
  /\ UNCHANGED <<attemptVars, faults, derivedVars, jobs, settled>>

Part == IF analytics = "none" THEN "partial" ELSE analytics

\* compute_and_persist: upserts, the summary first, the classifications last.
Compute(t) ==
  /\ IsAt(t, "compute")
  /\ \/ /\ status = "submitted"
        /\ analytics' = "full" /\ NoFault
        /\ GoesTo(t, IF t = "route" THEN "settle" ELSE "handoff")
     \/ /\ \/ status # "submitted" /\ analytics' = analytics /\ NoFault
           \/ MayRaise(analytics' \in {analytics, Part}, analytics' = "full")
        /\ IF t = "route" THEN Schedules(t, "analytics_retry", "claim") ELSE Raises(t)
  /\ UNCHANGED <<attemptVars, tests, applied, errors, drafted, jobs, settled>>

\* The route completes whatever analytics job is active.
Settle ==
  /\ IsAt("route", "settle")
  /\ \/ /\ IF Active("analytics_retry") THEN Put("analytics_retry", "done", FALSE) ELSE UNCHANGED jobs
        /\ NoFault
     \/ Fault("schedule") /\ UNCHANGED jobs
  /\ GoesTo("route", "claim")
  /\ UNCHANGED <<attemptVars, derivedVars, settled>>

\* _repair_submitted_side_effects.
RepairTests ==
  /\ IsAt("route", "repairTests")
  /\ \/ /\ (tests = 0 /\ NoFault) \/ Fault("read")
        /\ Schedules("route", "mock_tests_retry", "repairSummary")
     \/ tests > 0 /\ NoFault /\ GoesTo("route", "repairSummary")
  /\ UNCHANGED <<attemptVars, derivedVars, jobs, settled>>

RepairSummary ==
  /\ IsAt("route", "repairSummary")
  /\ \/ /\ (analytics = "none" /\ NoFault) \/ Fault("read")
        /\ Schedules("route", "analytics_retry", "claim")
     \/ analytics # "none" /\ NoFault /\ GoesTo("route", "claim")
  /\ UNCHANGED <<attemptVars, derivedVars, jobs, settled>>

\* schedule_job reads the active row of the kind, then resets or inserts one; the
\* unique index refuses a second active row. Its own failures are swallowed, those
\* of enqueue_mastery_retry_required are not.
ScheduleRead(t) ==
  /\ IsAt(t, "sched")
  /\ \/ /\ NoFault
        /\ thread' = [thread EXCEPT ![t].at = "put", ![t].found = Active(thread[t].kind)]
     \/ /\ Fault("read")
        /\ IF thread[t].kind = "mastery_retry" THEN Returns(t, "raise") ELSE GoesTo(t, "put")
  /\ UNCHANGED <<attemptVars, derivedVars, jobs, settled>>

SchedulePut(t) ==
  /\ IsAt(t, "put")
  /\ LET k == thread[t].kind
         swallowed == k # "mastery_retry"
     IN \/ /\ thread[t].found
           /\ Put(k, "pending", TRUE)
           /\ UNCHANGED settled
           /\ NoFault /\ Returns(t, thread[t].then)
        \/ /\ ~thread[t].found /\ ~Active(k)
           /\ Insert(k, "pending", TRUE)
           /\ NoFault /\ Returns(t, thread[t].then)
        \/ /\ (~thread[t].found /\ Active(k) /\ NoFault) \/ Fault("schedule")
           /\ UNCHANGED <<jobs, settled>>
           /\ Returns(t, IF swallowed THEN thread[t].then ELSE "raise")
  /\ UNCHANGED <<attemptVars, derivedVars>>

-----------------------------------------------------------------------------
(* The mastery write-back.                                                   *)

MasteryDone == settled \/ jobs["mastery_retry"].status = "done"

\* The route claims the write-back unless it is done or somebody has it.
Claim ==
  /\ IsAt("route", "claim")
  /\ LET taken == Active("mastery_retry") \/ (thread["route"].was /\ MasteryDone)
     IN \/ taken /\ NoFault /\ Leaves("route") /\ UNCHANGED <<jobs, settled>>
        \/ /\ ~taken /\ Insert("mastery_retry", "running", FALSE)
           /\ \/ /\ NoFault
                 /\ thread' = [thread EXCEPT !["route"].at = "ready", !["route"].was = FALSE,
                                              !["route"].job = "mastery_retry"]
              \/ Fault("reply") /\ Leaves("route")
        \/ Fault("call") /\ Leaves("route") /\ UNCHANGED <<jobs, settled>>
  /\ UNCHANGED <<attemptVars, derivedVars>>

\* check_classification_readiness: without it the analytics run again first.
Ready(t) ==
  /\ IsAt(t, "ready")
  /\ \/ analytics = "full" /\ NoFault /\ GoesTo(t, "audit")
     \/ analytics # "full" /\ NoFault /\ Schedules(t, "analytics_retry", "raise")
     \/ Fault("call") /\ Raises(t)
  /\ UNCHANGED <<attemptVars, derivedVars, jobs, settled>>

\* (mutant) The delta is added without a look for the audit row.
AuditSkipped(t) ==
  /\ IsAt(t, "audit")
  /\ GoesTo(t, "apply")
  /\ UNCHANGED <<attemptVars, faults, derivedVars, jobs, settled>>

\* apply_mock_mastery_delta looks for an audit row, then adds the delta; nothing
\* keeps two transactions from both finding none.
Audit(t) ==
  /\ IsAt(t, "audit")
  /\ GoesTo(t, IF applied = 0 THEN "apply" ELSE "errors")
  /\ UNCHANGED <<attemptVars, faults, derivedVars, jobs, settled>>

Apply(t) ==
  /\ IsAt(t, "apply")
  /\ \/ applied' = Several(applied) /\ NoFault /\ GoesTo(t, "errors")
     \/ MayRaise(applied' = applied, applied' = Several(applied)) /\ Raises(t)
  /\ UNCHANGED <<attemptVars, tests, analytics, errors, drafted, jobs, settled>>

\* _apply_error_patterns inserts.
InsertErrors(t) ==
  /\ IsAt(t, "errors")
  /\ \/ errors' = Several(errors) /\ NoFault /\ GoesTo(t, "draft")
     \/ MayRaise(errors' = errors, errors' = Several(errors)) /\ Raises(t)
  /\ UNCHANGED <<attemptVars, tests, analytics, applied, drafted, jobs, settled>>

\* _draft_correction_tasks needs the mock_tests row; without it they are deferred.
Draft(t) ==
  /\ \/ IsAt(t, "draft") \/ IsAt(t, "redraft")
  /\ \/ drafted' = (drafted \/ tests > 0) /\ NoFault /\ GoesTo(t, "finish")
     \/ MayRaise(drafted' = drafted, drafted' = (drafted \/ tests > 0)) /\ Raises(t)
  /\ UNCHANGED <<attemptVars, tests, analytics, applied, errors, jobs, settled>>

-----------------------------------------------------------------------------
(* The sweeper.                                                              *)

\* Phase A: an expired attempt that is still open gets its auto_submit job.
Detect ==
  /\ IsAt("sweeper", "idle")
  /\ \/ /\ status = "in_progress" /\ clock = "overdue" /\ NoFault
        /\ IF Active("auto_submit") THEN Put("auto_submit", "pending", TRUE) /\ UNCHANGED settled
                                    ELSE Insert("auto_submit", "pending", TRUE)
     \/ /\ ~(status = "in_progress" /\ clock = "overdue") 
        /\ NoFault /\ UNCHANGED <<jobs, settled>>
     \/ (Fault("schedule") \/ Fault("read")) /\ UNCHANGED <<jobs, settled>>
  /\ GoesTo("sweeper", "list")
  /\ UNCHANGED <<attemptVars, derivedVars>>

\* Phase B: the due jobs, read once per pass.
List ==
  /\ IsAt("sweeper", "list")
  /\ \/ /\ NoFault
        /\ thread' = [thread EXCEPT !["sweeper"].at = "next",
                        !["sweeper"].todo = IF Quick THEN Due \ {thread["route"].job} ELSE Due]
     \/ Fault("read") /\ GoesTo("sweeper", "next")
  /\ UNCHANGED <<attemptVars, derivedVars, jobs, settled>>

Begins(k) ==
  CASE k = "auto_submit" -> "fetch"
    [] k = "analytics_retry" -> "compute"
    [] k = "mock_tests_retry" -> "check"
    [] k = "mastery_retry" -> "ready"

\* (mutant) One attempt more than there are.
TakeOneMore(k) ==
  /\ IsAt("sweeper", "next") /\ k \in thread["sweeper"].todo
  /\ IF jobs[k].tries > MaxTries
       THEN /\ Put(k, "failed", FALSE)
            /\ thread' = [thread EXCEPT !["sweeper"].todo = @ \ {k}]
       ELSE /\ jobs' = [jobs EXCEPT ![k] = [status |-> "running", tries |-> @.tries + 1, due |-> FALSE]]
            /\ thread' = [thread EXCEPT !["sweeper"].at = Begins(k), !["sweeper"].job = k,
                                        !["sweeper"].todo = @ \ {k}]
  /\ UNCHANGED <<attemptVars, faults, derivedVars, settled>>

\* A job without attempts left fails; any other is marked running and begun.
Take(k) ==
  /\ IsAt("sweeper", "next") /\ k \in thread["sweeper"].todo
  /\ IF jobs[k].tries >= MaxTries
       THEN /\ Put(k, "failed", FALSE)
            /\ thread' = [thread EXCEPT !["sweeper"].todo = @ \ {k}]
       ELSE /\ jobs' = [jobs EXCEPT ![k] = [status |-> "running", tries |-> @.tries + 1, due |-> FALSE]]
            /\ thread' = [thread EXCEPT !["sweeper"].at = Begins(k), !["sweeper"].job = k,
                                        !["sweeper"].todo = @ \ {k}]
  /\ UNCHANGED <<attemptVars, faults, derivedVars, settled>>

PassEnds ==
  /\ IsAt("sweeper", "next") /\ thread["sweeper"].todo = {}
  /\ thread' = [thread EXCEPT !["sweeper"] = Idle]
  /\ UNCHANGED <<attemptVars, faults, derivedVars, jobs, settled>>

\* After the analytics the mastery write-back is asked for (D4).
Handoff ==
  /\ IsAt("sweeper", "handoff")
  /\ Schedules("sweeper", "mastery_retry", "finish")
  /\ UNCHANGED <<attemptVars, faults, derivedVars, jobs, settled>>

\* (mutant) The retry inserts without looking for the row.
CheckNothing ==
  /\ IsAt("sweeper", "check")
  /\ GoesTo("sweeper", "insert")
  /\ UNCHANGED <<attemptVars, faults, derivedVars, jobs, settled>>

\* _retry_emit_mock_tests_row: one that is there is left alone, and one that cannot
\* be read is taken for missing.
Check ==
  /\ IsAt("sweeper", "check")
  /\ \/ NoFault /\ GoesTo("sweeper", IF tests > 0 THEN "redraft" ELSE "insert")
     \/ Fault("read") /\ GoesTo("sweeper", "insert")
  /\ UNCHANGED <<attemptVars, derivedVars, jobs, settled>>

\* (mutant) The corrections are not drafted after the row.
ReEmitOnly ==
  /\ IsAt("sweeper", "insert")
  /\ \/ tests' = Several(tests) /\ NoFault /\ GoesTo("sweeper", "finish")
     \/ MayRaise(tests' = tests, tests' = Several(tests)) /\ Raises("sweeper")
  /\ UNCHANGED <<attemptVars, analytics, applied, errors, drafted, jobs, settled>>

ReEmit ==
  /\ IsAt("sweeper", "insert")
  /\ \/ tests' = Several(tests) /\ NoFault /\ GoesTo("sweeper", "redraft")
     \/ MayRaise(tests' = tests, tests' = Several(tests)) /\ Raises("sweeper")
  /\ UNCHANGED <<attemptVars, analytics, applied, errors, drafted, jobs, settled>>

\* The end of a job: _complete_job for whatever is active of its kind, and
\* complete_mock_mastery_retry, which the unique index refuses to a second row.
Finish(t) ==
  /\ IsAt(t, "finish")
  /\ LET k == thread[t].job
     IN \/ /\ k # "mastery_retry" /\ Leaves(t)
           /\ IF Active(k) THEN Put(k, "done", FALSE) ELSE UNCHANGED jobs
        \/ k = "mastery_retry" /\ ~settled /\ Leaves(t) /\ Put(k, "done", FALSE)
        \/ k = "mastery_retry" /\ settled /\ Raises(t) /\ UNCHANGED jobs
  /\ UNCHANGED <<attemptVars, faults, derivedVars, settled>>

\* (mutant) The sweeper takes a job that raised for done.
HandleSwallows(t) ==
  /\ IsAt(t, "raise")
  /\ LET k == thread[t].job
     IN \/ k # NoJob /\ NoFault /\ Put(k, IF t = "route" THEN "pending" ELSE "done", t = "route")
        \/ ((k = NoJob /\ NoFault) \/ Fault("schedule")) /\ UNCHANGED jobs
  /\ Leaves(t)
  /\ UNCHANGED <<attemptVars, derivedVars, settled>>

\* What an exception leads to: the route gives a claimed write-back to the sweeper
\* and answers; the sweeper reschedules its job with a backoff.
Handle(t) ==
  /\ IsAt(t, "raise")
  /\ LET k == thread[t].job
     IN \/ k # NoJob /\ NoFault /\ Put(k, "pending", t = "route")
        \/ ((k = NoJob /\ NoFault) \/ Fault("schedule")) /\ UNCHANGED jobs
  /\ Leaves(t)
  /\ UNCHANGED <<attemptVars, derivedVars, settled>>

-----------------------------------------------------------------------------

\* A backoff or a lease ends.
DueComes(k) ==
  /\ Active(k) /\ ~jobs[k].due
  /\ Put(k, jobs[k].status, TRUE)
  /\ UNCHANGED <<attemptVars, faults, derivedVars, settled, thread>>

Overdue ==
  /\ clock = "open" /\ (LateSubmits \/ IsAt("route", "idle"))
  /\ clock' = "overdue"
  /\ UNCHANGED <<status, submits, faults, derivedVars, jobs, settled, thread>>

Crash ==
  /\ Fault("crash")
  /\ thread' = [t \in Threads |-> Idle]
  /\ UNCHANGED <<status, clock, submits, derivedVars, jobs, settled>>

RouteStep ==
  \/ Fetch("route") \/ Flip("route") \/ Emit("route") \/ Derive("route") \/ Compute("route")
  \/ Settle \/ RepairTests \/ RepairSummary \/ ScheduleRead("route") \/ SchedulePut("route")
  \/ Claim \/ Ready("route") \/ Audit("route") \/ Apply("route") \/ InsertErrors("route")
  \/ Draft("route") \/ Finish("route") \/ Handle("route")

SweeperStep ==
  \/ Detect \/ List \/ (\E k \in Kinds : Take(k)) \/ PassEnds \/ Fetch("sweeper") \/ Flip("sweeper")
  \/ Emit("sweeper") \/ Derive("sweeper") \/ Compute("sweeper") \/ Handoff \/ Check \/ ReEmit
  \/ ScheduleRead("sweeper") \/ SchedulePut("sweeper") \/ Ready("sweeper") \/ Audit("sweeper")
  \/ Apply("sweeper") \/ InsertErrors("sweeper") \/ Draft("sweeper") \/ Finish("sweeper")
  \/ Handle("sweeper")

Next ==
  \/ Submit \/ RouteStep \/ SweeperStep \/ Overdue \/ Crash
  \/ \E k \in Kinds : DueComes(k)

Spec == Init /\ [][Next]_vars

\* A request and a pass that began go on, the scheduler starts passes for ever,
\* backoffs and leases end, and the window of the attempt closes.
FairSpec ==
  /\ Spec
  /\ WF_vars(RouteStep) /\ WF_vars(SweeperStep) /\ WF_vars(Overdue)
  /\ \A k \in Kinds : WF_vars(DueComes(k))

-----------------------------------------------------------------------------
(* Properties.                                                               *)

\* Whatever fails, is retried or resubmitted, the attempt appears once in the
\* history of mocks (mock_tests has no unique index on mock_attempt_id).
OneTestsRow == tests <= 1

\* docs/study_os/mock_submit_flow.md, "Idempotency + atomicity": the deltas of an
\* attempt are added once.
AppliedOnce == applied <= 1

\* docs/study_os/mock_submit_flow.md: running the writer again is a no-op.
ErrorsOnce == errors <= 1

\* Somebody still owes the side effect that a job of kind k retries.
Owed(k) == \/ jobs[k].status \notin {"absent", "done"}
           \/ \E t \in Threads : \/ thread[t].at \in {"emit", "derive", "compute"}
                                 \/ thread[t].at \in {"sched", "put"} /\
                                      (thread[t].kind = k \/ thread[t].then \in {"derive", "repairSummary"})

\* A submitted attempt has its mock_tests row and its analytics, or somebody owes
\* them: none is forgotten.
NothingForgotten ==
  status = "submitted" =>
    /\ tests > 0 \/ Owed("mock_tests_retry")
    /\ analytics = "full" \/ Owed("analytics_retry")

\* The corrections of an attempt whose mock_tests row came late are drafted too.
CorrectionsFollow ==
  MasteryDone /\ tests > 0 =>
    drafted \/ Active("mock_tests_retry") \/ jobs["mock_tests_retry"].status = "failed"

\* While a job has more attempts than there are faults: whether the learner submits or
\* not, the jobs come to an end and leave the attempt graded, in the history and
\* analysed, and a write-back that was begun is applied or has failed as a job (the
\* attempts it spends while the analytics are not ready count too).
AttemptSettles ==
  <>[](/\ \A k \in Kinds : ~Active(k)
       /\ status = "submitted" /\ tests > 0 /\ analytics = "full"
       /\ applied > 0 \/ jobs["mastery_retry"].status \in {"absent", "failed"})
=============================================================================
