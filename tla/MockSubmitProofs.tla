-------------------------- MODULE MockSubmitProofs --------------------------
(***************************************************************************)
(* Proofs about MockSubmit, for any bounds, faults and attempts of a job:  *)
(* it is type correct; a learner who submits before the window has ended   *)
(* appears once in the history of mocks, as long as no read fails; the     *)
(* deltas of an attempt are added once, as long as the route ends its      *)
(* write-back before the next pass lists it; its corrections follow the    *)
(* mock_tests row, as long as schedule_job's own writes do not fail; and   *)
(* nothing that a submitted attempt needs is forgotten, as long as a call  *)
(* that fails had no effect and the process does not die.                  *)
(***************************************************************************)
EXTENDS MockSubmit, TLAPS

\* Where a thread is tells what it works on and what it schedules.
Coherent(t, at, job, kind, then) ==
  /\ kind # "auto_submit" <=> at \in {"sched", "put"}
  /\ then # "idle" <=> at \in {"sched", "put"}
  /\ then \in {"idle", "derive", "repairSummary", "claim", "finish", "raise"}
  /\ at \in {"ready", "audit", "apply", "errors", "draft"} => job = "mastery_retry"
  /\ t = "route" =>
       /\ job \in {NoJob, "mastery_retry"}
       /\ at \notin {"check", "insert", "redraft", "handoff"} /\ then # "finish"
       /\ at = "finish" => job = "mastery_retry"
  /\ t = "sweeper" =>
       /\ at \in {"idle", "list", "next"} <=> job = NoJob
       /\ at \in {"fetch", "flip", "emit"} \/ kind = "mock_tests_retry" => job = "auto_submit"
       /\ at \in {"check", "insert"} => job = "mock_tests_retry"

CoherentAt(t) == Coherent(t, thread[t].at, thread[t].job, thread[t].kind, thread[t].then)

FlowInv == \A t \in Threads : CoherentAt(t)

\* The sweeper has nothing of kind k before it or under way.
Untouched(k) ==
  /\ jobs[k].status = "absent"
  /\ k \notin thread["sweeper"].todo
  /\ thread["sweeper"].job # k

\* The sweeper closes an attempt when its window has ended, and by then no
\* submission is under way that found it open.
ClockInv ==
  /\ clock = "open" => Untouched("auto_submit")
  /\ clock = "overdue" => /\ thread["route"].at \notin {"flip", "emit"}
                          /\ thread["route"].at = "fetch" => status = "submitted"

\* Whoever is about to insert the mock_tests row is alone, and there is none.
TestsInv ==
  /\ \A t \in Threads : /\ thread[t].at = "flip" => status = "in_progress"
                        /\ thread[t].at = "emit" => tests = 0 /\ status = "submitted"
  /\ status = "in_progress" => tests = 0 /\ thread["route"].at # "repairTests"
  /\ status = "in_progress" \/ thread["route"].at = "emit" =>
       /\ Untouched("mock_tests_retry")
       /\ \A t \in Threads : thread[t].kind # "mock_tests_retry"
  /\ thread["sweeper"].at = "insert" => tests = 0
  /\ tests <= 1

\* The write-back is in one hand, and its row is active meanwhile.
MasteryInv ==
  /\ \A t \in Threads : /\ thread[t].job = "mastery_retry" => Active("mastery_retry")
                        /\ thread[t].at = "apply" => applied = 0
  /\ thread["route"].job = "mastery_retry" =>
       /\ thread["sweeper"].job # "mastery_retry"
       /\ "mastery_retry" \notin thread["sweeper"].todo
  /\ "mastery_retry" \in thread["sweeper"].todo =>
       Active("mastery_retry") /\ thread["sweeper"].job # "mastery_retry"
  /\ applied <= 1

-----------------------------------------------------------------------------
(* Steps of a thread and writes of a row.                                    *)

\* Thread t goes on at step at, with this job, kind and caller of schedule_job.
Becomes(t, at, job, kind, then) ==
  /\ thread' \in [Threads -> Thread]
  /\ thread'[t].at = at /\ thread'[t].job = job
  /\ thread'[t].kind = kind /\ thread'[t].then = then
  /\ thread'[t].todo = thread[t].todo
  /\ \A u \in Threads : u # t => thread'[u] = thread[u]

\* The row of kind k gets status s.
Writes(k, s) ==
  /\ jobs' \in [Kinds -> Row]
  /\ jobs'[k].status = s
  /\ \A j \in Kinds : j # k => jobs'[j] = jobs[j]

\* A step to another place in the same work.
LEMMA Goes ==
  ASSUME TypeOK, NEW t \in Threads, NEW at \in Steps, GoesTo(t, at)
  PROVE  Becomes(t, at, thread[t].job, thread[t].kind, thread[t].then)
BY DEF TypeOK, Thread, GoesTo, Becomes

\* An exception is a step too.
LEMMA Raising ==
  ASSUME TypeOK, NEW t \in Threads, Raises(t)
  PROVE  Becomes(t, "raise", thread[t].job, thread[t].kind, thread[t].then)
BY Goes DEF Raises, Steps

\* The end of a request or of a job.
LEMMA Leaving ==
  ASSUME TypeOK, NEW t \in Threads, Leaves(t)
  PROVE  Becomes(t, IF t = "route" THEN "idle" ELSE "next", NoJob, thread[t].kind, thread[t].then)
<1> DEFINE at == IF t = "route" THEN "idle" ELSE "next"
           r == [thread[t] EXCEPT !.at = at, !.job = NoJob, !.was = FALSE]
<1>1. thread[t] \in Thread /\ at \in Steps /\ NoJob \in Kinds \cup {NoJob}
  BY DEF TypeOK, Steps
<1>2. thread' = [thread EXCEPT ![t] = r]
  BY DEF TypeOK, Leaves
<1> HIDE DEF at
<1>3. /\ r \in Thread /\ r.at = at /\ r.job = NoJob
      /\ r.kind = thread[t].kind /\ r.then = thread[t].then /\ r.todo = thread[t].todo
  BY <1>1 DEF Thread
<1>4. Becomes(t, at, NoJob, thread[t].kind, thread[t].then)
  BY <1>2, <1>3 DEF TypeOK, Becomes
<1> QED
  BY <1>4 DEF at

\* A call of schedule_job.
LEMMA Scheduling ==
  ASSUME TypeOK, NEW t \in Threads, NEW k \in Kinds, NEW then \in Steps, Schedules(t, k, then)
  PROVE  Becomes(t, "sched", thread[t].job, k, then)
<1> DEFINE r == [thread[t] EXCEPT !.at = "sched", !.kind = k, !.then = then]
<1>1. thread[t] \in Thread /\ "sched" \in Steps
  BY DEF TypeOK, Steps
<1>2. /\ r \in Thread /\ r.at = "sched" /\ r.job = thread[t].job
      /\ r.kind = k /\ r.then = then /\ r.todo = thread[t].todo
  BY <1>1 DEF Thread
<1>3. thread' = [thread EXCEPT ![t] = r]
  BY DEF TypeOK, Schedules
<1> QED
  BY <1>2, <1>3 DEF TypeOK, Becomes

\* Its return.
LEMMA Returning ==
  ASSUME TypeOK, NEW t \in Threads, NEW at \in Steps, Returns(t, at)
  PROVE  Becomes(t, at, thread[t].job, "auto_submit", "idle")
<1> DEFINE r == [thread[t] EXCEPT !.at = at, !.kind = "auto_submit", !.found = FALSE,
                    !.then = "idle"]
<1>1. thread[t] \in Thread /\ "auto_submit" \in Kinds /\ "idle" \in Steps
  BY DEF TypeOK, Steps, Kinds
<1>2. /\ r \in Thread /\ r.at = at /\ r.job = thread[t].job
      /\ r.kind = "auto_submit" /\ r.then = "idle" /\ r.todo = thread[t].todo
  BY <1>1 DEF Thread
<1>3. thread' = [thread EXCEPT ![t] = r]
  BY DEF TypeOK, Returns, Idle
<1> QED
  BY <1>2, <1>3 DEF TypeOK, Becomes

\* An update of a row.
LEMMA Putting ==
  ASSUME TypeOK, NEW k \in Kinds, NEW s \in {"pending", "running", "done", "failed"},
         NEW due \in BOOLEAN, Put(k, s, due)
  PROVE  Writes(k, s)
BY DEF TypeOK, Row, Put, Writes

\* A new row.
LEMMA Inserting ==
  ASSUME TypeOK, NEW k \in Kinds, NEW s \in {"pending", "running"}, NEW due \in BOOLEAN,
         Insert(k, s, due)
  PROVE  Writes(k, s) /\ settled' \in BOOLEAN
<1>1. 0 \in 0 .. MaxTries
  BY SubmitAssumption
<1> QED
  BY <1>1 DEF TypeOK, Row, Insert, Writes

\* Faults are counted up to their bound.
LEMMA Counted ==
  ASSUME TypeOK, NEW kind
  PROVE  /\ Fault(kind) => faults' \in 0 .. MaxFaults /\ kind \in Faults
         /\ NoFault => faults' \in 0 .. MaxFaults
BY SubmitAssumption DEF TypeOK, Fault, NoFault

\* Counts are of none, one and several.
LEMMA Counts ==
  ASSUME NEW n \in 0 .. 2
  PROVE  Several(n) \in 0 .. 2 /\ (n = 0 => Several(n) = 1)
BY DEF Several

\* The threads, some of their steps, and the kinds of jobs.
LEMMA Names ==
  /\ "route" \in Threads /\ "sweeper" \in Threads
  /\ "auto_submit" \in Kinds /\ "analytics_retry" \in Kinds
  /\ "mock_tests_retry" \in Kinds /\ "mastery_retry" \in Kinds
  /\ "compute" \in Steps /\ "settle" \in Steps /\ "claim" \in Steps /\ "audit" \in Steps
  /\ "apply" \in Steps /\ "errors" \in Steps /\ "draft" \in Steps /\ "finish" \in Steps
  /\ "handoff" \in Steps /\ "raise" \in Steps /\ "derive" \in Steps
  /\ "repairSummary" \in Steps /\ "redraft" \in Steps /\ "insert" \in Steps
  /\ "fetch" \in Steps /\ "flip" \in Steps /\ "emit" \in Steps /\ "idle" \in Steps
  /\ "next" \in Steps /\ "list" \in Steps /\ "put" \in Steps
BY DEF Threads, Kinds, Steps

\* A step of one thread leaves the other as it was.
LEMMA Keeps ==
  ASSUME FlowInv, NEW t \in Threads, NEW at, NEW job, NEW kind, NEW then,
         Becomes(t, at, job, kind, then), Coherent(t, at, job, kind, then)
  PROVE  FlowInv'
BY DEF FlowInv, CoherentAt, Becomes

\* A read of the attempt.
LEMMA FetchKeeps ==
  ASSUME TypeOK, FlowInv, NEW t \in Threads, Fetch(t)
  PROVE  TypeOK' /\ FlowInv'
<1>1. TypeOK'
  BY Goes, Leaving, Counted
  DEF Fetch, attemptVars, derivedVars, TypeOK, Becomes, Threads, Steps, Kinds
<1>2. FlowInv'
  BY Goes, Leaving, Keeps
  DEF Fetch, FlowInv, CoherentAt, Coherent, IsAt, TypeOK, Threads, Steps, Kinds, NoJob
<1> QED
  BY <1>1, <1>2

\* The status is set.
LEMMA FlipKeeps ==
  ASSUME TypeOK, FlowInv, NEW t \in Threads, Flip(t)
  PROVE  TypeOK' /\ FlowInv'
<1>1. TypeOK'
  BY Goes, Raising, Counted
  DEF Flip, MayRaise, attemptVars, derivedVars, TypeOK, Becomes, Threads, Steps, Kinds
<1>2. FlowInv'
  BY Goes, Raising, Keeps
  DEF Flip, MayRaise, FlowInv, CoherentAt, Coherent, IsAt, TypeOK, Threads, Steps, Kinds, NoJob
<1> QED
  BY <1>1, <1>2

\* The mock_tests row is inserted.
LEMMA EmitKeeps ==
  ASSUME TypeOK, FlowInv, NEW t \in Threads, Emit(t)
  PROVE  TypeOK' /\ FlowInv'
<1>1. \/ Becomes(t, "derive", thread[t].job, thread[t].kind, thread[t].then)
      \/ Becomes(t, "sched", thread[t].job, "mock_tests_retry", "derive")
  BY Goes, Scheduling, Names DEF Emit
<1>2. tests' \in 0 .. 2 /\ faults' \in 0 .. MaxFaults
  BY Counted, Counts DEF Emit, MayRaise, TypeOK
<1>3. TypeOK'
  BY <1>1, <1>2 DEF Emit, attemptVars, TypeOK, Becomes
<1>4. FlowInv'
  BY <1>1, Keeps DEF Emit, FlowInv, CoherentAt, Coherent, IsAt, Threads
<1> QED
  BY <1>3, <1>4

\* The analytics are derived or left to a job.
LEMMA DeriveKeeps ==
  ASSUME TypeOK, FlowInv, NEW t \in Threads, Derive(t)
  PROVE  TypeOK' /\ FlowInv'
<1>1. TypeOK'
  BY Goes, Scheduling, Counted
  DEF Derive, attemptVars, derivedVars, TypeOK, Becomes, Threads, Steps, Kinds
<1>2. FlowInv'
  BY Goes, Scheduling, Keeps
  DEF Derive, FlowInv, CoherentAt, Coherent, IsAt, TypeOK, Threads, Steps, Kinds, NoJob
<1> QED
  BY <1>1, <1>2

\* The analytics.
LEMMA ComputeKeeps ==
  ASSUME TypeOK, FlowInv, NEW t \in Threads, Compute(t)
  PROVE  TypeOK' /\ FlowInv'
<1>1. TypeOK'
  BY Goes, Raising, Scheduling, Counted
  DEF Compute, MayRaise, Part, attemptVars, derivedVars, TypeOK, Becomes, Threads, Steps, Kinds
<1>2. FlowInv'
  BY Goes, Raising, Scheduling, Keeps
  DEF Compute, MayRaise, Part, FlowInv, CoherentAt, Coherent, IsAt, TypeOK, Threads, Steps, Kinds,
      NoJob
<1> QED
  BY <1>1, <1>2

\* The end of an analytics job by the route.
LEMMA SettleKeeps ==
  ASSUME TypeOK, FlowInv, Settle
  PROVE  TypeOK' /\ FlowInv'
<1>1. TypeOK'
  BY Goes, Putting, Counted
  DEF Settle, attemptVars, derivedVars, TypeOK, Becomes, Writes, Active, Threads, Steps, Kinds
<1>2. FlowInv'
  BY Goes, Putting, Keeps
  DEF Settle, FlowInv, CoherentAt, Coherent, IsAt, TypeOK, Threads, Steps, Kinds, NoJob
<1> QED
  BY <1>1, <1>2

\* A repair of the mock_tests row.
LEMMA RepairTestsKeeps ==
  ASSUME TypeOK, FlowInv, RepairTests
  PROVE  TypeOK' /\ FlowInv'
<1>1. TypeOK'
  BY Goes, Scheduling, Counted
  DEF RepairTests, attemptVars, derivedVars, TypeOK, Becomes, Threads, Steps, Kinds
<1>2. FlowInv'
  BY Goes, Scheduling, Keeps
  DEF RepairTests, FlowInv, CoherentAt, Coherent, IsAt, TypeOK, Threads, Steps, Kinds, NoJob
<1> QED
  BY <1>1, <1>2

\* A repair of the analytics.
LEMMA RepairSummaryKeeps ==
  ASSUME TypeOK, FlowInv, RepairSummary
  PROVE  TypeOK' /\ FlowInv'
<1>1. TypeOK'
  BY Goes, Scheduling, Counted
  DEF RepairSummary, attemptVars, derivedVars, TypeOK, Becomes, Threads, Steps, Kinds
<1>2. FlowInv'
  BY Goes, Scheduling, Keeps
  DEF RepairSummary, FlowInv, CoherentAt, Coherent, IsAt, TypeOK, Threads, Steps, Kinds, NoJob
<1> QED
  BY <1>1, <1>2

\* schedule_job writes.
LEMMA SchedulePutKeeps ==
  ASSUME TypeOK, FlowInv, NEW t \in Threads, SchedulePut(t)
  PROVE  /\ TypeOK' /\ FlowInv'
         /\ \E at \in {thread[t].then, "raise"} : Becomes(t, at, thread[t].job, "auto_submit",
                "idle")
         /\ UNCHANGED jobs \/ Writes(thread[t].kind, "pending")
<1> DEFINE k == thread[t].kind
           then == thread[t].then
<1>1. k \in Kinds /\ then \in Steps /\ "raise" \in Steps
  BY DEF TypeOK, Thread, Steps
<1>2. PICK at \in {then, "raise"} : Returns(t, at)
  BY DEF SchedulePut
<1>3. Becomes(t, at, thread[t].job, "auto_submit", "idle")
  BY <1>1, <1>2, Returning
<1>4. /\ jobs' \in [Kinds -> Row] /\ settled' \in BOOLEAN
      /\ UNCHANGED jobs \/ Writes(k, "pending")
  BY <1>1, Putting, Inserting DEF SchedulePut, Writes, TypeOK
<1>5. TypeOK'
  BY <1>3, <1>4, Counted DEF SchedulePut, Becomes, TypeOK, attemptVars, derivedVars
<1>6. FlowInv'
  BY <1>3, Keeps DEF SchedulePut, FlowInv, CoherentAt, Coherent, IsAt
<1> QED
  BY <1>2, <1>3, <1>4, <1>5, <1>6

\* The check that the analytics are ready.
LEMMA ReadyKeeps ==
  ASSUME TypeOK, FlowInv, NEW t \in Threads, Ready(t)
  PROVE  TypeOK' /\ FlowInv'
<1>1. TypeOK'
  BY Goes, Raising, Scheduling, Counted
  DEF Ready, attemptVars, derivedVars, TypeOK, Becomes, Threads, Steps, Kinds
<1>2. FlowInv'
  BY Goes, Raising, Scheduling, Keeps
  DEF Ready, FlowInv, CoherentAt, Coherent, IsAt, TypeOK, Threads, Steps, Kinds, NoJob
<1> QED
  BY <1>1, <1>2

\* The look for an audit row.
LEMMA AuditKeeps ==
  ASSUME TypeOK, FlowInv, NEW t \in Threads, Audit(t)
  PROVE  TypeOK' /\ FlowInv'
<1>1. TypeOK'
  BY Goes, Counted
  DEF Audit, attemptVars, derivedVars, TypeOK, Becomes, Threads, Steps, Kinds
<1>2. FlowInv'
  BY Goes, Keeps
  DEF Audit, FlowInv, CoherentAt, Coherent, IsAt, TypeOK, Threads, Steps, Kinds, NoJob
<1> QED
  BY <1>1, <1>2

\* The deltas are added.
LEMMA ApplyKeeps ==
  ASSUME TypeOK, FlowInv, NEW t \in Threads, Apply(t)
  PROVE  TypeOK' /\ FlowInv'
<1>1. TypeOK'
  BY Goes, Raising, Counted, Counts
  DEF Apply, MayRaise, attemptVars, derivedVars, TypeOK, Becomes, Threads, Steps, Kinds
<1>2. FlowInv'
  BY Goes, Raising, Keeps
  DEF Apply, MayRaise, FlowInv, CoherentAt, Coherent, IsAt, TypeOK, Threads, Steps, Kinds, NoJob
<1> QED
  BY <1>1, <1>2

\* The error patterns are inserted.
LEMMA InsertErrorsKeeps ==
  ASSUME TypeOK, FlowInv, NEW t \in Threads, InsertErrors(t)
  PROVE  TypeOK' /\ FlowInv'
<1>1. TypeOK'
  BY Goes, Raising, Counted, Counts
  DEF InsertErrors, MayRaise, attemptVars, derivedVars, TypeOK, Becomes, Threads, Steps, Kinds
<1>2. FlowInv'
  BY Goes, Raising, Keeps
  DEF InsertErrors, MayRaise, FlowInv, CoherentAt, Coherent, IsAt, TypeOK, Threads, Steps, Kinds,
      NoJob
<1> QED
  BY <1>1, <1>2

\* The corrections are drafted.
LEMMA DraftKeeps ==
  ASSUME TypeOK, FlowInv, NEW t \in Threads, Draft(t)
  PROVE  TypeOK' /\ FlowInv'
<1>1. TypeOK'
  BY Goes, Raising, Counted
  DEF Draft, MayRaise, attemptVars, derivedVars, TypeOK, Becomes, Threads, Steps, Kinds
<1>2. FlowInv'
  BY Goes, Raising, Keeps
  DEF Draft, MayRaise, FlowInv, CoherentAt, Coherent, IsAt, TypeOK, Threads, Steps, Kinds, NoJob
<1> QED
  BY <1>1, <1>2

\* The first phase of a pass.
LEMMA DetectKeeps ==
  ASSUME TypeOK, FlowInv, Detect
  PROVE  TypeOK' /\ FlowInv'
<1>1. TypeOK'
  BY Goes, Putting, Inserting, Counted
  DEF Detect, attemptVars, derivedVars, TypeOK, Becomes, Writes, Active, Threads, Steps, Kinds
<1>2. FlowInv'
  BY Goes, Putting, Inserting, Keeps
  DEF Detect, FlowInv, CoherentAt, Coherent, IsAt, TypeOK, Threads, Steps, Kinds, NoJob
<1> QED
  BY <1>1, <1>2

\* The request for the write-back after the analytics.
LEMMA HandoffKeeps ==
  ASSUME TypeOK, FlowInv, Handoff
  PROVE  TypeOK' /\ FlowInv'
<1>1. TypeOK'
  BY Scheduling, Counted
  DEF Handoff, attemptVars, derivedVars, TypeOK, Becomes, Threads, Steps, Kinds
<1>2. FlowInv'
  BY Scheduling, Keeps
  DEF Handoff, FlowInv, CoherentAt, Coherent, IsAt, TypeOK, Threads, Steps, Kinds, NoJob
<1> QED
  BY <1>1, <1>2

\* The look for the mock_tests row.
LEMMA CheckKeeps ==
  ASSUME TypeOK, FlowInv, Check
  PROVE  TypeOK' /\ FlowInv'
<1>1. TypeOK'
  BY Goes, Counted
  DEF Check, attemptVars, derivedVars, TypeOK, Becomes, Threads, Steps, Kinds
<1>2. FlowInv'
  BY Goes, Keeps
  DEF Check, FlowInv, CoherentAt, Coherent, IsAt, TypeOK, Threads, Steps, Kinds, NoJob
<1> QED
  BY <1>1, <1>2

\* The retried insert of the mock_tests row.
LEMMA ReEmitKeeps ==
  ASSUME TypeOK, FlowInv, ReEmit
  PROVE  TypeOK' /\ FlowInv'
<1>1. TypeOK'
  BY Goes, Raising, Counted, Counts
  DEF ReEmit, MayRaise, attemptVars, derivedVars, TypeOK, Becomes, Threads, Steps, Kinds
<1>2. FlowInv'
  BY Goes, Raising, Keeps
  DEF ReEmit, MayRaise, FlowInv, CoherentAt, Coherent, IsAt, TypeOK, Threads, Steps, Kinds, NoJob
<1> QED
  BY <1>1, <1>2

\* The end of a job.
LEMMA FinishKeeps ==
  ASSUME TypeOK, FlowInv, NEW t \in Threads, Finish(t)
  PROVE  /\ TypeOK' /\ FlowInv'
         /\ \/ /\ Becomes(t, IF t = "route" THEN "idle" ELSE "next", NoJob, thread[t].kind,
                      thread[t].then)
               /\ Writes(thread[t].job, "done") \/ (thread[t].job # "mastery_retry"
                      /\ UNCHANGED jobs)
            \/ /\ Becomes(t, "raise", thread[t].job, thread[t].kind, thread[t].then)
               /\ UNCHANGED jobs
<1> DEFINE k == thread[t].job
<1>1. k \in Kinds
  BY DEF Finish, IsAt, FlowInv, CoherentAt, Coherent, TypeOK, Thread, Threads, Kinds
<1>2. \/ Leaves(t) /\ (Writes(k, "done") \/ (k # "mastery_retry" /\ UNCHANGED jobs))
      \/ Raises(t) /\ UNCHANGED jobs
  BY <1>1, Putting DEF Finish
<1>3. jobs' \in [Kinds -> Row]
  BY <1>2 DEF Writes, TypeOK
<1>4. CASE Leaves(t) /\ (Writes(k, "done") \/ (k # "mastery_retry" /\ UNCHANGED jobs))
  <2>1. Becomes(t, IF t = "route" THEN "idle" ELSE "next", NoJob, thread[t].kind, thread[t].then)
    BY <1>4, Leaving
  <2>2. TypeOK'
    BY <1>3, <2>1 DEF Finish, Becomes, TypeOK, attemptVars, derivedVars
  <2>3. FlowInv'
    BY <2>1, Keeps DEF Finish, FlowInv, CoherentAt, Coherent, IsAt, Threads, NoJob
  <2> QED
    BY <1>4, <2>1, <2>2, <2>3
<1>5. CASE Raises(t) /\ UNCHANGED jobs
  <2>1. Becomes(t, "raise", thread[t].job, thread[t].kind, thread[t].then)
    BY <1>5, Raising
  <2>2. TypeOK'
    BY <1>3, <2>1 DEF Finish, Becomes, TypeOK, attemptVars, derivedVars
  <2>3. FlowInv'
    BY <2>1, Keeps DEF Finish, FlowInv, CoherentAt, Coherent, IsAt, Threads, NoJob
  <2> QED
    BY <1>5, <2>1, <2>2, <2>3
<1> QED
  BY <1>2, <1>4, <1>5

\* The handling of an exception.
LEMMA HandleKeeps ==
  ASSUME TypeOK, FlowInv, NEW t \in Threads, Handle(t)
  PROVE  /\ TypeOK' /\ FlowInv'
         /\ Becomes(t, IF t = "route" THEN "idle" ELSE "next", NoJob, thread[t].kind,
                thread[t].then)
         /\ UNCHANGED jobs \/ (thread[t].job # NoJob /\ Writes(thread[t].job, "pending"))
<1> DEFINE k == thread[t].job
<1>1. k \in Kinds \cup {NoJob}
  BY DEF TypeOK, Thread
<1>2. UNCHANGED jobs \/ (k # NoJob /\ Writes(k, "pending"))
  BY <1>1, Putting DEF Handle
<1>3. Becomes(t, IF t = "route" THEN "idle" ELSE "next", NoJob, thread[t].kind, thread[t].then)
  BY Leaving DEF Handle
<1>4. TypeOK'
  BY <1>2, <1>3, Counted DEF Handle, Becomes, Writes, TypeOK, attemptVars, derivedVars
<1>5. FlowInv'
  BY <1>3, Keeps DEF Handle, FlowInv, CoherentAt, Coherent, IsAt, Threads, NoJob
<1> QED
  BY <1>2, <1>3, <1>4, <1>5

\* A submit request.
LEMMA SubmitKeeps ==
  ASSUME TypeOK, FlowInv, Submit
  PROVE  TypeOK' /\ FlowInv'
<1> DEFINE r == [Idle EXCEPT !.at = "fetch", !.was = (status = "submitted")]
<1>1. /\ r \in Thread /\ r.at = "fetch" /\ r.job = NoJob /\ r.kind = "auto_submit"
      /\ r.then = "idle" /\ r.todo = {}
  BY DEF Idle, Thread, Steps, Kinds
<1>2. thread' = [thread EXCEPT !["route"] = r]
  BY DEF Submit
<1>3. TypeOK'
  BY <1>1, <1>2, SubmitAssumption DEF Submit, TypeOK, Threads, derivedVars
<1>4. FlowInv'
  BY <1>1, <1>2 DEF FlowInv, CoherentAt, Coherent, TypeOK, Threads, NoJob
<1> QED
  BY <1>3, <1>4

\* schedule_job reads.
LEMMA ScheduleReadKeeps ==
  ASSUME TypeOK, FlowInv, NEW t \in Threads, ScheduleRead(t)
  PROVE  /\ TypeOK' /\ FlowInv'
         /\ \/ Becomes(t, "put", thread[t].job, thread[t].kind, thread[t].then)
            \/ Becomes(t, "raise", thread[t].job, "auto_submit", "idle")
<1>1. \/ Becomes(t, "put", thread[t].job, thread[t].kind, thread[t].then)
      \/ Becomes(t, "raise", thread[t].job, "auto_submit", "idle")
  <2> DEFINE r == [thread[t] EXCEPT !.at = "put", !.found = Active(thread[t].kind)]
  <2>1. CASE thread' = [thread EXCEPT ![t].at = "put", ![t].found = Active(thread[t].kind)]
    <3>1. thread' = [thread EXCEPT ![t] = r] /\ thread[t] \in Thread /\ "put" \in Steps
      BY <2>1 DEF TypeOK, Steps
    <3>2. Active(thread[t].kind) \in BOOLEAN
      BY DEF Active
    <3> HIDE DEF r
    <3>3. /\ r \in Thread /\ r.at = "put" /\ r.job = thread[t].job /\ r.kind = thread[t].kind
          /\ r.then = thread[t].then /\ r.todo = thread[t].todo
      BY <3>1, <3>2 DEF Thread, r
    <3> QED
      BY <3>1, <3>3 DEF TypeOK, Becomes
  <2>2. CASE GoesTo(t, "put")
    BY <2>2, Goes DEF Steps
  <2>3. CASE Returns(t, "raise")
    BY <2>3, Returning DEF Steps
  <2> QED
    BY <2>1, <2>2, <2>3 DEF ScheduleRead
<1>2. TypeOK'
  BY <1>1, Counted DEF ScheduleRead, attemptVars, derivedVars, Becomes, TypeOK
<1>3. FlowInv'
  BY <1>1, Keeps DEF ScheduleRead, FlowInv, CoherentAt, Coherent, IsAt, Threads, NoJob
<1> QED
  BY <1>1, <1>2, <1>3

\* The claim of the write-back.
LEMMA ClaimKeeps ==
  ASSUME TypeOK, FlowInv, Claim
  PROVE  /\ TypeOK' /\ FlowInv'
         /\ \/ /\ Becomes("route", "idle", NoJob, thread["route"].kind, thread["route"].then)
               /\ UNCHANGED jobs \/ Writes("mastery_retry", "running")
            \/ /\ Becomes("route", "ready", "mastery_retry", thread["route"].kind,
                      thread["route"].then)
               /\ ~Active("mastery_retry") /\ Writes("mastery_retry", "running")
<1>1. "route" \in Threads /\ "mastery_retry" \in Kinds
  BY DEF Threads, Kinds
<1>2. \/ /\ Becomes("route", "idle", NoJob, thread["route"].kind, thread["route"].then)
         /\ UNCHANGED jobs \/ Writes("mastery_retry", "running")
      \/ /\ Becomes("route", "ready", "mastery_retry", thread["route"].kind, thread["route"].then)
         /\ ~Active("mastery_retry") /\ Writes("mastery_retry", "running")
  <2>1. CASE Leaves("route") /\ (UNCHANGED jobs \/ Writes("mastery_retry", "running"))
    BY <1>1, <2>1, Leaving
  <2>2. CASE /\ ~Active("mastery_retry") /\ Writes("mastery_retry", "running")
             /\ thread' = [thread EXCEPT !["route"].at = "ready", !["route"].was = FALSE,
                                         !["route"].job = "mastery_retry"]
    <3> DEFINE r == [thread["route"] EXCEPT !.at = "ready", !.was = FALSE, !.job = "mastery_retry"]
    <3>1. thread' = [thread EXCEPT !["route"] = r] /\ thread["route"] \in Thread
              /\ "ready" \in Steps
      BY <1>1, <2>2 DEF TypeOK, Steps
    <3> HIDE DEF r
    <3>2. /\ r \in Thread /\ r.at = "ready" /\ r.job = "mastery_retry"
          /\ r.kind = thread["route"].kind /\ r.then = thread["route"].then
          /\ r.todo = thread["route"].todo
      BY <1>1, <3>1 DEF Thread, r
    <3>3. thread' \in [Threads -> Thread] /\ thread'["route"] = r
      BY <1>1, <3>1, <3>2 DEF TypeOK
    <3>4. \A u \in Threads : u # "route" => thread'[u] = thread[u]
      BY <1>1, <3>1 DEF TypeOK
    <3>5. Becomes("route", "ready", "mastery_retry", thread["route"].kind, thread["route"].then)
      BY <3>2, <3>3, <3>4 DEF Becomes
    <3> QED
      BY <2>2, <3>5
  <2> QED
    BY <1>1, <2>1, <2>2, Inserting DEF Claim
<1>3. jobs' \in [Kinds -> Row] /\ settled' \in BOOLEAN
  BY <1>1, Inserting DEF Claim, Writes, TypeOK
<1>4. TypeOK'
  BY <1>2, <1>3, Counted DEF Claim, attemptVars, derivedVars, Becomes, TypeOK
<1>5. FlowInv'
  BY <1>1, <1>2, Keeps DEF Claim, FlowInv, CoherentAt, Coherent, IsAt, NoJob
<1> QED
  BY <1>2, <1>4, <1>5

\* The list of due jobs.
LEMMA ListKeeps ==
  ASSUME TypeOK, FlowInv, List
  PROVE  /\ TypeOK' /\ FlowInv'
         /\ thread'["route"] = thread["route"]
         /\ thread'["sweeper"].at = "next" /\ thread'["sweeper"].job = NoJob
         /\ thread'["sweeper"].kind = "auto_submit"
         /\ \A k \in thread'["sweeper"].todo :
              k \in thread["sweeper"].todo \/ (Active(k) /\ (Quick => k # thread["route"].job))
<1> DEFINE listed == IF Quick THEN Due \ {thread["route"].job} ELSE Due
           r == [thread["sweeper"] EXCEPT !.at = "next", !.todo = listed]
<1>1. listed \in SUBSET Kinds
  BY DEF Due
<1>2. "sweeper" \in Threads /\ thread["sweeper"] \in Thread /\ "next" \in Steps
  BY DEF Threads, TypeOK, Steps
<1>3. /\ thread["sweeper"].job = NoJob /\ thread["sweeper"].kind = "auto_submit"
      /\ "route" \in Threads
      /\ \A k \in listed : Active(k) /\ (Quick => k # thread["route"].job)
  BY <1>2 DEF Due, List, IsAt, FlowInv, CoherentAt, Coherent, Threads
<1>4. thread' = [thread EXCEPT !["sweeper"] = r] \/ GoesTo("sweeper", "next")
  BY <1>2 DEF List, TypeOK
<1> HIDE DEF listed
<1>5. /\ r \in Thread /\ r.at = "next" /\ r.job = thread["sweeper"].job
      /\ r.kind = thread["sweeper"].kind /\ r.then = thread["sweeper"].then
      /\ r.todo = listed
  BY <1>1, <1>2 DEF Thread
<1> HIDE DEF r
<1>6. CASE thread' = [thread EXCEPT !["sweeper"] = r]
  <2>1. thread' \in [Threads -> Thread]
    BY <1>2, <1>5, <1>6 DEF TypeOK
  <2>2. thread'["sweeper"] = r /\ \A t \in Threads : t # "sweeper" => thread'[t] = thread[t]
    BY <1>2, <1>6 DEF TypeOK
  <2>3. TypeOK'
    BY <2>1, Counted DEF List, TypeOK, attemptVars, derivedVars
  <2>4. FlowInv'
    BY <1>2, <1>5, <2>2 DEF List, FlowInv, CoherentAt, Coherent, IsAt, Threads, NoJob
  <2> QED
    BY <1>5, <1>3, <2>2, <2>3, <2>4
<1>7. CASE GoesTo("sweeper", "next")
  <2>1. Becomes("sweeper", "next", thread["sweeper"].job, thread["sweeper"].kind,
            thread["sweeper"].then)
    BY <1>2, <1>7, Goes
  <2>2. TypeOK'
    BY <2>1, Counted DEF List, TypeOK, Becomes, attemptVars, derivedVars
  <2>3. FlowInv'
    BY <1>2, <2>1, Keeps DEF List, FlowInv, CoherentAt, Coherent, IsAt, NoJob
  <2> QED
    BY <1>3, <2>1, <2>2, <2>3 DEF Becomes
<1> QED
  BY <1>4, <1>6, <1>7

\* The sweeper begins a job, or the job fails.
Begun(k) ==
  /\ thread'["sweeper"].at = Begins(k) /\ thread'["sweeper"].job = k
  /\ jobs'[k].status = "running"

GivenUp(k) ==
  /\ thread'["sweeper"].at = "next" /\ thread'["sweeper"].job = NoJob
  /\ jobs'[k].status = "failed"

\* A job is taken: it begins or fails, and the rest of the list stays.
LEMMA TakeKeeps ==
  ASSUME TypeOK, FlowInv, NEW k \in Kinds, Take(k)
  PROVE  /\ TypeOK' /\ FlowInv'
         /\ Begun(k) \/ GivenUp(k)
         /\ thread'["sweeper"].kind = "auto_submit"
         /\ thread'["sweeper"].todo = thread["sweeper"].todo \ {k}
         /\ thread'["route"] = thread["route"]
         /\ \A j \in Kinds : j # k => jobs'[j] = jobs[j]
<1> DEFINE todo == thread["sweeper"].todo \ {k}
           r == [thread["sweeper"] EXCEPT !.at = Begins(k), !.job = k, !.todo = todo]
           q == [thread["sweeper"] EXCEPT !.todo = todo]
<1>1. /\ "sweeper" \in Threads /\ "route" \in Threads /\ thread["sweeper"] \in Thread
      /\ Begins(k) \in Steps /\ todo \in SUBSET Kinds
  BY DEF Threads, TypeOK, Steps, Begins, Kinds, Thread
<1>2. /\ thread["sweeper"].at = "next" /\ thread["sweeper"].job = NoJob
      /\ thread["sweeper"].kind = "auto_submit" /\ thread["sweeper"].then = "idle"
  BY <1>1 DEF Take, IsAt, FlowInv, CoherentAt, Coherent
<1>3. /\ r \in Thread /\ r.at = Begins(k) /\ r.job = k /\ r.kind = "auto_submit"
      /\ r.then = "idle" /\ r.todo = todo
  BY <1>1, <1>2 DEF Thread
<1>4. /\ q \in Thread /\ q.at = "next" /\ q.job = NoJob /\ q.kind = "auto_submit"
      /\ q.then = "idle" /\ q.todo = todo
  BY <1>1, <1>2 DEF Thread
<1>5. CASE jobs[k].tries >= MaxTries
  <2>1. thread' = [thread EXCEPT !["sweeper"] = q] /\ Put(k, "failed", FALSE)
    BY <1>1, <1>5 DEF Take, TypeOK
  <2>2. Writes(k, "failed")
    BY <2>1, Putting
  <2> HIDE DEF q, todo
  <2>3. TypeOK'
    BY <1>1, <1>4, <2>1, <2>2 DEF Take, TypeOK, Writes, attemptVars, derivedVars
  <2>4. FlowInv'
    BY <1>1, <1>4, <2>1 DEF TypeOK, FlowInv, CoherentAt, Coherent, Threads, NoJob
  <2>5. GivenUp(k)
    BY <1>1, <1>4, <2>1, <2>2 DEF TypeOK, GivenUp, Writes
  <2>6. /\ thread'["sweeper"].kind = "auto_submit" /\ thread'["sweeper"].todo = todo
        /\ thread'["route"] = thread["route"]
    BY <1>1, <1>4, <2>1 DEF TypeOK
  <2> QED
    BY <2>2, <2>3, <2>4, <2>5, <2>6 DEF Writes, todo
<1>6. CASE ~(jobs[k].tries >= MaxTries)
  <2>1. /\ thread' = [thread EXCEPT !["sweeper"] = r]
        /\ jobs' = [jobs EXCEPT ![k] = [status |-> "running", tries |-> jobs[k].tries + 1,
               due |-> FALSE]]
    BY <1>1, <1>6 DEF Take, TypeOK
  <2>2. jobs[k].tries + 1 \in 0 .. MaxTries
    BY <1>6, SubmitAssumption DEF TypeOK, Row
  <2>3. Writes(k, "running")
    BY <2>1, <2>2 DEF TypeOK, Row, Writes
  <2> HIDE DEF r, todo
  <2>4. TypeOK'
    BY <1>1, <1>3, <2>1, <2>3 DEF Take, TypeOK, Writes, attemptVars, derivedVars
  <2>5. Begins(k) \in {"fetch", "compute", "check", "ready"}
    BY DEF Begins, Kinds
  <2>6. FlowInv'
    BY <1>1, <1>3, <2>1, <2>5 DEF TypeOK, FlowInv, CoherentAt, Coherent, Threads, NoJob, Begins,
       Kinds
  <2>7. Begun(k)
    BY <1>1, <1>3, <2>1, <2>3 DEF TypeOK, Begun, Writes
  <2>8. /\ thread'["sweeper"].kind = "auto_submit" /\ thread'["sweeper"].todo = todo
        /\ thread'["route"] = thread["route"]
    BY <1>1, <1>3, <2>1 DEF TypeOK
  <2> QED
    BY <2>3, <2>4, <2>6, <2>7, <2>8 DEF Writes, todo
<1> QED
  BY <1>5, <1>6

\* Idle threads do nothing.
LEMMA Resting ==
  /\ Idle \in Thread /\ Idle.at = "idle" /\ Idle.job = NoJob /\ Idle.kind = "auto_submit"
  /\ Idle.then = "idle" /\ Idle.todo = {}
BY DEF Idle, Thread, Steps, Kinds, NoJob

\* The end of a pass.
LEMMA PassEndsKeeps ==
  ASSUME TypeOK, FlowInv, PassEnds
  PROVE  /\ TypeOK' /\ FlowInv'
         /\ thread'["sweeper"] = Idle /\ thread'["route"] = thread["route"]
<1>1. thread' = [thread EXCEPT !["sweeper"] = Idle]
  BY DEF PassEnds
<1>2. TypeOK'
  BY <1>1, Resting DEF PassEnds, TypeOK, attemptVars, derivedVars
<1>3. FlowInv'
  BY <1>1, Resting DEF TypeOK, FlowInv, CoherentAt, Coherent, Threads, NoJob
<1> QED
  BY <1>1, <1>2, <1>3 DEF TypeOK, Threads

\* A row becomes due.
LEMMA DueComesKeeps ==
  ASSUME TypeOK, FlowInv, NEW k \in Kinds, DueComes(k)
  PROVE  TypeOK' /\ FlowInv' /\ \A j \in Kinds : jobs'[j].status = jobs[j].status
<1>1. Writes(k, jobs[k].status)
  BY Putting DEF DueComes, Active, TypeOK, Row
<1>2. TypeOK'
  BY <1>1 DEF DueComes, TypeOK, Writes, attemptVars, derivedVars
<1> QED
  BY <1>1, <1>2 DEF DueComes, Writes, FlowInv, CoherentAt

\* The window ends.
LEMMA OverdueKeeps ==
  ASSUME TypeOK, FlowInv, Overdue
  PROVE  TypeOK' /\ FlowInv'
BY DEF Overdue, TypeOK, derivedVars, FlowInv, CoherentAt

\* The process dies.
LEMMA CrashKeeps ==
  ASSUME TypeOK, FlowInv, Crash
  PROVE  TypeOK' /\ FlowInv' /\ \A t \in Threads : thread'[t] = Idle
<1>1. thread' \in [Threads -> Thread] /\ \A t \in Threads : thread'[t] = Idle
  BY Resting DEF Crash
<1>2. TypeOK'
  BY <1>1, Counted DEF Crash, TypeOK, derivedVars
<1>3. FlowInv'
  BY <1>1, Resting DEF FlowInv, CoherentAt, Coherent, Threads, NoJob
<1> QED
  BY <1>1, <1>2, <1>3

-----------------------------------------------------------------------------
(* Type correctness.                                                         *)

\* Initially both threads are idle and no job exists.
LEMMA FirstState == Init => TypeOK /\ FlowInv
<1> SUFFICES ASSUME Init PROVE TypeOK /\ FlowInv
  OBVIOUS
<1>1. [status |-> "absent", tries |-> 0, due |-> FALSE] \in Row
  BY SubmitAssumption DEF Row
<1>2. jobs \in [Kinds -> Row] /\ thread \in [Threads -> Thread]
  BY <1>1, Resting DEF Init
<1>3. 0 \in 0 .. MaxSubmits /\ 0 \in 0 .. MaxFaults
  BY SubmitAssumption
<1>4. tests \in 0 .. 2 /\ applied \in 0 .. 2 /\ errors \in 0 .. 2
  BY DEF Init
<1>5. TypeOK
  BY <1>2, <1>3, <1>4 DEF Init, TypeOK
<1>6. FlowInv
  BY Resting DEF Init, FlowInv, CoherentAt, Coherent, Threads, NoJob
<1> QED
  BY <1>5, <1>6

\* Every step keeps the types and the flow of the threads.
LEMMA FlowStep == TypeOK /\ FlowInv /\ [Next]_vars => TypeOK' /\ FlowInv'
<1> SUFFICES ASSUME TypeOK, FlowInv, [Next]_vars PROVE TypeOK' /\ FlowInv'
  OBVIOUS
<1>1. "route" \in Threads /\ "sweeper" \in Threads
  BY DEF Threads
<1>2. CASE Submit
  BY <1>2, SubmitKeeps
<1>3. CASE RouteStep
  BY <1>1, <1>3, FetchKeeps, FlipKeeps, EmitKeeps, DeriveKeeps, ComputeKeeps, SettleKeeps,
     RepairTestsKeeps, RepairSummaryKeeps, ScheduleReadKeeps, SchedulePutKeeps, ClaimKeeps,
     ReadyKeeps, AuditKeeps, ApplyKeeps, InsertErrorsKeeps, DraftKeeps, FinishKeeps, HandleKeeps
  DEF RouteStep
<1>4. CASE SweeperStep
  BY <1>1, <1>4, DetectKeeps, ListKeeps, TakeKeeps, PassEndsKeeps, FetchKeeps, FlipKeeps,
     EmitKeeps, DeriveKeeps, ComputeKeeps, HandoffKeeps, CheckKeeps, ReEmitKeeps,
     ScheduleReadKeeps, SchedulePutKeeps, ReadyKeeps, AuditKeeps, ApplyKeeps,
     InsertErrorsKeeps, DraftKeeps, FinishKeeps, HandleKeeps
  DEF SweeperStep
<1>5. CASE Overdue \/ Crash \/ \E k \in Kinds : DueComes(k)
  BY <1>5, OverdueKeeps, CrashKeeps, DueComesKeeps
<1>6. CASE UNCHANGED vars
  BY <1>6 DEF vars, TypeOK, FlowInv, CoherentAt
<1> QED
  BY <1>2, <1>3, <1>4, <1>5, <1>6 DEF Next

\* The types of the model are right, whatever fails.
THEOREM MockTypeCorrect == Spec => []TypeOK
<1>1. Init => TypeOK /\ FlowInv
  BY FirstState
<1>2. TypeOK /\ FlowInv /\ [Next]_vars => (TypeOK /\ FlowInv)'
  BY FlowStep
<1> QED
  BY <1>1, <1>2, PTL DEF Spec

-----------------------------------------------------------------------------
(* One row in the history of mocks.                                          *)

\* The mock_tests row is still to come from the submission itself.
Early == status = "in_progress" \/ thread["route"].at = "emit"

\* No job is made for what the submission still does.
Unwritten ==
  /\ clock = "open" => jobs'["auto_submit"].status = "absent"
  /\ Early => jobs'["mock_tests_retry"].status = "absent"

\* A step away from the mock_tests row.
LEMMA Quiet ==
  ASSUME FlowInv, ClockInv, TestsInv, NEW t \in Threads,
         NEW at, at \notin {"fetch", "flip", "emit", "repairTests", "insert"},
         NEW job, job = thread[t].job \/ job = NoJob, NEW then,
         NEW kind, kind # "mock_tests_retry" \/ ~Early,
         Becomes(t, at, job, kind, then), UNCHANGED <<status, clock, tests>>, Unwritten
  PROVE  ClockInv' /\ TestsInv'
<1>1. ClockInv'
  BY DEF ClockInv, Untouched, Unwritten, Becomes, Threads, NoJob
<1>2. TestsInv'
  BY DEF TestsInv, Untouched, Unwritten, Early, Becomes, Threads, NoJob
<1> QED
  BY <1>1, <1>2

\* A thread that schedules the retry of the row is past the submission.
LEMMA Later ==
  ASSUME TestsInv, NEW t \in Threads
  PROVE  thread[t].kind # "mock_tests_retry" \/ ~Early
BY DEF TestsInv, Early

\* Rows that are not written stay absent.
LEMMA Absent ==
  ASSUME ClockInv, TestsInv
  PROVE  /\ UNCHANGED jobs => Unwritten
         /\ \A k, s : k \notin {"auto_submit", "mock_tests_retry"} /\ Writes(k, s) => Unwritten
BY DEF ClockInv, TestsInv, Untouched, Unwritten, Early, Writes, Kinds

\* The analytics come next, or a job for them.
LEMMA DeriveTests ==
  ASSUME TypeOK, FlowInv, ClockInv, TestsInv, NEW t \in Threads, Derive(t)
  PROVE  ClockInv' /\ TestsInv'
BY Goes, Scheduling, Quiet, Later, Absent, Names
DEF Derive, IsAt, attemptVars, derivedVars

\* The analytics leave the mock_tests row alone.
LEMMA ComputeTests ==
  ASSUME TypeOK, FlowInv, ClockInv, TestsInv, NEW t \in Threads, Compute(t)
  PROVE  ClockInv' /\ TestsInv'
BY Goes, Raising, Scheduling, Quiet, Later, Absent, Names
DEF Compute, MayRaise, Part, IsAt, attemptVars, derivedVars

\* An analytics job is done.
LEMMA SettleTests ==
  ASSUME TypeOK, FlowInv, ClockInv, TestsInv, Settle
  PROVE  ClockInv' /\ TestsInv'
<1>1. Becomes("route", "claim", thread["route"].job, thread["route"].kind, thread["route"].then)
  BY Goes, Putting, Names DEF Settle
<1>2. Unwritten
  BY Putting, Absent, Names DEF Settle
<1>3. UNCHANGED <<status, clock, tests>>
  BY DEF Settle, attemptVars, derivedVars
<1> QED
  BY <1>1, <1>2, <1>3, Quiet, Later, Names

\* A resubmission schedules the analytics.
LEMMA RepairSummaryTests ==
  ASSUME TypeOK, FlowInv, ClockInv, TestsInv, RepairSummary
  PROVE  ClockInv' /\ TestsInv'
BY Goes, Scheduling, Quiet, Later, Absent, Names
DEF RepairSummary, IsAt, attemptVars, derivedVars

\* The write-back waits for the analytics.
LEMMA ReadyTests ==
  ASSUME TypeOK, FlowInv, ClockInv, TestsInv, NEW t \in Threads, Ready(t)
  PROVE  ClockInv' /\ TestsInv'
BY Goes, Raising, Scheduling, Quiet, Later, Absent, Names
DEF Ready, IsAt, attemptVars, derivedVars

\* The look for the audit row is away from the mock_tests row.
LEMMA AuditTests ==
  ASSUME TypeOK, FlowInv, ClockInv, TestsInv, NEW t \in Threads, Audit(t)
  PROVE  ClockInv' /\ TestsInv'
BY Goes, Quiet, Later, Absent, Names
DEF Audit, IsAt, attemptVars, derivedVars

\* So is the update of the mastery.
LEMMA ApplyTests ==
  ASSUME TypeOK, FlowInv, ClockInv, TestsInv, NEW t \in Threads, Apply(t)
  PROVE  ClockInv' /\ TestsInv'
BY Goes, Raising, Quiet, Later, Absent, Names
DEF Apply, MayRaise, IsAt, attemptVars, derivedVars

\* So are the error patterns.
LEMMA InsertErrorsTests ==
  ASSUME TypeOK, FlowInv, ClockInv, TestsInv, NEW t \in Threads, InsertErrors(t)
  PROVE  ClockInv' /\ TestsInv'
BY Goes, Raising, Quiet, Later, Absent, Names
DEF InsertErrors, MayRaise, IsAt, attemptVars, derivedVars

\* The corrections read the row only.
LEMMA DraftTests ==
  ASSUME TypeOK, FlowInv, ClockInv, TestsInv, NEW t \in Threads, Draft(t)
  PROVE  ClockInv' /\ TestsInv'
BY Goes, Raising, Quiet, Later, Absent, Names
DEF Draft, MayRaise, IsAt, attemptVars, derivedVars

\* The write-back is asked for.
LEMMA HandoffTests ==
  ASSUME TypeOK, FlowInv, ClockInv, TestsInv, Handoff
  PROVE  ClockInv' /\ TestsInv'
BY Scheduling, Quiet, Later, Absent, Names
DEF Handoff, IsAt, attemptVars, derivedVars

\* A resubmission schedules the retry of the row: the submission is over.
LEMMA RepairTestsTests ==
  ASSUME TypeOK, FlowInv, ClockInv, TestsInv, RepairTests
  PROVE  ClockInv' /\ TestsInv'
<1>1. ~Early
  BY DEF RepairTests, IsAt, TestsInv, Early
<1>2. \/ Becomes("route", "repairSummary", thread["route"].job, thread["route"].kind,
             thread["route"].then)
      \/ Becomes("route", "sched", thread["route"].job, "mock_tests_retry", "repairSummary")
  BY Goes, Scheduling, Names DEF RepairTests
<1>3. Unwritten /\ UNCHANGED <<status, clock, tests>>
  BY Absent DEF RepairTests, attemptVars, derivedVars
<1> QED
  BY <1>1, <1>2, <1>3, Quiet, Names

\* schedule_job has read.
LEMMA ScheduleReadTests ==
  ASSUME TypeOK, FlowInv, ClockInv, TestsInv, NEW t \in Threads, ScheduleRead(t)
  PROVE  ClockInv' /\ TestsInv'
BY ScheduleReadKeeps, Quiet, Later, Absent DEF ScheduleRead, attemptVars, derivedVars

\* schedule_job is never called for auto_submit here, and for the mock_tests row
\* only after the submission.
LEMMA SchedulePutTests ==
  ASSUME TypeOK, FlowInv, ClockInv, TestsInv, NEW t \in Threads, SchedulePut(t)
  PROVE  ClockInv' /\ TestsInv'
<1>1. PICK at \in {thread[t].then, "raise"} : Becomes(t, at, thread[t].job, "auto_submit", "idle")
  BY SchedulePutKeeps
<1>2. at \notin {"fetch", "flip", "emit", "repairTests", "insert"}
  BY DEF FlowInv, CoherentAt, Coherent
<1>3. thread[t].kind # "auto_submit"
  BY DEF SchedulePut, IsAt, FlowInv, CoherentAt, Coherent
<1>4. Unwritten
  BY <1>3, SchedulePutKeeps, Absent, Later
  DEF Unwritten, ClockInv, TestsInv, Untouched, Early, Writes, Kinds
<1> QED
  BY <1>1, <1>2, <1>4, Quiet DEF SchedulePut, attemptVars, derivedVars

\* The claim is about another row.
LEMMA ClaimTests ==
  ASSUME TypeOK, FlowInv, ClockInv, TestsInv, Claim
  PROVE  ClockInv' /\ TestsInv'
<1>1. UNCHANGED jobs \/ Writes("mastery_retry", "running")
  BY ClaimKeeps
<1>2. Unwritten
  BY <1>1, Absent
<1>3. \/ Becomes("route", "idle", NoJob, thread["route"].kind, thread["route"].then)
      \/ Becomes("route", "ready", "mastery_retry", thread["route"].kind, thread["route"].then)
  BY ClaimKeeps
<1>4. ClockInv'
  BY <1>2, <1>3, Names
  DEF Claim, attemptVars, ClockInv, Untouched, Unwritten, Becomes
<1>5. TestsInv'
  BY <1>2, <1>3, Names
  DEF Claim, attemptVars, derivedVars, TestsInv, Untouched, Unwritten, Early, Becomes, Threads
<1> QED
  BY <1>4, <1>5

\* The end of a job: the sweeper had it, so it was not untouched.
LEMMA FinishTests ==
  ASSUME TypeOK, FlowInv, ClockInv, TestsInv, NEW t \in Threads, Finish(t)
  PROVE  ClockInv' /\ TestsInv'
<1>1. Unwritten
  BY FinishKeeps, Absent
  DEF Unwritten, ClockInv, TestsInv, Untouched, Early, Writes, Kinds, Threads, FlowInv, CoherentAt,
      Coherent, NoJob
<1>2. \/ Becomes(t, "idle", NoJob, thread[t].kind, thread[t].then)
      \/ Becomes(t, "next", NoJob, thread[t].kind, thread[t].then)
      \/ Becomes(t, "raise", thread[t].job, thread[t].kind, thread[t].then)
  BY FinishKeeps
<1> QED
  BY <1>1, <1>2, Quiet, Later DEF Finish, attemptVars, derivedVars

\* A job that raised is active again.
LEMMA HandleTests ==
  ASSUME TypeOK, FlowInv, ClockInv, TestsInv, NEW t \in Threads, Handle(t)
  PROVE  ClockInv' /\ TestsInv'
<1>1. Unwritten
  BY HandleKeeps, Absent
  DEF Unwritten, ClockInv, TestsInv, Untouched, Early, Writes, Kinds, Threads, FlowInv, CoherentAt,
      Coherent, NoJob
<1>2. \/ Becomes(t, "idle", NoJob, thread[t].kind, thread[t].then)
      \/ Becomes(t, "next", NoJob, thread[t].kind, thread[t].then)
  BY HandleKeeps
<1> QED
  BY <1>1, <1>2, Quiet, Later DEF Handle, attemptVars, derivedVars

\* A request that comes in time, or after the submission.
LEMMA SubmitTests ==
  ASSUME ~LateSubmits, TypeOK, FlowInv, ClockInv, TestsInv, Submit
  PROVE  ClockInv' /\ TestsInv'
<1> DEFINE r == [Idle EXCEPT !.at = "fetch", !.was = (status = "submitted")]
<1>1. /\ r.at = "fetch" /\ r.job = NoJob /\ r.kind = "auto_submit"
  BY DEF Idle
<1>2. /\ thread'["route"] = r /\ thread'["sweeper"] = thread["sweeper"]
      /\ thread["route"].at = "idle"
  BY DEF Submit, TypeOK, Threads, IsAt
<1> HIDE DEF r
<1>3. ClockInv'
  BY <1>1, <1>2 DEF Submit, ClockInv, Untouched, TypeOK
<1>4. TestsInv'
  BY <1>1, <1>2 DEF Submit, TestsInv, Untouched, derivedVars, Threads
<1> QED
  BY <1>3, <1>4

\* Who finds the attempt open: the sweeper when the window has ended, the route before.
LEMMA FetchTests ==
  ASSUME "read" \notin Faults, TypeOK, FlowInv, ClockInv, TestsInv, NEW t \in Threads, Fetch(t)
  PROVE  ClockInv' /\ TestsInv'
<1>1. CASE status = "in_progress"
  <2>1. Becomes(t, "flip", thread[t].job, thread[t].kind, thread[t].then)
    BY <1>1, Goes, Names DEF Fetch, Fault
  <2>2. ClockInv'
    BY <1>1, <2>1 DEF Fetch, IsAt, ClockInv, Untouched, Becomes, Threads, attemptVars, TypeOK
  <2>3. TestsInv'
    BY <1>1, <2>1 DEF Fetch, TestsInv, Untouched, Becomes, Threads, attemptVars, derivedVars
  <2> QED
    BY <2>2, <2>3
<1>2. CASE status = "submitted"
  <2>1. \/ t = "route" /\ Becomes(t, "repairTests", thread[t].job, thread[t].kind, thread[t].then)
        \/ t = "sweeper" /\ Becomes(t, "finish", thread[t].job, thread[t].kind, thread[t].then)
    BY <1>2, Goes DEF Fetch, Fault, Threads, Steps
  <2>2. ClockInv'
    BY <1>2, <2>1 DEF Fetch, ClockInv, Untouched, Becomes, Threads, attemptVars
  <2>3. TestsInv'
    BY <1>2, <2>1 DEF Fetch, TestsInv, Untouched, Becomes, Threads, attemptVars, derivedVars
  <2> QED
    BY <2>2, <2>3
<1> QED
  BY <1>1, <1>2 DEF TypeOK

\* Only one of the two closes the attempt.
LEMMA FlipTests ==
  ASSUME TypeOK, FlowInv, ClockInv, TestsInv, NEW t \in Threads, Flip(t)
  PROVE  ClockInv' /\ TestsInv'
<1>1. /\ thread[t].at = "flip" /\ status = "in_progress"
      /\ clock = "open" => t = "route"
      /\ clock = "overdue" => t = "sweeper"
  BY DEF Flip, IsAt, TestsInv, ClockInv, Untouched, FlowInv, CoherentAt, Coherent, Threads, TypeOK
<1>2. CASE status' = "submitted" /\ Becomes(t, "emit", thread[t].job, thread[t].kind,
               thread[t].then)
  <2>1. ClockInv'
    BY <1>1, <1>2 DEF Flip, ClockInv, Untouched, Becomes, Threads, TypeOK
  <2>2. TestsInv'
    BY <1>1, <1>2
    DEF Flip, TestsInv, ClockInv, Untouched, Becomes, Threads, TypeOK, derivedVars, FlowInv,
        CoherentAt, Coherent
  <2> QED
    BY <2>1, <2>2
<1>3. CASE status' \in {status, "submitted"} /\ Becomes(t, "raise", thread[t].job, thread[t].kind,
               thread[t].then)
  <2>1. ClockInv'
    BY <1>1, <1>3 DEF Flip, ClockInv, Untouched, Becomes, Threads, TypeOK
  <2>2. TestsInv'
    BY <1>1, <1>3
    DEF Flip, TestsInv, ClockInv, Untouched, Becomes, Threads, TypeOK, derivedVars, FlowInv,
        CoherentAt, Coherent
  <2> QED
    BY <2>1, <2>2
<1> QED
  BY <1>2, <1>3, Goes, Raising, Names DEF Flip, MayRaise

\* The submission inserts the row: nobody else is about to.
LEMMA EmitTests ==
  ASSUME TypeOK, FlowInv, ClockInv, TestsInv, NEW t \in Threads, Emit(t)
  PROVE  ClockInv' /\ TestsInv'
<1>1. /\ thread[t].at = "emit" /\ status = "submitted" /\ tests = 0
      /\ clock = "open" => t = "route"
      /\ clock = "overdue" => t = "sweeper"
  BY DEF Emit, IsAt, TestsInv, ClockInv, Untouched, FlowInv, CoherentAt, Coherent, Threads, TypeOK
<1>2. tests' \in {0, 1}
  BY <1>1, Counts DEF Emit, MayRaise
<1>3. \/ Becomes(t, "derive", thread[t].job, thread[t].kind, thread[t].then)
      \/ Becomes(t, "sched", thread[t].job, "mock_tests_retry", "derive")
  BY Goes, Scheduling, Names DEF Emit
<1>4. ClockInv'
  BY <1>1, <1>3 DEF Emit, ClockInv, Untouched, Becomes, Threads, TypeOK, attemptVars
<1>5. \A u \in Threads : thread'[u].at \notin {"flip", "emit"}
  BY <1>1, <1>3 DEF TestsInv, ClockInv, Untouched, Becomes, Threads, TypeOK, FlowInv, CoherentAt,
     Coherent
<1>6. thread'["sweeper"].at # "insert"
  BY <1>1, <1>3, Names DEF TestsInv, Untouched, Becomes, Threads, FlowInv, CoherentAt, Coherent
<1>7. TestsInv'
  BY <1>1, <1>2, <1>5, <1>6 DEF Emit, TestsInv, attemptVars, Threads
<1> QED
  BY <1>4, <1>7

\* The retry inserts the row when it has found none.
LEMMA CheckTests ==
  ASSUME "read" \notin Faults, TypeOK, FlowInv, ClockInv, TestsInv, Check
  PROVE  ClockInv' /\ TestsInv'
<1>1. \/ tests > 0 /\ Becomes("sweeper", "redraft", thread["sweeper"].job, thread["sweeper"].kind,
             thread["sweeper"].then)
      \/ tests = 0 /\ Becomes("sweeper", "insert", thread["sweeper"].job, thread["sweeper"].kind,
             thread["sweeper"].then)
  BY Goes, Names DEF Check, Fault, TypeOK
<1>2. ClockInv'
  BY <1>1, Names DEF Check, ClockInv, Untouched, Becomes, attemptVars
<1>3. TestsInv'
  BY <1>1, Names DEF Check, TestsInv, Untouched, Becomes, Threads, attemptVars, derivedVars
<1> QED
  BY <1>2, <1>3

\* The retry inserts the row it has found missing.
LEMMA ReEmitTests ==
  ASSUME TypeOK, FlowInv, ClockInv, TestsInv, ReEmit
  PROVE  ClockInv' /\ TestsInv'
<1>1. /\ thread["sweeper"].at = "insert" /\ tests = 0
      /\ thread["sweeper"].job = "mock_tests_retry"
  BY Names DEF ReEmit, IsAt, TestsInv, FlowInv, CoherentAt, Coherent
<1>2. tests' \in {0, 1}
  BY <1>1, Counts DEF ReEmit, MayRaise
<1>3. \/ Becomes("sweeper", "redraft", thread["sweeper"].job, thread["sweeper"].kind,
             thread["sweeper"].then)
      \/ Becomes("sweeper", "raise", thread["sweeper"].job, thread["sweeper"].kind,
             thread["sweeper"].then)
  BY Goes, Raising, Names DEF ReEmit
<1>4. status # "in_progress" /\ thread["route"].at # "emit"
  BY <1>1 DEF TestsInv, Untouched
<1>5. ClockInv'
  BY <1>3, Names DEF ReEmit, ClockInv, Untouched, Becomes, attemptVars
<1>6. TestsInv'
  BY <1>2, <1>3, <1>4 DEF ReEmit, TestsInv, Becomes, Threads, attemptVars
<1> QED
  BY <1>5, <1>6

\* An overdue attempt gets its job.
LEMMA DetectTests ==
  ASSUME TypeOK, FlowInv, ClockInv, TestsInv, Detect
  PROVE  ClockInv' /\ TestsInv'
<1>1. Becomes("sweeper", "list", thread["sweeper"].job, thread["sweeper"].kind,
          thread["sweeper"].then)
  BY Goes, Names DEF Detect
<1>2. UNCHANGED jobs \/ (clock = "overdue" /\ Writes("auto_submit", "pending"))
  BY Putting, Inserting, Names DEF Detect
<1>3. Unwritten
  BY <1>2, Absent, Names DEF Unwritten, Writes, ClockInv, TestsInv, Untouched, Early
<1> QED
  BY <1>1, <1>3, Quiet, Later, Names DEF Detect, attemptVars, derivedVars

\* What is listed is active, and what was never scheduled is not.
LEMMA ListTests ==
  ASSUME TypeOK, FlowInv, ClockInv, TestsInv, List
  PROVE  ClockInv' /\ TestsInv'
<1>1. ClockInv'
  BY ListKeeps DEF List, ClockInv, Untouched, Active, NoJob, attemptVars
<1>2. TestsInv'
  BY ListKeeps DEF List, TestsInv, Untouched, Active, NoJob, Threads, attemptVars, derivedVars
<1> QED
  BY <1>1, <1>2

\* The retry of the row begins when the submission is over.
LEMMA TakeTests ==
  ASSUME TypeOK, FlowInv, ClockInv, TestsInv, NEW k \in Kinds, Take(k)
  PROVE  ClockInv' /\ TestsInv'
<1>1. /\ k = "auto_submit" => clock # "open"
      /\ k = "mock_tests_retry" => status # "in_progress" /\ thread["route"].at # "emit"
  BY DEF Take, ClockInv, TestsInv, Untouched
<1>2. /\ thread'["sweeper"].at \notin {"flip", "emit", "insert"}
      /\ thread'["sweeper"].job \in {k, NoJob}
  BY TakeKeeps DEF Begun, GivenUp, Begins, Kinds
<1>3. ClockInv'
  BY <1>1, <1>2, TakeKeeps, Names DEF Take, ClockInv, Untouched, NoJob, attemptVars
<1>4. status = "in_progress" \/ thread["route"].at = "emit" => Untouched("mock_tests_retry")'
  BY <1>1, <1>2, TakeKeeps, Names DEF TestsInv, Untouched, NoJob
<1>5. TestsInv'
  BY <1>2, <1>4, TakeKeeps, Names DEF Take, TestsInv, Threads, attemptVars, derivedVars
<1> QED
  BY <1>3, <1>5

\* The pass is over.
LEMMA PassEndsTests ==
  ASSUME TypeOK, FlowInv, ClockInv, TestsInv, PassEnds
  PROVE  ClockInv' /\ TestsInv'
<1>1. ClockInv'
  BY PassEndsKeeps, Resting DEF PassEnds, ClockInv, Untouched, NoJob, attemptVars
<1>2. TestsInv'
  BY PassEndsKeeps, Resting DEF PassEnds, TestsInv, Untouched, NoJob, Threads, attemptVars,
     derivedVars
<1> QED
  BY <1>1, <1>2

\* A row that is due has the status it had.
LEMMA DueComesTests ==
  ASSUME TypeOK, FlowInv, ClockInv, TestsInv, NEW k \in Kinds, DueComes(k)
  PROVE  ClockInv' /\ TestsInv'
BY DueComesKeeps, Names DEF DueComes, ClockInv, TestsInv, Untouched, attemptVars, derivedVars

\* The window ends when no request is under way.
LEMMA OverdueTests ==
  ASSUME ~LateSubmits, TypeOK, FlowInv, ClockInv, TestsInv, Overdue
  PROVE  ClockInv' /\ TestsInv'
BY DEF Overdue, IsAt, ClockInv, TestsInv, Untouched, derivedVars

\* A crash leaves the rows as they are.
LEMMA CrashTests ==
  ASSUME TypeOK, FlowInv, ClockInv, TestsInv, Crash
  PROVE  ClockInv' /\ TestsInv'
<1>1. ClockInv'
  BY CrashKeeps, Resting, Names DEF Crash, ClockInv, Untouched, NoJob
<1>2. TestsInv'
  BY CrashKeeps, Resting, Names DEF Crash, TestsInv, Untouched, NoJob, Threads, derivedVars
<1> QED
  BY <1>1, <1>2

\* Every step of an orderly run keeps what the submission relies on.
LEMMA TestsStep ==
  ASSUME ~LateSubmits, "read" \notin Faults, TypeOK, FlowInv, ClockInv, TestsInv, [Next]_vars
  PROVE  ClockInv' /\ TestsInv'
<1>1. CASE Submit
  BY <1>1, SubmitTests
<1>2. CASE RouteStep
  BY <1>2, Names, FetchTests, FlipTests, EmitTests, DeriveTests, ComputeTests, SettleTests,
     RepairTestsTests, RepairSummaryTests, ScheduleReadTests, SchedulePutTests, ClaimTests,
     ReadyTests, AuditTests, ApplyTests, InsertErrorsTests, DraftTests, FinishTests, HandleTests
  DEF RouteStep
<1>3. CASE SweeperStep
  BY <1>3, Names, DetectTests, ListTests, TakeTests, PassEndsTests, FetchTests, FlipTests,
     EmitTests, DeriveTests, ComputeTests, HandoffTests, CheckTests, ReEmitTests,
     ScheduleReadTests, SchedulePutTests, ReadyTests, AuditTests, ApplyTests,
     InsertErrorsTests, DraftTests, FinishTests, HandleTests
  DEF SweeperStep
<1>4. CASE Overdue \/ Crash \/ \E k \in Kinds : DueComes(k)
  BY <1>4, OverdueTests, CrashTests, DueComesTests
<1>5. CASE UNCHANGED vars
  BY <1>5 DEF vars, ClockInv, TestsInv, Untouched
<1> QED
  BY <1>1, <1>2, <1>3, <1>4, <1>5 DEF Next

\* Whatever raises, is retried, repeated or cut off by a crash, the attempt appears
\* once in the history of mocks: for a learner who does not submit once the sweeper
\* may close the attempt, and when no read fails (_emit_mock_tests_row inserts, and
\* mock_tests has no unique index on mock_attempt_id).
THEOREM OneTestsRowHolds ==
  ASSUME ~LateSubmits, "read" \notin Faults
  PROVE  Spec => []OneTestsRow
<1> DEFINE IInv == TypeOK /\ FlowInv /\ ClockInv /\ TestsInv
<1>1. Init => IInv
  <2> SUFFICES ASSUME Init PROVE IInv
    OBVIOUS
  <2>1. \A t \in Threads : thread[t] = Idle
    BY DEF Init
  <2>2. ClockInv
    BY <2>1, Resting, Names DEF Init, ClockInv, Untouched, NoJob
  <2>3. TestsInv
    BY <2>1, Resting, Names DEF Init, TestsInv, Untouched, NoJob
  <2> QED
    BY <2>2, <2>3, FirstState
<1>2. IInv /\ [Next]_vars => IInv'
  BY FlowStep, TestsStep
<1>3. IInv => OneTestsRow
  BY DEF TestsInv, OneTestsRow
<1> QED
  BY <1>1, <1>2, <1>3, PTL DEF Spec

-----------------------------------------------------------------------------
(* The deltas are added once.                                                *)

\* The row of the write-back is active while somebody works on it.
StaysActive == Active("mastery_retry") => jobs'["mastery_retry"].status \in {"pending", "running"}

\* A step that neither takes the write-back nor reaches its update.
LEMMA Aside ==
  ASSUME FlowInv, MasteryInv, NEW t \in Threads, NEW at, at # "apply",
         NEW job, job = thread[t].job \/ job = NoJob, NEW then, NEW kind,
         Becomes(t, at, job, kind, then), applied' = applied, StaysActive
  PROVE  MasteryInv'
BY Names DEF MasteryInv, Active, StaysActive, Becomes, Threads, NoJob

\* Writes that leave the row active.
LEMMA Remains ==
  /\ UNCHANGED jobs => StaysActive
  /\ \A k, s : k # "mastery_retry" /\ Writes(k, s) => StaysActive
  /\ \A k : Writes(k, "pending") \/ Writes(k, "running") => StaysActive
BY Names DEF StaysActive, Active, Writes

\* So is the status.
LEMMA FlipMastery ==
  ASSUME TypeOK, FlowInv, MasteryInv, NEW t \in Threads, Flip(t)
  PROVE  MasteryInv'
BY Goes, Raising, Aside, Remains, Names
DEF Flip, MayRaise, IsAt, attemptVars, derivedVars

\* So is the mock_tests row.
LEMMA EmitMastery ==
  ASSUME TypeOK, FlowInv, MasteryInv, NEW t \in Threads, Emit(t)
  PROVE  MasteryInv'
BY Goes, Scheduling, Aside, Remains, Names
DEF Emit, MayRaise, IsAt, attemptVars, derivedVars

\* So is the step to the analytics.
LEMMA DeriveMastery ==
  ASSUME TypeOK, FlowInv, MasteryInv, NEW t \in Threads, Derive(t)
  PROVE  MasteryInv'
BY Goes, Scheduling, Aside, Remains, Names
DEF Derive, IsAt, attemptVars, derivedVars

\* So are the analytics.
LEMMA ComputeMastery ==
  ASSUME TypeOK, FlowInv, MasteryInv, NEW t \in Threads, Compute(t)
  PROVE  MasteryInv'
BY Goes, Raising, Scheduling, Aside, Remains, Names
DEF Compute, MayRaise, Part, IsAt, attemptVars, derivedVars

\* So is the repair of the mock_tests row.
LEMMA RepairTestsMastery ==
  ASSUME TypeOK, FlowInv, MasteryInv, RepairTests
  PROVE  MasteryInv'
BY Goes, Scheduling, Aside, Remains, Names
DEF RepairTests, IsAt, attemptVars, derivedVars

\* So is the repair of the analytics.
LEMMA RepairSummaryMastery ==
  ASSUME TypeOK, FlowInv, MasteryInv, RepairSummary
  PROVE  MasteryInv'
BY Goes, Scheduling, Aside, Remains, Names
DEF RepairSummary, IsAt, attemptVars, derivedVars

\* The check does not reach the update yet.
LEMMA ReadyMastery ==
  ASSUME TypeOK, FlowInv, MasteryInv, NEW t \in Threads, Ready(t)
  PROVE  MasteryInv'
BY Goes, Raising, Scheduling, Aside, Remains, Names
DEF Ready, IsAt, attemptVars, derivedVars

\* The deltas were added before.
LEMMA InsertErrorsMastery ==
  ASSUME TypeOK, FlowInv, MasteryInv, NEW t \in Threads, InsertErrors(t)
  PROVE  MasteryInv'
BY Goes, Raising, Aside, Remains, Names
DEF InsertErrors, MayRaise, IsAt, attemptVars, derivedVars

\* The corrections come after the deltas.
LEMMA DraftMastery ==
  ASSUME TypeOK, FlowInv, MasteryInv, NEW t \in Threads, Draft(t)
  PROVE  MasteryInv'
BY Goes, Raising, Aside, Remains, Names
DEF Draft, MayRaise, IsAt, attemptVars, derivedVars

\* The request writes no row yet.
LEMMA HandoffMastery ==
  ASSUME TypeOK, FlowInv, MasteryInv, Handoff
  PROVE  MasteryInv'
BY Scheduling, Aside, Remains, Names
DEF Handoff, IsAt, attemptVars, derivedVars

\* The look for the mock_tests row is away from the write-back.
LEMMA CheckMastery ==
  ASSUME TypeOK, FlowInv, MasteryInv, Check
  PROVE  MasteryInv'
BY Goes, Aside, Remains, Names
DEF Check, IsAt, attemptVars, derivedVars

\* The retry inserts the row it has found missing.
LEMMA ReEmitMastery ==
  ASSUME TypeOK, FlowInv, MasteryInv, ReEmit
  PROVE  MasteryInv'
BY Goes, Raising, Aside, Remains, Names
DEF ReEmit, MayRaise, IsAt, attemptVars, derivedVars

\* The read of the attempt is away from the write-back.
LEMMA FetchMastery ==
  ASSUME TypeOK, FlowInv, MasteryInv, NEW t \in Threads, Fetch(t)
  PROVE  MasteryInv'
<1>1. \/ Becomes(t, "idle", NoJob, thread[t].kind, thread[t].then)
      \/ \E at \in {"flip", "repairTests", "finish"} :
           Becomes(t, at, thread[t].job, thread[t].kind, thread[t].then)
  BY Goes, Leaving DEF Fetch, Threads, TypeOK, Steps
<1> QED
  BY <1>1, Aside, Remains DEF Fetch, derivedVars

\* An analytics job is another row.
LEMMA SettleMastery ==
  ASSUME TypeOK, FlowInv, MasteryInv, Settle
  PROVE  MasteryInv'
<1>1. Becomes("route", "claim", thread["route"].job, thread["route"].kind, thread["route"].then)
  BY Goes, Names DEF Settle
<1>2. StaysActive
  BY Putting, Remains, Names DEF Settle
<1>3. applied' = applied
  BY DEF Settle, derivedVars
<1> QED
  BY <1>1, <1>2, <1>3, Aside, Names

\* A read of schedule_job.
LEMMA ScheduleReadMastery ==
  ASSUME TypeOK, FlowInv, MasteryInv, NEW t \in Threads, ScheduleRead(t)
  PROVE  MasteryInv'
BY ScheduleReadKeeps, Aside, Remains DEF ScheduleRead, derivedVars

\* schedule_job makes rows pending.
LEMMA SchedulePutMastery ==
  ASSUME TypeOK, FlowInv, MasteryInv, NEW t \in Threads, SchedulePut(t)
  PROVE  MasteryInv'
<1>1. PICK at \in {thread[t].then, "raise"} : Becomes(t, at, thread[t].job, "auto_submit", "idle")
  BY SchedulePutKeeps
<1>2. at # "apply"
  BY DEF FlowInv, CoherentAt, Coherent
<1>3. StaysActive
  BY SchedulePutKeeps, Remains DEF TypeOK, Thread
<1> QED
  BY <1>1, <1>2, <1>3, Aside DEF SchedulePut, derivedVars

\* The claim: nobody has the write-back, so none is listed or under way.
LEMMA ClaimMastery ==
  ASSUME TypeOK, FlowInv, MasteryInv, Claim
  PROVE  MasteryInv'
<1>1. CASE /\ Becomes("route", "idle", NoJob, thread["route"].kind, thread["route"].then)
           /\ UNCHANGED jobs \/ Writes("mastery_retry", "running")
  BY <1>1, Aside, Remains, Names DEF Claim, derivedVars
<1>2. CASE /\ Becomes("route", "ready", "mastery_retry", thread["route"].kind, thread["route"].then)
           /\ ~Active("mastery_retry") /\ Writes("mastery_retry", "running")
  BY <1>2, Names DEF Claim, derivedVars, MasteryInv, Active, Becomes, Writes, Threads
<1> QED
  BY <1>1, <1>2, ClaimKeeps

\* Only who works on the write-back looks for the audit row: nobody else adds it.
LEMMA AuditMastery ==
  ASSUME TypeOK, FlowInv, MasteryInv, NEW t \in Threads, Audit(t)
  PROVE  MasteryInv'
<1>1. CASE applied = 0 /\ Becomes(t, "apply", thread[t].job, thread[t].kind, thread[t].then)
  BY <1>1, Names DEF Audit, derivedVars, MasteryInv, Active, Becomes, Threads
<1>2. CASE Becomes(t, "errors", thread[t].job, thread[t].kind, thread[t].then)
  BY <1>2, Aside, Remains DEF Audit, derivedVars
<1> QED
  BY <1>1, <1>2, Goes, Names DEF Audit

\* Who adds the deltas is alone and has found none.
LEMMA ApplyMastery ==
  ASSUME TypeOK, FlowInv, MasteryInv, NEW t \in Threads, Apply(t)
  PROVE  MasteryInv'
<1>1. /\ thread[t].at = "apply" /\ applied = 0 /\ thread[t].job = "mastery_retry"
      /\ \A u \in Threads : u # t => thread[u].at # "apply"
  BY DEF Apply, IsAt, MasteryInv, FlowInv, CoherentAt, Coherent, Threads
<1>2. applied' \in {0, 1}
  BY <1>1, Counts DEF Apply, MayRaise
<1>3. \/ Becomes(t, "errors", thread[t].job, thread[t].kind, thread[t].then)
      \/ Becomes(t, "raise", thread[t].job, thread[t].kind, thread[t].then)
  BY Goes, Raising, Names DEF Apply
<1> QED
  BY <1>1, <1>2, <1>3, Names DEF Apply, MasteryInv, Active, Becomes, Threads

\* The end of the write-back: it was the only one.
LEMMA FinishMastery ==
  ASSUME TypeOK, FlowInv, MasteryInv, NEW t \in Threads, Finish(t)
  PROVE  MasteryInv'
<1>1. CASE thread[t].job # "mastery_retry"
  <2>1. thread[t].job \in Kinds
    BY <1>1 DEF Finish, IsAt, FlowInv, CoherentAt, Coherent, TypeOK, Thread, Threads, Kinds
  <2>2. StaysActive
    BY <1>1, <2>1, FinishKeeps, Remains
  <2> QED
    BY <2>2, FinishKeeps, Aside DEF Finish, derivedVars
<1>2. CASE thread[t].job = "mastery_retry"
  <2>1. CASE UNCHANGED jobs
    BY <2>1, FinishKeeps, Aside, Remains DEF Finish, derivedVars
  <2>2. CASE \/ Becomes(t, "idle", NoJob, thread[t].kind, thread[t].then)
             \/ Becomes(t, "next", NoJob, thread[t].kind, thread[t].then)
    <3>1. \A u \in Threads : thread'[u].job # "mastery_retry"
      BY <1>2, <2>2 DEF MasteryInv, Becomes, Threads, NoJob
    <3>2. "mastery_retry" \notin thread'["sweeper"].todo
      BY <1>2, <2>2, Names DEF MasteryInv, Becomes, Threads
    <3>3. \A u \in Threads : thread'[u].at = "apply" => applied = 0
      BY <2>2 DEF MasteryInv, Becomes
    <3> QED
      BY <3>1, <3>2, <3>3, Names DEF Finish, derivedVars, MasteryInv
  <2> QED
    BY <2>1, <2>2, FinishKeeps
<1> QED
  BY <1>1, <1>2

\* The row of a write-back that raised is pending.
LEMMA HandleMastery ==
  ASSUME TypeOK, FlowInv, MasteryInv, NEW t \in Threads, Handle(t)
  PROVE  MasteryInv'
<1>1. \/ Becomes(t, "idle", NoJob, thread[t].kind, thread[t].then)
      \/ Becomes(t, "next", NoJob, thread[t].kind, thread[t].then)
  BY HandleKeeps
<1>2. StaysActive
  BY HandleKeeps, Remains DEF TypeOK, Thread
<1> QED
  BY <1>1, <1>2, Aside DEF Handle, derivedVars

\* A request begins.
LEMMA SubmitMastery ==
  ASSUME TypeOK, FlowInv, MasteryInv, Submit
  PROVE  MasteryInv'
<1> DEFINE r == [Idle EXCEPT !.at = "fetch", !.was = (status = "submitted")]
<1>1. r.at = "fetch" /\ r.job = NoJob
  BY DEF Idle
<1>2. /\ thread'["route"] = r /\ thread'["sweeper"] = thread["sweeper"]
  BY DEF Submit, TypeOK, Threads
<1> HIDE DEF r
<1> QED
  BY <1>1, <1>2 DEF Submit, derivedVars, MasteryInv, Active, Threads, NoJob

\* The first phase of a pass makes another row.
LEMMA DetectMastery ==
  ASSUME TypeOK, FlowInv, MasteryInv, Detect
  PROVE  MasteryInv'
<1>1. Becomes("sweeper", "list", thread["sweeper"].job, thread["sweeper"].kind,
          thread["sweeper"].then)
  BY Goes, Names DEF Detect
<1>2. StaysActive
  BY Putting, Inserting, Remains, Names DEF Detect
<1> QED
  BY <1>1, <1>2, Aside, Names DEF Detect, derivedVars

\* A quick route is not overtaken by the pass that lists its write-back.
LEMMA ListMastery ==
  ASSUME Quick, TypeOK, FlowInv, MasteryInv, List
  PROVE  MasteryInv'
<1>1. \A k \in thread'["sweeper"].todo :
        k \in thread["sweeper"].todo \/ (Active(k) /\ k # thread["route"].job)
  BY ListKeeps
<1> QED
  BY <1>1, ListKeeps, Names DEF List, derivedVars, MasteryInv, Active, Threads, NoJob

\* Who takes the listed write-back has it alone.
LEMMA TakeMastery ==
  ASSUME TypeOK, FlowInv, MasteryInv, NEW k \in Kinds, Take(k)
  PROVE  MasteryInv'
<1>1. k \in thread["sweeper"].todo /\ thread["sweeper"].job = NoJob
  BY Names DEF Take, IsAt, FlowInv, CoherentAt, Coherent
<1>2. thread'["sweeper"].at # "apply"
  BY TakeKeeps DEF Begun, GivenUp, Begins, Kinds
<1>3. thread'["sweeper"].job = "mastery_retry" =>
        Active("mastery_retry")' /\ k = "mastery_retry"
  BY TakeKeeps DEF Begun, GivenUp, Active, NoJob
<1>4. thread'["route"].job = "mastery_retry" =>
        /\ k # "mastery_retry" /\ Active("mastery_retry")'
        /\ thread'["sweeper"].job # "mastery_retry"
        /\ "mastery_retry" \notin thread'["sweeper"].todo
  BY <1>1, <1>3, TakeKeeps, Names DEF MasteryInv, Active
<1>5. "mastery_retry" \in thread'["sweeper"].todo =>
        k # "mastery_retry" /\ Active("mastery_retry")' /\ thread'["sweeper"].job # "mastery_retry"
  BY <1>1, <1>3, TakeKeeps, Names DEF MasteryInv, Active
<1>6. thread'["route"].at = "apply" => applied = 0
  BY TakeKeeps, Names DEF MasteryInv
<1> QED
  BY <1>2, <1>3, <1>4, <1>5, <1>6 DEF Take, derivedVars, MasteryInv, Threads

\* A pass is over.
LEMMA PassEndsMastery ==
  ASSUME TypeOK, FlowInv, MasteryInv, PassEnds
  PROVE  MasteryInv'
BY PassEndsKeeps, Resting, Names DEF PassEnds, derivedVars, MasteryInv, Active, Threads, NoJob

\* A row that is due has the status it had.
LEMMA DueComesMastery ==
  ASSUME TypeOK, FlowInv, MasteryInv, NEW k \in Kinds, DueComes(k)
  PROVE  MasteryInv'
BY DueComesKeeps, Names DEF DueComes, derivedVars, MasteryInv, Active

\* The window is not about the write-back.
LEMMA OverdueMastery ==
  ASSUME TypeOK, FlowInv, MasteryInv, Overdue
  PROVE  MasteryInv'
BY DEF Overdue, derivedVars, MasteryInv, Active

\* A crash takes the write-back from its hands.
LEMMA CrashMastery ==
  ASSUME TypeOK, FlowInv, MasteryInv, Crash
  PROVE  MasteryInv'
BY CrashKeeps, Resting, Names DEF Crash, derivedVars, MasteryInv, Active, NoJob

\* Every step keeps the write-back in one hand.
LEMMA MasteryStep ==
  ASSUME Quick, TypeOK, FlowInv, MasteryInv, [Next]_vars
  PROVE  MasteryInv'
<1>1. CASE Submit
  BY <1>1, SubmitMastery
<1>2. CASE RouteStep
  BY <1>2, Names, FetchMastery, FlipMastery, EmitMastery, DeriveMastery, ComputeMastery,
     SettleMastery, RepairTestsMastery, RepairSummaryMastery, ScheduleReadMastery,
     SchedulePutMastery, ClaimMastery, ReadyMastery, AuditMastery, ApplyMastery,
     InsertErrorsMastery, DraftMastery, FinishMastery, HandleMastery
  DEF RouteStep
<1>3. CASE SweeperStep
  BY <1>3, Names, DetectMastery, ListMastery, TakeMastery, PassEndsMastery, FetchMastery,
     FlipMastery, EmitMastery, DeriveMastery, ComputeMastery, HandoffMastery, CheckMastery,
     ReEmitMastery, ScheduleReadMastery, SchedulePutMastery, ReadyMastery, AuditMastery,
     ApplyMastery, InsertErrorsMastery, DraftMastery, FinishMastery, HandleMastery
  DEF SweeperStep
<1>4. CASE Overdue \/ Crash \/ \E k \in Kinds : DueComes(k)
  BY <1>4, OverdueMastery, CrashMastery, DueComesMastery
<1>5. CASE UNCHANGED vars
  BY <1>5 DEF vars, MasteryInv, Active
<1> QED
  BY <1>1, <1>2, <1>3, <1>4, <1>5 DEF Next

\* Whatever fails or is retried, and however late the learner submits, the deltas of
\* the attempt are added once, for a route that ends its write-back before the pass
\* that would list it (apply_mock_mastery_delta looks for an audit row that another
\* transaction may still be writing).
THEOREM AppliedOnceHolds ==
  ASSUME Quick
  PROVE  Spec => []AppliedOnce
<1> DEFINE IInv == TypeOK /\ FlowInv /\ MasteryInv
<1>1. Init => IInv
  <2> SUFFICES ASSUME Init PROVE IInv
    OBVIOUS
  <2>1. \A t \in Threads : thread[t] = Idle
    BY DEF Init
  <2>2. MasteryInv
    BY <2>1, Resting, Names DEF Init, MasteryInv, NoJob
  <2> QED
    BY <2>2, FirstState
<1>2. IInv /\ [Next]_vars => IInv'
  BY FlowStep, MasteryStep
<1>3. IInv => AppliedOnce
  BY DEF MasteryInv, AppliedOnce
<1> QED
  BY <1>1, <1>2, <1>3, PTL DEF Spec

-----------------------------------------------------------------------------
(* Where a step leads.                                                       *)

\* Thread t goes on in its job, outside schedule_job.
Turns(t, at) == Becomes(t, at, thread[t].job, "auto_submit", "idle")

\* Thread t asks schedule_job for a job of kind k.
Asks(t, k, then) == Becomes(t, "sched", thread[t].job, k, then)

\* Thread t is done with its job or its request.
Parts(t) == Becomes(t, IF t = "route" THEN "idle" ELSE "next", NoJob, "auto_submit", "idle")

\* A thread outside schedule_job asks it for nothing.
LEMMA Outside ==
  ASSUME TypeOK, FlowInv, NEW t \in Threads, thread[t].at \notin {"sched", "put"}
  PROVE  /\ thread[t].kind = "auto_submit" /\ thread[t].then = "idle"
         /\ \A at \in Steps : GoesTo(t, at) => Turns(t, at)
         /\ Raises(t) => Turns(t, "raise")
         /\ Leaves(t) => Parts(t)
<1>1. thread[t].kind = "auto_submit" /\ thread[t].then = "idle"
  BY DEF FlowInv, CoherentAt, Coherent
<1> QED
  BY <1>1, Goes, Raising, Leaving DEF Turns, Parts

\* The attempt was open, is repaired or is left alone.
LEMMA FetchLeads ==
  ASSUME TypeOK, FlowInv, NEW t \in Threads, Fetch(t)
  PROVE  \/ status = "in_progress" /\ Turns(t, "flip")
         \/ t = "route" /\ status = "submitted" /\ Turns(t, "repairTests")
         \/ t = "sweeper" /\ Turns(t, "finish")
         \/ t = "route" /\ Parts(t)
<1>1. /\ Leaves(t) => Parts(t)
      /\ \A at \in {"flip", "repairTests", "finish"} : GoesTo(t, at) => Turns(t, at)
  <2>1. thread[t].at = "fetch"
    BY DEF Fetch, IsAt
  <2>2. \A at \in Steps : GoesTo(t, at) => Turns(t, at)
    BY <2>1, Outside
  <2>3. Leaves(t) => Parts(t)
    BY <2>1, Outside
  <2> QED
    BY <2>2, <2>3, Names DEF Steps
<1> QED
  BY <1>1 DEF Fetch, TypeOK, Threads

\* The mock_tests row is there, or its retry is asked for.
LEMMA EmitLeads ==
  ASSUME TypeOK, FlowInv, NEW t \in Threads, Emit(t)
  PROVE  /\ tests' \in {tests, Several(tests)}
         /\ \/ tests' > 0 /\ Turns(t, "derive")
            \/ Asks(t, "mock_tests_retry", "derive")
<1>1. GoesTo(t, "derive") => Turns(t, "derive")
  BY Outside, Names DEF Emit, IsAt
<1>2. Several(tests) > 0
  BY DEF Several
<1> QED
  BY <1>1, <1>2, Scheduling, Names DEF Emit, MayRaise, Asks

\* The route computes, the sweeper asks for a job.
LEMMA DeriveLeads ==
  ASSUME TypeOK, FlowInv, NEW t \in Threads, Derive(t)
  PROVE  \/ t = "route" /\ Turns(t, "compute")
         \/ t = "sweeper" /\ Asks(t, "analytics_retry", "finish")
<1>1. GoesTo(t, "compute") => Turns(t, "compute")
  BY Outside, Names DEF Derive, IsAt
<1> QED
  BY <1>1, Scheduling, Names DEF Derive, Asks, Threads

\* The analytics are there, or the route asks for a retry, or the sweeper's job raises.
LEMMA ComputeLeads ==
  ASSUME TypeOK, FlowInv, NEW t \in Threads, Compute(t)
  PROVE  /\ analytics = "full" => analytics' = "full"
         /\ \/ /\ t = "route" /\ status = "submitted" /\ analytics' = "full"
               /\ Turns(t, "settle")
            \/ t = "route" /\ Asks(t, "analytics_retry", "claim")
            \/ /\ t = "sweeper" /\ status = "submitted" /\ analytics' = "full"
               /\ Turns(t, "handoff")
            \/ t = "sweeper" /\ Turns(t, "raise")
<1>1. /\ \A at \in {"settle", "handoff"} : GoesTo(t, at) => Turns(t, at)
      /\ Raises(t) => Turns(t, "raise")
  BY Outside, Names DEF Compute, IsAt
<1>2. analytics = "full" => analytics' = "full"
  BY DEF Compute, MayRaise, Part
<1> QED
  BY <1>1, <1>2, Scheduling, Names DEF Compute, Asks, Threads

\* The mock_tests row is there, or its retry is asked for.
LEMMA RepairTestsLeads ==
  ASSUME TypeOK, FlowInv, RepairTests
  PROVE  \/ Asks("route", "mock_tests_retry", "repairSummary")
         \/ tests > 0 /\ Turns("route", "repairSummary")
<1>1. GoesTo("route", "repairSummary") => Turns("route", "repairSummary")
  BY Outside, Names DEF RepairTests, IsAt
<1> QED
  BY <1>1, Scheduling, Names DEF RepairTests, Asks

\* The analytics are looked at, or their retry is asked for.
LEMMA RepairSummaryLeads ==
  ASSUME TypeOK, FlowInv, RepairSummary
  PROVE  Asks("route", "analytics_retry", "claim") \/ Turns("route", "claim")
<1>1. GoesTo("route", "claim") => Turns("route", "claim")
  BY Outside, Names DEF RepairSummary, IsAt
<1> QED
  BY <1>1, Scheduling, Names DEF RepairSummary, Asks

\* The write-back begins, raises, or asks for the analytics.
LEMMA ReadyLeads ==
  ASSUME TypeOK, FlowInv, NEW t \in Threads, Ready(t)
  PROVE  \/ Turns(t, "audit") \/ Turns(t, "raise")
         \/ Asks(t, "analytics_retry", "raise")
<1>1. /\ GoesTo(t, "audit") => Turns(t, "audit")
      /\ Raises(t) => Turns(t, "raise")
  BY Outside, Names DEF Ready, IsAt
<1> QED
  BY <1>1, Scheduling, Names DEF Ready, Asks

\* The write-back is asked for.
LEMMA HandoffLeads ==
  ASSUME TypeOK, FlowInv, Handoff
  PROVE  Asks("sweeper", "mastery_retry", "finish")
BY Scheduling, Names DEF Handoff, Asks

\* The write-back is claimed, or left.
LEMMA ClaimLeads ==
  ASSUME TypeOK, FlowInv, Claim
  PROVE  Parts("route") \/ Becomes("route", "ready", "mastery_retry", "auto_submit", "idle")
BY ClaimKeeps, Outside, Names DEF Claim, IsAt, Parts

\* The other steps of a thread: where it was, and where it may be next.
LEMMA OtherLeads ==
  ASSUME TypeOK, FlowInv, NEW t \in Threads
  PROVE  /\ Flip(t) => Turns(t, "emit") \/ Turns(t, "raise")
         /\ Audit(t) => Turns(t, "apply") \/ Turns(t, "errors")
         /\ Apply(t) => Turns(t, "errors") \/ Turns(t, "raise")
         /\ InsertErrors(t) => Turns(t, "draft") \/ Turns(t, "raise")
         /\ Draft(t) => Turns(t, "finish") \/ Turns(t, "raise")
         /\ t = "route" /\ Settle => Turns(t, "claim")
         /\ t = "sweeper" /\ Detect => Turns(t, "list")
         /\ t = "sweeper" /\ Check => Turns(t, "insert") \/ (tests > 0 /\ Turns(t, "redraft"))
         /\ t = "sweeper" /\ ReEmit => Turns(t, "redraft") \/ Turns(t, "raise")
         /\ Finish(t) => Parts(t) \/ Turns(t, "raise")
         /\ Handle(t) => Parts(t)
<1>1. thread[t].at \notin {"sched", "put"} =>
        /\ \A at \in Steps : GoesTo(t, at) => Turns(t, at)
        /\ Raises(t) => Turns(t, "raise")
        /\ Leaves(t) => Parts(t)
  BY Outside
<1>2. /\ Flip(t) => Turns(t, "emit") \/ Turns(t, "raise")
      /\ Audit(t) => Turns(t, "apply") \/ Turns(t, "errors")
      /\ Apply(t) => Turns(t, "errors") \/ Turns(t, "raise")
  BY <1>1, Names DEF Flip, Audit, Apply, IsAt
<1>3. /\ InsertErrors(t) => Turns(t, "draft") \/ Turns(t, "raise")
      /\ Draft(t) => Turns(t, "finish") \/ Turns(t, "raise")
  BY <1>1, Names DEF InsertErrors, Draft, IsAt
<1>4. /\ t = "route" /\ Settle => Turns(t, "claim")
      /\ t = "sweeper" /\ Detect => Turns(t, "list")
  BY <1>1, Names DEF Settle, Detect, IsAt
<1>5. /\ t = "sweeper" /\ Check => Turns(t, "insert") \/ (tests > 0 /\ Turns(t, "redraft"))
      /\ t = "sweeper" /\ ReEmit => Turns(t, "redraft") \/ Turns(t, "raise")
  BY <1>1, Names DEF Check, ReEmit, IsAt
<1>6. /\ Finish(t) => Parts(t) \/ Turns(t, "raise")
      /\ Handle(t) => Parts(t)
  BY <1>1 DEF Finish, Handle, IsAt
<1> QED
  BY <1>2, <1>3, <1>4, <1>5, <1>6

\* A request begins.
LEMMA SubmitLeads ==
  ASSUME TypeOK, FlowInv, Submit
  PROVE  /\ thread'["sweeper"] = thread["sweeper"]
         /\ thread'["route"].at = "fetch" /\ thread'["route"].job = NoJob
         /\ thread'["route"].kind = "auto_submit" /\ thread'["route"].then = "idle"
<1> DEFINE r == [Idle EXCEPT !.at = "fetch", !.was = (status = "submitted")]
<1>1. r.at = "fetch" /\ r.job = NoJob /\ r.kind = "auto_submit" /\ r.then = "idle"
  BY DEF Idle
<1>2. thread'["route"] = r /\ thread'["sweeper"] = thread["sweeper"]
  BY DEF Submit, TypeOK, Threads
<1> HIDE DEF r
<1> QED
  BY <1>1, <1>2

-----------------------------------------------------------------------------
(* The steps of a job.                                                       *)

\* A job goes through steps of its own, and what schedule_job is asked for tells who
\* asked.
Works(at, job, kind, then) ==
  /\ job = NoJob => at \notin {"handoff", "check", "insert", "redraft", "ready", "audit",
                               "apply", "errors", "draft", "finish"}
  /\ job = "auto_submit" =>
       at \in {"fetch", "flip", "emit", "derive", "sched", "put", "finish", "raise"}
  /\ job = "analytics_retry" => at \in {"compute", "handoff", "sched", "put", "finish", "raise"}
  /\ job = "mock_tests_retry" => at \in {"check", "insert", "redraft", "finish", "raise"}
  /\ job = "mastery_retry" => at \in {"ready", "audit", "apply", "errors", "draft", "sched",
                                      "put", "finish", "raise"}
  /\ then = "derive" => kind = "mock_tests_retry" /\ job \in {NoJob, "auto_submit"}
  /\ then = "repairSummary" => kind = "mock_tests_retry" /\ job = NoJob
  /\ then = "claim" => kind = "analytics_retry" /\ job = NoJob
  /\ then = "finish" => \/ kind = "analytics_retry" /\ job = "auto_submit"
                        \/ kind = "mastery_retry" /\ job = "analytics_retry"
  /\ then = "raise" => kind = "analytics_retry" /\ job = "mastery_retry"

WorksAt(t) == Works(thread[t].at, thread[t].job, thread[t].kind, thread[t].then)

WorkInv == \A t \in Threads : WorksAt(t)

\* A step of one thread leaves the work of the other as it was.
LEMMA KeepsWork ==
  ASSUME WorkInv, NEW t \in Threads
  PROVE  /\ \A at \in Steps : Turns(t, at) /\ Works(at, thread[t].job, "auto_submit", "idle")
                                => WorkInv'
         /\ \A k \in Kinds, then \in Steps :
              Asks(t, k, then) /\ Works("sched", thread[t].job, k, then) => WorkInv'
         /\ Turns(t, "raise") \/ Parts(t) => WorkInv'
<1>1. ASSUME NEW at, NEW job, NEW kind, NEW then,
             Becomes(t, at, job, kind, then), Works(at, job, kind, then)
      PROVE  WorkInv'
  BY <1>1 DEF WorkInv, WorksAt, Becomes
<1>2. WorksAt(t)
  BY DEF WorkInv
<1>3. /\ Works("raise", thread[t].job, "auto_submit", "idle")
      /\ Works("idle", NoJob, "auto_submit", "idle")
      /\ Works("next", NoJob, "auto_submit", "idle")
  BY <1>2 DEF WorksAt, Works, NoJob
<1>4. \A at \in Steps : Turns(t, at) /\ Works(at, thread[t].job, "auto_submit", "idle") => WorkInv'
  BY <1>1 DEF Turns
<1>5. \A k \in Kinds, then \in Steps :
        Asks(t, k, then) /\ Works("sched", thread[t].job, k, then) => WorkInv'
  BY <1>1 DEF Asks
<1>6. Turns(t, "raise") => WorkInv'
  BY <1>1, <1>3 DEF Turns
<1>7. CASE t = "route"
  BY <1>1, <1>3, <1>4, <1>5, <1>6, <1>7 DEF Parts
<1>8. CASE t # "route"
  BY <1>1, <1>3, <1>4, <1>5, <1>6, <1>8 DEF Parts
<1> QED
  BY <1>7, <1>8

\* What a thread may go on with, by where it is.
LEMMA WorkGoesOn ==
  ASSUME TypeOK, FlowInv, WorkInv, NEW t \in Threads
  PROVE  /\ thread[t].at \in {"fetch", "flip", "emit", "derive"} =>
              /\ \A at \in {"flip", "emit", "derive"} :
                   Works(at, thread[t].job, "auto_submit", "idle")
              /\ t = "route" => \A at \in {"repairTests", "compute"} :
                                  Works(at, thread[t].job, "auto_submit", "idle")
              /\ t = "sweeper" => /\ Works("finish", thread[t].job, "auto_submit", "idle")
                                  /\ Works("sched", thread[t].job, "analytics_retry", "finish")
              /\ Works("sched", thread[t].job, "mock_tests_retry", "derive")
         /\ thread[t].at \in {"compute", "settle", "repairTests", "repairSummary", "claim"}
              /\ t = "route" =>
              /\ \A at \in {"settle", "repairSummary", "claim"} :
                   Works(at, thread[t].job, "auto_submit", "idle")
              /\ Works("sched", thread[t].job, "mock_tests_retry", "repairSummary")
              /\ Works("sched", thread[t].job, "analytics_retry", "claim")
         /\ thread[t].at \in {"compute", "handoff"} /\ t = "sweeper" =>
              /\ Works("handoff", thread[t].job, "auto_submit", "idle")
              /\ Works("sched", thread[t].job, "mastery_retry", "finish")
         /\ thread[t].at \in {"check", "insert", "redraft"} =>
              \A at \in {"insert", "redraft", "finish"} :
                Works(at, thread[t].job, "auto_submit", "idle")
         /\ thread[t].at \in {"ready", "audit", "apply", "errors", "draft"} =>
              /\ \A at \in {"audit", "apply", "errors", "draft", "finish"} :
                   Works(at, thread[t].job, "auto_submit", "idle")
              /\ Works("sched", thread[t].job, "analytics_retry", "raise")
<1>1. CoherentAt(t) /\ WorksAt(t) /\ thread[t].job \in Kinds \cup {NoJob}
  BY DEF FlowInv, WorkInv, TypeOK, Thread
<1>2. ASSUME thread[t].at \in {"fetch", "flip", "emit", "derive"}
      PROVE  thread[t].job = IF t = "route" THEN NoJob ELSE "auto_submit"
  BY <1>1, <1>2 DEF CoherentAt, Coherent, WorksAt, Works, Threads, Kinds
<1>3. ASSUME thread[t].at \in {"compute", "settle", "repairTests", "repairSummary", "claim"},
             t = "route"
      PROVE  thread[t].job = NoJob
  BY <1>1, <1>3 DEF CoherentAt, Coherent, WorksAt, Works, Threads
<1>4. ASSUME thread[t].at \in {"compute", "handoff"}, t = "sweeper"
      PROVE  thread[t].job = "analytics_retry"
  BY <1>1, <1>4 DEF CoherentAt, Coherent, WorksAt, Works, Threads, Kinds
<1>5. ASSUME thread[t].at \in {"check", "insert", "redraft"}
      PROVE  thread[t].job = "mock_tests_retry"
  BY <1>1, <1>5 DEF CoherentAt, Coherent, WorksAt, Works, Threads, Kinds
<1>6. ASSUME thread[t].at \in {"ready", "audit", "apply", "errors", "draft"}
      PROVE  thread[t].job = "mastery_retry"
  BY <1>1, <1>6 DEF CoherentAt, Coherent
<1> QED
  BY <1>2, <1>3, <1>4, <1>5, <1>6 DEF Works, NoJob

\* Every step keeps the jobs to their steps.
LEMMA WorkStep ==
  ASSUME TypeOK, FlowInv, WorkInv, [Next]_vars
  PROVE  WorkInv'
<1>1. ASSUME NEW t \in Threads, Fetch(t)
      PROVE  WorkInv'
  <2>1. thread[t].at = "fetch"
    BY <1>1 DEF Fetch, IsAt
  <2>2. Turns(t, "flip") \/ Parts(t) => WorkInv'
    BY <2>1, KeepsWork, WorkGoesOn, Names
  <2>3. t = "route" /\ Turns(t, "repairTests") => WorkInv'
    BY <2>1, KeepsWork, WorkGoesOn DEF Steps
  <2>4. t = "sweeper" /\ Turns(t, "finish") => WorkInv'
    BY <2>1, KeepsWork, WorkGoesOn, Names
  <2> QED
    BY <1>1, FetchLeads, <2>2, <2>3, <2>4
<1>2. ASSUME NEW t \in Threads, Flip(t)
      PROVE  WorkInv'
  BY <1>2, OtherLeads, KeepsWork, WorkGoesOn, Names DEF Flip, IsAt
<1>3. ASSUME NEW t \in Threads, Emit(t)
      PROVE  WorkInv'
  BY <1>3, EmitLeads, KeepsWork, WorkGoesOn, Names DEF Emit, IsAt
<1>4. ASSUME NEW t \in Threads, Derive(t)
      PROVE  WorkInv'
  BY <1>4, DeriveLeads, KeepsWork, WorkGoesOn, Names DEF Derive, IsAt
<1>5. ASSUME NEW t \in Threads, Compute(t)
      PROVE  WorkInv'
  BY <1>5, ComputeLeads, KeepsWork, WorkGoesOn, Names DEF Compute, IsAt
<1>6. CASE Settle
  BY <1>6, OtherLeads, KeepsWork, WorkGoesOn, Names DEF Settle, IsAt
<1>7. CASE RepairTests
  BY <1>7, RepairTestsLeads, KeepsWork, WorkGoesOn, Names DEF RepairTests, IsAt
<1>8. CASE RepairSummary
  BY <1>8, RepairSummaryLeads, KeepsWork, WorkGoesOn, Names DEF RepairSummary, IsAt
<1>9. ASSUME NEW t \in Threads, ScheduleRead(t)
      PROVE  WorkInv'
  <2>1. WorksAt(t) /\ thread[t].at = "sched"
    BY <1>9 DEF ScheduleRead, IsAt, WorkInv
  <2>2. /\ Works("put", thread[t].job, thread[t].kind, thread[t].then)
        /\ Works("raise", thread[t].job, "auto_submit", "idle")
    BY <2>1 DEF WorksAt, Works, NoJob
  <2> QED
    BY <1>9, <2>2, ScheduleReadKeeps DEF WorkInv, WorksAt, Becomes
<1>10. ASSUME NEW t \in Threads, SchedulePut(t)
       PROVE  WorkInv'
  <2>1. WorksAt(t) /\ CoherentAt(t) /\ thread[t].at = "put"
    BY <1>10 DEF SchedulePut, IsAt, WorkInv, FlowInv
  <2>2. \A at \in {thread[t].then, "raise"} : Works(at, thread[t].job, "auto_submit", "idle")
    <3>1. thread[t].then \in {"derive", "repairSummary", "claim", "finish", "raise"}
      BY <2>1 DEF CoherentAt, Coherent
    <3>2. Works(thread[t].then, thread[t].job, "auto_submit", "idle")
      BY <2>1, <3>1 DEF WorksAt, Works, NoJob
    <3>3. Works("raise", thread[t].job, "auto_submit", "idle")
      BY <2>1 DEF WorksAt, Works, NoJob
    <3> QED
      BY <3>2, <3>3
  <2>3. PICK at \in {thread[t].then, "raise"} :
          Becomes(t, at, thread[t].job, "auto_submit", "idle")
    BY <1>10, SchedulePutKeeps
  <2> QED
    BY <2>2, <2>3 DEF WorkInv, WorksAt, Becomes
<1>11. CASE Claim
  <2>1. CASE Parts("route")
    BY <2>1, KeepsWork, Names
  <2>2. CASE Becomes("route", "ready", "mastery_retry", "auto_submit", "idle")
    BY <2>2, Names DEF WorkInv, WorksAt, Becomes, Works, NoJob
  <2> QED
    BY <1>11, <2>1, <2>2, ClaimLeads
<1>12. ASSUME NEW t \in Threads, Ready(t)
       PROVE  WorkInv'
  BY <1>12, ReadyLeads, KeepsWork, WorkGoesOn, Names DEF Ready, IsAt
<1>13. ASSUME NEW t \in Threads, Audit(t) \/ Apply(t) \/ InsertErrors(t) \/ Draft(t)
       PROVE  WorkInv'
  <2>1. thread[t].at \in {"audit", "apply", "errors", "draft", "redraft"}
    BY <1>13 DEF Audit, Apply, InsertErrors, Draft, IsAt
  <2>2. \/ Turns(t, "raise")
        \/ \E at \in {"apply", "errors", "draft"} : ~Draft(t) /\ Turns(t, at)
        \/ Turns(t, "finish")
    BY <1>13, OtherLeads
  <2>3. thread[t].at = "redraft" => Draft(t)
    BY <1>13 DEF Audit, Apply, InsertErrors, IsAt
  <2> QED
    BY <2>1, <2>2, <2>3, KeepsWork, WorkGoesOn, Names
<1>14. CASE Detect \/ List \/ PassEnds \/ \E k \in Kinds : Take(k)
  <2> DEFINE Swept ==
        /\ thread'["route"] = thread["route"]
        /\ \/ thread'["sweeper"].at \in {"list", "next", "idle"} /\ thread'["sweeper"].job = NoJob
           \/ \E k \in Kinds : thread'["sweeper"].at = Begins(k) /\ thread'["sweeper"].job = k
        /\ thread'["sweeper"].then = "idle"
  <2>1. Swept
    <3>1. CASE Detect
      <4>1. Turns("sweeper", "list") /\ thread["sweeper"].job = NoJob
        BY <3>1, OtherLeads, Names DEF Detect, IsAt, FlowInv, CoherentAt, Coherent
      <4> QED
        BY <4>1, Names DEF Turns, Becomes
    <3>2. CASE List
      <4>1. FlowInv'
        BY <3>2, ListKeeps
      <4> QED
        BY <3>2, <4>1, ListKeeps, Names DEF FlowInv, CoherentAt, Coherent
    <3>3. CASE PassEnds
      BY <3>3, PassEndsKeeps, Resting
    <3>4. ASSUME NEW k \in Kinds, Take(k)
          PROVE  Swept
      <4>1. FlowInv'
        BY <3>4, TakeKeeps
      <4> QED
        BY <3>4, <4>1, TakeKeeps, Names
        DEF Begun, GivenUp, Begins, Kinds, FlowInv, CoherentAt, Coherent
    <3> HIDE DEF Swept
    <3> QED
      BY <1>14, <3>1, <3>2, <3>3, <3>4
  <2> QED
    BY <2>1 DEF WorkInv, WorksAt, Works, Threads, Kinds, Begins, NoJob
<1>15. CASE Handoff
  BY <1>15, HandoffLeads, KeepsWork, WorkGoesOn, Names DEF Handoff, IsAt
<1>16. CASE Check \/ ReEmit
  BY <1>16, OtherLeads, KeepsWork, WorkGoesOn, Names DEF Check, ReEmit, IsAt
<1>17. ASSUME NEW t \in Threads, Finish(t) \/ Handle(t)
       PROVE  WorkInv'
  BY <1>17, OtherLeads, KeepsWork
<1>18. CASE Submit
  BY <1>18, SubmitLeads DEF WorkInv, WorksAt, Works, Threads, NoJob
<1>19. CASE Crash
  BY <1>19, CrashKeeps, Resting DEF WorkInv, WorksAt, Works, NoJob
<1>20. CASE Overdue \/ UNCHANGED vars \/ \E k \in Kinds : DueComes(k)
  BY <1>20 DEF Overdue, DueComes, vars, WorkInv, WorksAt
<1>21. CASE RouteStep
  BY <1>21, <1>1, <1>2, <1>3, <1>4, <1>5, <1>6, <1>7, <1>8, <1>9, <1>10, <1>11, <1>12, <1>13,
     <1>17, Names DEF RouteStep
<1>22. CASE SweeperStep
  BY <1>22, <1>1, <1>2, <1>3, <1>4, <1>5, <1>9, <1>10, <1>12, <1>13, <1>14, <1>15, <1>16, <1>17,
     Names DEF SweeperStep
<1> QED
  BY <1>18, <1>19, <1>20, <1>21, <1>22 DEF Next

-----------------------------------------------------------------------------
(* What a retry keeps until it is done.                                      *)

\* A row that is there and not done.
Open(k) == jobs[k].status \notin {"absent", "done"}

\* What an attempt has is not taken from it.
LEMMA Grows ==
  ASSUME TypeOK, FlowInv, [Next]_vars
  PROVE  /\ tests > 0 => tests' > 0
         /\ analytics = "full" => analytics' = "full"
         /\ drafted => drafted'
         /\ status = "submitted" => status' = "submitted"
<1> DEFINE Grown == /\ tests > 0 => tests' > 0
                    /\ analytics = "full" => analytics' = "full"
                    /\ drafted => drafted'
                    /\ status = "submitted" => status' = "submitted"
<1>1. UNCHANGED <<status, tests, analytics, drafted>> => Grown
  OBVIOUS
<1>2. tests' = Several(tests) => tests' > 0
  BY DEF Several
<1>3. ASSUME NEW t \in Threads
      PROVE  /\ Flip(t) \/ Emit(t) \/ Compute(t) \/ Draft(t) => Grown
             /\ Fetch(t) \/ Derive(t) \/ ScheduleRead(t) \/ SchedulePut(t) => Grown
             /\ Ready(t) \/ Audit(t) \/ Apply(t) \/ InsertErrors(t) => Grown
             /\ Finish(t) \/ Handle(t) => Grown
  <2>1. Flip(t) => Grown
    BY DEF Flip, MayRaise, derivedVars
  <2>2. Emit(t) => Grown
    BY <1>2 DEF Emit, MayRaise, attemptVars
  <2>3. Compute(t) => Grown
    BY DEF Compute, MayRaise, Part, attemptVars
  <2>4. Draft(t) => Grown
    <3>1. Draft(t) => (drafted => drafted')
      BY Zenon DEF Draft, MayRaise
    <3>2. Draft(t) => UNCHANGED <<status, tests, analytics>>
      BY Zenon DEF Draft, attemptVars
    <3> QED
      BY <3>1, <3>2
  <2>5. Fetch(t) \/ Derive(t) \/ ScheduleRead(t) \/ SchedulePut(t) => Grown
    BY <1>1 DEF Fetch, Derive, ScheduleRead, SchedulePut, attemptVars, derivedVars
  <2>6. Ready(t) \/ Audit(t) \/ Apply(t) \/ InsertErrors(t) => Grown
    BY <1>1 DEF Ready, Audit, Apply, InsertErrors, attemptVars, derivedVars
  <2>7. Finish(t) \/ Handle(t) => Grown
    BY <1>1 DEF Finish, Handle, attemptVars, derivedVars
  <2> HIDE DEF Grown
  <2> QED
    BY <2>1, <2>2, <2>3, <2>4, <2>5, <2>6, <2>7
<1>4. Settle \/ RepairTests \/ RepairSummary \/ Claim => Grown
  BY <1>1 DEF Settle, RepairTests, RepairSummary, Claim, attemptVars, derivedVars
<1>5. Detect \/ List \/ PassEnds \/ Handoff \/ Check \/ (\E k \in Kinds : Take(k)) => Grown
  <2>1. Detect \/ List \/ PassEnds \/ Handoff \/ Check => Grown
    BY <1>1 DEF Detect, List, PassEnds, Handoff, Check, attemptVars, derivedVars
  <2>2. ASSUME NEW k \in Kinds, Take(k)
        PROVE  Grown
    <3>1. UNCHANGED <<attemptVars, faults, derivedVars, settled>>
      BY Zenon, <2>2 DEF Take
    <3> QED
      BY <1>1, <3>1 DEF attemptVars, derivedVars
  <2> QED
    BY <2>1, <2>2
<1>6. ReEmit => Grown
  BY <1>2 DEF ReEmit, MayRaise, attemptVars
<1>7. Submit \/ Overdue \/ Crash \/ UNCHANGED vars \/ (\E k \in Kinds : DueComes(k)) => Grown
  BY <1>1 DEF Submit, Overdue, Crash, DueComes, vars, attemptVars, derivedVars
<1>8. RouteStep \/ SweeperStep => Grown
  <2> HIDE DEF Grown
  <2> QED
    BY <1>3, <1>4, <1>5, <1>6, Names DEF RouteStep, SweeperStep
<1> QED
  BY <1>7, <1>8 DEF Next

\* Only the analytics of the route and the end of a job close a row.
LEMMA Closing ==
  ASSUME TypeOK, FlowInv, [Next]_vars, NEW k \in Kinds,
         jobs'[k].status # jobs[k].status, jobs'[k].status \in {"absent", "done"}
  PROVE  \/ k = "analytics_retry" /\ Settle
         \/ \E t \in Threads : Finish(t) /\ thread[t].job = k /\ Parts(t)
<1>1. jobs'[k].status # jobs[k].status /\ jobs'[k].status \in {"absent", "done"}
  OBVIOUS
<1>2. ASSUME NEW j, NEW s \in {"pending", "running", "failed"}, Writes(j, s)
      PROVE  FALSE
  BY <1>1, <1>2 DEF Writes
<1>3. ASSUME NEW t \in Threads, Finish(t)
      PROVE  thread[t].job = k /\ Parts(t)
  <2>1. thread[t].job = k /\ jobs' # jobs
    BY <1>1, <1>3, FinishKeeps DEF Writes
  <2>2. Leaves(t)
    BY <1>3, <2>1 DEF Finish
  <2>3. thread[t].at = "finish"
    BY <1>3 DEF Finish, IsAt
  <2> QED
    BY <2>1, <2>2, <2>3, Outside
<1>4. CASE Settle
  BY <1>1, <1>4, Putting, Names DEF Settle, Writes
<1>5. CASE \/ Claim \/ Detect \/ (\E j \in Kinds : Take(j) \/ DueComes(j))
           \/ \E t \in Threads : SchedulePut(t) \/ Handle(t)
  <2>1. CASE Claim
    BY <1>1, <1>2, <2>1, ClaimKeeps
  <2>2. CASE Detect
    BY <1>1, <1>2, <2>2, Putting, Inserting, Names DEF Detect
  <2>3. ASSUME NEW j \in Kinds, Take(j)
        PROVE  FALSE
    BY <1>1, <2>3, TakeKeeps DEF Begun, GivenUp
  <2>4. ASSUME NEW j \in Kinds, DueComes(j)
        PROVE  FALSE
    BY <1>1, <2>4, DueComesKeeps
  <2>5. ASSUME NEW t \in Threads, SchedulePut(t) \/ Handle(t)
        PROVE  FALSE
    BY <1>1, <1>2, <2>5, SchedulePutKeeps, HandleKeeps
  <2> QED
    BY <1>5, <2>1, <2>2, <2>3, <2>4, <2>5
<1>6. jobs' # jobs
  BY <1>1
<1> QED
  BY <1>3, <1>4, <1>5, <1>6, Names
  DEF Next, vars, RouteStep, SweeperStep, Submit, Fetch, Flip, Emit, Derive, Compute,
      RepairTests, RepairSummary, ScheduleRead, Ready, Audit, Apply, InsertErrors, Draft, List,
      PassEnds, Handoff, Check, ReEmit, Overdue, Crash

\* A retry of the mock_tests row keeps its row until the mock_tests row and its
\* corrections are there; one of the analytics, until they are.
RetryInv ==
  /\ thread["sweeper"].job = "mock_tests_retry" =>
       /\ Open("mock_tests_retry")
       /\ thread["sweeper"].at = "redraft" => tests > 0
       /\ thread["sweeper"].at = "finish" => tests > 0 /\ drafted
  /\ thread["sweeper"].job = "analytics_retry" =>
       /\ Open("analytics_retry") \/ analytics = "full"
       /\ thread["sweeper"].at \in {"handoff", "sched", "put", "finish"} => analytics = "full"
  /\ thread["route"].at = "settle" => analytics = "full"

\* While the sweeper stays in its job, the row of the job stays open.
LEMMA StaysOpen ==
  ASSUME TypeOK, FlowInv, WorkInv, RetryInv, [Next]_vars, NEW k \in Kinds,
         thread["sweeper"].job = k, thread'["sweeper"].job = k,
         k \in {"mock_tests_retry", "analytics_retry"}
  PROVE  /\ k = "mock_tests_retry" => Open(k)'
         /\ k = "analytics_retry" => Open(k)' \/ analytics' = "full"
<1>1. Open(k) \/ (k = "analytics_retry" /\ analytics = "full")
  BY DEF RetryInv
<1>2. CASE analytics = "full" /\ k = "analytics_retry"
  BY <1>2, Grows
<1>3. CASE Open(k) /\ ~Open(k)'
  <2>1. CASE k = "analytics_retry" /\ Settle
    BY <2>1, Grows DEF Settle, IsAt, RetryInv
  <2>2. ASSUME NEW t \in Threads, Finish(t), thread[t].job = k, Parts(t)
        PROVE  FALSE
    <3>1. t = "route" => k = "mastery_retry"
      BY <2>2 DEF FlowInv, CoherentAt, Coherent, Kinds, NoJob
    <3>2. thread'[t].job = NoJob
      BY <2>2 DEF Parts, Becomes
    <3> QED
      BY <2>2, <3>1, <3>2 DEF Threads, Kinds, NoJob
  <2> QED
    BY <1>3, <2>1, <2>2, Closing DEF Open
<1> QED
  BY <1>1, <1>2, <1>3

\* A step of the route, or of neither thread.
LEMMA RetryAside ==
  ASSUME TypeOK, FlowInv, WorkInv, RetryInv, [Next]_vars, thread'["sweeper"] = thread["sweeper"],
         thread'["route"].at = "settle" => thread["route"].at = "settle" \/ analytics' = "full"
  PROVE  RetryInv'
BY StaysOpen, Grows, Names DEF RetryInv

\* A step of the sweeper within its job, or to the end of it.
LEMMA RetryGoesOn ==
  ASSUME TypeOK, FlowInv, WorkInv, RetryInv, [Next]_vars, NEW at,
         Turns("sweeper", at) \/ (at = "next" /\ Parts("sweeper")),
         thread["sweeper"].job = "mock_tests_retry" =>
           /\ at = "redraft" => tests' > 0
           /\ at = "finish" => tests' > 0 /\ drafted',
         thread["sweeper"].job = "analytics_retry"
           /\ at \in {"handoff", "sched", "put", "finish"} => analytics' = "full"
  PROVE  RetryInv'
<1>1. /\ thread'["sweeper"].at = at
      /\ thread'["sweeper"].job \in {thread["sweeper"].job, NoJob}
      /\ thread'["route"] = thread["route"]
  BY Names DEF Turns, Parts, Becomes
<1> QED
  BY <1>1, StaysOpen, Grows, Names DEF RetryInv, NoJob

\* A step of the route leaves the sweeper where it is, and it marks the analytics job
\* done when they are there.
LEMMA RouteAlone ==
  ASSUME TypeOK, FlowInv, RouteStep
  PROVE  /\ thread'["sweeper"] = thread["sweeper"]
         /\ thread'["route"].at = "settle" => analytics' = "full"
<1> DEFINE Alone == /\ thread'["sweeper"] = thread["sweeper"]
                    /\ thread'["route"].at = "settle" => analytics' = "full"
<1>1. ASSUME NEW at, NEW job, NEW kind, NEW then, Becomes("route", at, job, kind, then),
             at # "settle" \/ analytics' = "full"
      PROVE  Alone
  BY <1>1, Names DEF Becomes
<1>2. \A at : Turns("route", at) /\ (at # "settle" \/ analytics' = "full") => Alone
  BY <1>1 DEF Turns
<1>3. (\E k, then : Asks("route", k, then)) \/ Parts("route") => Alone
  BY <1>1 DEF Asks, Parts
<1> HIDE DEF Alone
<1>4. Fetch("route") \/ Flip("route") \/ Emit("route") \/ Derive("route") \/ Compute("route") => Alone
  BY <1>2, <1>3, FetchLeads, OtherLeads, EmitLeads, DeriveLeads, ComputeLeads, Names
<1>5. Settle \/ RepairTests \/ RepairSummary \/ Ready("route") => Alone
  BY <1>2, <1>3, OtherLeads, RepairTestsLeads, RepairSummaryLeads, ReadyLeads, Names
<1>6. ScheduleRead("route") => Alone
  BY <1>1, ScheduleReadKeeps, Names
<1>7. SchedulePut("route") => Alone
  <2>1. thread["route"].then # "settle"
    BY Names DEF FlowInv, CoherentAt, Coherent
  <2> QED
    BY <1>1, <2>1, SchedulePutKeeps, Names
<1>8. Claim => Alone
  BY <1>1, <1>3, ClaimLeads
<1>9. Audit("route") \/ Apply("route") \/ InsertErrors("route") \/ Draft("route") => Alone
  BY <1>2, OtherLeads, Names
<1>10. Finish("route") \/ Handle("route") => Alone
  BY <1>2, <1>3, OtherLeads, Names
<1>11. Alone
  BY <1>4, <1>5, <1>6, <1>7, <1>8, <1>9, <1>10 DEF RouteStep
<1> QED
  BY <1>11 DEF Alone

\* Every step keeps a retry to its promise.
LEMMA RetryStep ==
  ASSUME TypeOK, FlowInv, WorkInv, RetryInv, [Next]_vars
  PROVE  RetryInv'
<1> DEFINE job == thread["sweeper"].job
<1>1. CASE RouteStep
  BY <1>1, RouteAlone, RetryAside
<1>2. CASE Submit
  BY <1>2, SubmitLeads, RetryAside
<1>3. CASE Overdue \/ UNCHANGED vars \/ \E k \in Kinds : DueComes(k)
  <2>1. UNCHANGED thread
    BY <1>3 DEF Overdue, DueComes, vars
  <2> QED
    BY <2>1, RetryAside
<1>4. CASE Crash
  BY <1>4, CrashKeeps, Resting, Names DEF RetryInv, NoJob
<1>5. CASE SweeperStep
  <2>1. WorksAt("sweeper") /\ CoherentAt("sweeper")
    BY Names DEF WorkInv, FlowInv
  <2>2. CASE Fetch("sweeper") \/ Flip("sweeper")
    <3>1. thread["sweeper"].job = "auto_submit"
      BY <2>1, <2>2 DEF Fetch, Flip, IsAt, CoherentAt, Coherent
    <3>2. \E at : Turns("sweeper", at)
      BY <2>2, FetchLeads, OtherLeads, Names
    <3> QED
      BY <3>1, <3>2, RetryGoesOn
  <2>3. CASE Emit("sweeper") \/ Derive("sweeper")
    <3>1. thread["sweeper"].at \in {"emit", "derive"}
      BY <2>3 DEF Emit, Derive, IsAt
    <3>2. thread["sweeper"].job \notin {"mock_tests_retry", "analytics_retry"}
      BY <2>1, <3>1 DEF WorksAt, Works
    <3>3. \/ Turns("sweeper", "derive") \/ Turns("sweeper", "compute")
          \/ \E k, then : Asks("sweeper", k, then)
      BY <2>3, EmitLeads, DeriveLeads, Names
    <3>4. CASE \E k, then : Asks("sweeper", k, then)
      BY <3>2, <3>4, Grows, Names DEF Asks, Becomes, RetryInv
    <3> QED
      BY <3>2, <3>3, <3>4, RetryGoesOn
  <2>4. CASE Compute("sweeper")
    BY <2>4, ComputeLeads, RetryGoesOn, Names
  <2>5. CASE Handoff
    <3>1. Asks("sweeper", "mastery_retry", "finish") /\ thread["sweeper"].at = "handoff"
      BY <2>5, HandoffLeads DEF Handoff, IsAt
    <3>2. thread["sweeper"].job = "analytics_retry" \/ thread["sweeper"].job \notin Kinds
      BY <2>1, <3>1 DEF WorksAt, Works, Kinds
    <3>3. thread["sweeper"].job = "analytics_retry" => analytics' = "full"
      BY <3>1, Grows DEF RetryInv
    <3>4. /\ thread'["sweeper"].job = thread["sweeper"].job
          /\ thread'["route"] = thread["route"]
      BY <3>1, Names DEF Asks, Becomes
    <3> QED
      BY <3>2, <3>3, <3>4, Grows, Names DEF RetryInv, Kinds
  <2>6. CASE ScheduleRead("sweeper")
    <3>1. \/ Becomes("sweeper", "put", thread["sweeper"].job, thread["sweeper"].kind,
                 thread["sweeper"].then)
          \/ Turns("sweeper", "raise")
      BY <2>6, ScheduleReadKeeps, Names DEF Turns
    <3>2. /\ thread["sweeper"].at = "sched"
          /\ thread["sweeper"].job # "mock_tests_retry"
      BY <2>1, <2>6 DEF ScheduleRead, IsAt, WorksAt, Works
    <3>3. thread["sweeper"].job = "analytics_retry" => analytics' = "full"
      BY <3>2, Grows DEF RetryInv
    <3>4. /\ thread'["sweeper"].job = thread["sweeper"].job
          /\ thread'["route"] = thread["route"]
      BY <3>1, Names DEF Turns, Becomes
    <3> QED
      BY <3>2, <3>3, <3>4, Grows DEF RetryInv
  <2>7. CASE SchedulePut("sweeper")
    <3>1. /\ thread["sweeper"].at = "put"
          /\ thread["sweeper"].job # "mock_tests_retry"
      BY <2>1, <2>7 DEF SchedulePut, IsAt, WorksAt, Works
    <3>2. thread["sweeper"].job = "analytics_retry" => analytics' = "full"
      BY <3>1, Grows DEF RetryInv
    <3>3. \E at : Turns("sweeper", at)
      BY <2>7, SchedulePutKeeps, Names DEF Turns
    <3> QED
      BY <3>1, <3>2, <3>3, RetryGoesOn
  <2>8. CASE Ready("sweeper") \/ Audit("sweeper") \/ Apply("sweeper") \/ InsertErrors("sweeper")
    <3>1. thread["sweeper"].job = "mastery_retry"
      BY <2>1, <2>8 DEF Ready, Audit, Apply, InsertErrors, IsAt, CoherentAt, Coherent
    <3>2. (\E at : Turns("sweeper", at)) \/ \E k, then : Asks("sweeper", k, then)
      BY <2>8, ReadyLeads, OtherLeads, Names
    <3>3. CASE \E k, then : Asks("sweeper", k, then)
      BY <3>1, <3>3, Grows, Names DEF Asks, Becomes, RetryInv
    <3> QED
      BY <3>1, <3>2, <3>3, RetryGoesOn
  <2>9. CASE Draft("sweeper")
    <3>1. thread["sweeper"].at \in {"draft", "redraft"}
      BY <2>9 DEF Draft, IsAt
    <3>2. thread["sweeper"].job # "analytics_retry"
      BY <2>1, <3>1 DEF WorksAt, Works
    <3>3. thread["sweeper"].job = "mock_tests_retry" => tests > 0
      BY <2>1, <3>1 DEF WorksAt, Works, RetryInv
    <3>4. Turns("sweeper", "raise") \/ (Turns("sweeper", "finish") /\ (tests > 0 => drafted'))
      <4>1. (drafted' = (drafted \/ tests > 0) /\ GoesTo("sweeper", "finish")) \/ Raises("sweeper")
        BY <2>9 DEF Draft
      <4>2. /\ GoesTo("sweeper", "finish") => Turns("sweeper", "finish")
            /\ Raises("sweeper") => Turns("sweeper", "raise")
        BY <3>1, Outside, Names
      <4> QED
        BY <4>1, <4>2
    <3> QED
      BY <3>2, <3>3, <3>4, Grows, RetryGoesOn
  <2>10. CASE Detect
    BY <2>10, OtherLeads, RetryGoesOn, Names
  <2>11. CASE Check \/ ReEmit
    <3>1. thread["sweeper"].job = "mock_tests_retry"
      BY <2>1, <2>11 DEF Check, ReEmit, IsAt, CoherentAt, Coherent
    <3>2. ReEmit => tests' > 0 \/ Turns("sweeper", "raise")
      <4>1. Several(tests) > 0
        BY DEF Several
      <4>2. ReEmit => tests' = Several(tests) \/ Raises("sweeper")
        BY DEF ReEmit
      <4>3. ReEmit /\ Raises("sweeper") => Turns("sweeper", "raise")
        BY Outside, Names DEF ReEmit, IsAt
      <4> QED
        BY <4>1, <4>2, <4>3
    <3>3. \/ Turns("sweeper", "insert") \/ Turns("sweeper", "raise")
          \/ Turns("sweeper", "redraft") /\ tests' > 0
      BY <2>11, <3>2, OtherLeads, Grows, Names
    <3> QED
      BY <3>1, <3>3, RetryGoesOn
  <2>12. CASE Finish("sweeper") \/ Handle("sweeper")
    BY <2>12, OtherLeads, RetryGoesOn, Names DEF Parts
  <2>13. CASE List
    BY <2>13, ListKeeps, Grows DEF RetryInv, NoJob
  <2>14. CASE PassEnds
    BY <2>14, PassEndsKeeps, Resting, Grows DEF RetryInv, NoJob
  <2>15. ASSUME NEW k \in Kinds, Take(k)
         PROVE  RetryInv'
    BY <2>15, TakeKeeps, Grows DEF Begun, GivenUp, Begins, Kinds, RetryInv, Open, NoJob
  <2> QED
    BY <1>5, <2>2, <2>3, <2>4, <2>5, <2>6, <2>7, <2>8, <2>9, <2>10, <2>11, <2>12, <2>13, <2>14,
       <2>15 DEF SweeperStep
<1> QED
  BY <1>1, <1>2, <1>3, <1>4, <1>5 DEF Next

\* In the first state nobody works.
LEMMA FirstWork == Init => WorkInv /\ RetryInv
<1> SUFFICES ASSUME Init PROVE WorkInv /\ RetryInv
  OBVIOUS
<1>1. \A t \in Threads : thread[t] = Idle
  BY DEF Init
<1> QED
  BY <1>1, Resting, Names DEF WorkInv, WorksAt, Works, RetryInv, NoJob

-----------------------------------------------------------------------------
(* Corrections follow.                                                       *)

\* Nothing but the submission has begun.
Fresh ==
  /\ Untouched("analytics_retry") /\ Untouched("mastery_retry") /\ ~settled
  /\ thread["route"].job = NoJob
  /\ \A t \in Threads : \/ thread[t].at \in {"idle", "list", "next", "fetch", "flip", "emit",
                                             "repairTests", "finish", "raise"}
                        \/ thread[t].kind = "mock_tests_retry"

\* The write-back is done, or its corrections were drafted as far as they could be.
AtEnd(t) == thread[t].at = "finish" /\ thread[t].job = "mastery_retry"

Drafted == MasteryDone \/ \E t \in Threads : AtEnd(t)

\* The mock_tests row or its retry comes before all that follows the submission, and
\* the retry stays until the corrections are there.
FollowInv ==
  /\ tests > 0 \/ Open("mock_tests_retry") \/ Fresh
  /\ Drafted => drafted \/ Open("mock_tests_retry")

\* Without a fault of its own schedule_job leaves an open row.
LEMMA PutOpens ==
  ASSUME TypeOK, FlowInv, "schedule" \notin Faults, NEW t \in Threads, SchedulePut(t)
  PROVE  /\ \A k \in Kinds : k = thread[t].kind => Open(k)'
         /\ thread[t].kind # "mastery_retry" => Returns(t, thread[t].then)
<1>1. ~Fault("schedule")
  BY Counted
<1>2. thread[t].kind # "mastery_retry" => Returns(t, thread[t].then)
  BY <1>1 DEF SchedulePut
<1>3. ASSUME NEW k \in Kinds, k = thread[t].kind
      PROVE  Open(k)'
  <2>1. CASE Put(k, "pending", TRUE)
    BY <2>1, Putting DEF Writes, Open
  <2>2. CASE Insert(k, "pending", TRUE)
    BY <2>2, Inserting DEF Writes, Open
  <2>3. CASE Active(k) /\ UNCHANGED jobs
    BY <2>3 DEF Active, Open
  <2> QED
    BY <1>1, <1>3, <2>1, <2>2, <2>3 DEF SchedulePut
<1> QED
  BY <1>2, <1>3

\* The mock_tests row, or its retry, is there from then on.
LEMMA KeptFromThen ==
  ASSUME TypeOK, FlowInv, RetryInv, [Next]_vars, tests > 0 \/ Open("mock_tests_retry")
  PROVE  /\ tests' > 0 \/ Open("mock_tests_retry")'
         /\ Open("mock_tests_retry") => drafted' \/ Open("mock_tests_retry")'
<1>1. CASE Open("mock_tests_retry") /\ ~Open("mock_tests_retry")'
  <2>1. PICK t \in Threads : Finish(t) /\ thread[t].job = "mock_tests_retry"
    BY <1>1, Closing, Names DEF Open
  <2>2. t = "sweeper" /\ thread[t].at = "finish"
    BY <2>1, Names DEF Finish, IsAt, FlowInv, CoherentAt, Coherent, Threads, NoJob
  <2>3. tests > 0 /\ drafted
    BY <2>1, <2>2 DEF RetryInv
  <2> QED
    BY <2>3, Grows
<1> QED
  BY <1>1, Grows

\* Before the mock_tests row or its retry: a step that leaves nothing else.
LEMMA StaysFresh ==
  ASSUME TypeOK, FlowInv, Fresh, NEW t \in Threads, NEW at, NEW kind, NEW then,
         Becomes(t, at, thread[t].job, kind, then) \/ Becomes(t, at, NoJob, kind, then),
         \/ at \in {"idle", "list", "next", "fetch", "flip", "emit", "repairTests", "finish",
                    "raise"}
         \/ kind = "mock_tests_retry",
         jobs'["analytics_retry"] = jobs["analytics_retry"],
         jobs'["mastery_retry"] = jobs["mastery_retry"], settled' = settled
  PROVE  Fresh'
<1>1. /\ thread'[t].at = at /\ thread'[t].kind = kind
      /\ thread'[t].job \in {thread[t].job, NoJob}
      /\ \A u \in Threads : thread'[u].todo = thread[u].todo
      /\ \A u \in Threads : u # t => thread'[u] = thread[u]
  BY DEF Becomes
<1> QED
  BY <1>1, Names DEF Fresh, Untouched, NoJob

\* The first step of the mock_tests row, or none yet.
LEMMA FreshStep ==
  ASSUME TypeOK, FlowInv, WorkInv, RetryInv, [Next]_vars, "schedule" \notin Faults,
         Fresh, tests = 0, ~Open("mock_tests_retry")
  PROVE  tests' > 0 \/ Open("mock_tests_retry")' \/ Fresh'
<1> DEFINE Led == tests' > 0 \/ Open("mock_tests_retry")' \/ Fresh'
           Still == UNCHANGED <<jobs, settled>>
<1> SUFFICES Led
  OBVIOUS
<1>1. ASSUME NEW t \in Threads, NEW at, Turns(t, at), Still,
             at \in {"idle", "list", "next", "fetch", "flip", "emit", "repairTests", "finish",
                     "raise"}
      PROVE  Fresh'
  BY <1>1, StaysFresh DEF Turns
<1>2. ASSUME NEW t \in Threads, NEW then, Asks(t, "mock_tests_retry", then), Still
      PROVE  Fresh'
  BY <1>2, StaysFresh DEF Asks
<1>3. ASSUME NEW t \in Threads, Parts(t), Still
      PROVE  Fresh'
  <2>1. CASE t = "route"
    BY <1>3, <2>1, StaysFresh DEF Parts
  <2>2. CASE t # "route"
    BY <1>3, <2>2, StaysFresh DEF Parts
  <2> QED
    BY <2>1, <2>2
<1>4. ASSUME NEW t \in Threads
      PROVE  \/ thread[t].at \in {"idle", "list", "next", "fetch", "flip", "emit",
                                  "repairTests", "finish", "raise"}
             \/ thread[t].at \in {"sched", "put"} /\ thread[t].kind = "mock_tests_retry"
  BY DEF Fresh, FlowInv, CoherentAt, Coherent
<1>5. ASSUME NEW t \in Threads
      PROVE  thread[t].job \in {NoJob, "auto_submit"}
  BY DEF Fresh, Untouched, RetryInv, TypeOK, Thread, Kinds, Threads
<1>6. ASSUME NEW t \in Threads
      PROVE  /\ ~Derive(t) /\ ~Compute(t) /\ ~Ready(t) /\ ~Audit(t) /\ ~Apply(t)
             /\ ~InsertErrors(t) /\ ~Draft(t)
             /\ ~Settle /\ ~RepairSummary /\ ~Claim /\ ~Handoff /\ ~Check /\ ~ReEmit
  BY <1>4, Names
  DEF Derive, Compute, Ready, Audit, Apply, InsertErrors, Draft, Settle, RepairSummary, Claim,
      Handoff, Check, ReEmit, IsAt
<1>7. ASSUME NEW t \in Threads, Fetch(t) \/ Flip(t) \/ Emit(t)
      PROVE  Led
  <2>1. Still
    BY <1>7 DEF Fetch, Flip, Emit
  <2>2. CASE Fetch(t)
    BY <2>1, <2>2, <1>1, <1>3, FetchLeads
  <2>3. CASE Flip(t)
    BY <2>1, <2>3, <1>1, OtherLeads
  <2>4. CASE Emit(t)
    BY <2>1, <2>4, <1>2, EmitLeads
  <2> QED
    BY <1>7, <2>2, <2>3, <2>4
<1>8. CASE RepairTests
  <2>1. Still
    BY <1>8 DEF RepairTests
  <2> QED
    BY <1>2, <1>8, <2>1, RepairTestsLeads, Names
<1>9. ASSUME NEW t \in Threads, ScheduleRead(t)
      PROVE  Led
  <2>1. Still /\ thread[t].at = "sched"
    BY <1>9 DEF ScheduleRead, IsAt
  <2>2. thread[t].kind = "mock_tests_retry"
    BY <1>4, <2>1
  <2> QED
    BY <1>9, <2>1, <2>2, ScheduleReadKeeps, StaysFresh
<1>10. ASSUME NEW t \in Threads, SchedulePut(t)
       PROVE  Led
  <2>1. thread[t].kind = "mock_tests_retry"
    BY <1>4, <1>10 DEF SchedulePut, IsAt
  <2> QED
    BY <1>10, <2>1, PutOpens, Names
<1>11. ASSUME NEW t \in Threads, Finish(t)
       PROVE  Led
  <2>1. thread[t].job # "mastery_retry" /\ thread[t].job # "analytics_retry"
    BY <1>5 DEF NoJob
  <2>2. /\ jobs'["analytics_retry"] = jobs["analytics_retry"]
        /\ jobs'["mastery_retry"] = jobs["mastery_retry"]
    BY <1>11, <2>1, FinishKeeps, Names DEF Writes
  <2>3. settled' = settled
    BY <1>11 DEF Finish
  <2>4. \E at \in {"idle", "next", "raise"} :
          \/ Becomes(t, at, thread[t].job, thread[t].kind, thread[t].then)
          \/ Becomes(t, at, NoJob, thread[t].kind, thread[t].then)
    BY <1>11, FinishKeeps
  <2> QED
    BY <2>2, <2>3, <2>4, StaysFresh
<1>12. ASSUME NEW t \in Threads, Handle(t)
       PROVE  Led
  <2>1. thread[t].job # "mastery_retry" /\ thread[t].job # "analytics_retry"
    BY <1>5 DEF NoJob
  <2>2. /\ jobs'["analytics_retry"] = jobs["analytics_retry"]
        /\ jobs'["mastery_retry"] = jobs["mastery_retry"]
    BY <1>12, <2>1, HandleKeeps, Names DEF Writes
  <2>3. settled' = settled
    BY <1>12 DEF Handle
  <2>4. \E at \in {"idle", "next"} :
          Becomes(t, at, NoJob, thread[t].kind, thread[t].then)
    BY <1>12, HandleKeeps
  <2> QED
    BY <2>2, <2>3, <2>4, StaysFresh
<1>13. CASE Detect
  <2>1. Becomes("sweeper", "list", thread["sweeper"].job, thread["sweeper"].kind,
            thread["sweeper"].then)
    BY <1>13, Goes, Names DEF Detect
  <2>2. UNCHANGED jobs \/ Writes("auto_submit", "pending")
    BY <1>13, Putting, Inserting, Names DEF Detect
  <2>3. settled' = settled
    <3>1. "auto_submit" # "mastery_retry"
      OBVIOUS
    <3>2. \A due : Insert("auto_submit", "pending", due) => ~settled'
      BY <3>1, Zenon DEF Insert, Fresh
    <3>3. settled = FALSE /\ (~settled' => settled' = FALSE)
      <4>1. settled \in BOOLEAN /\ settled' \in BOOLEAN
        BY <1>13, DetectKeeps DEF TypeOK
      <4>2. ~settled
        BY DEF Fresh
      <4> QED
        BY <4>1, <4>2
    <3> QED
      <4>1. \/ settled' = settled
            \/ \E due : Insert("auto_submit", "pending", due)
        BY <1>13, Zenon DEF Detect
      <4> QED
        BY <3>2, <3>3, <4>1, Zenon
  <2>4. /\ jobs'["analytics_retry"] = jobs["analytics_retry"]
        /\ jobs'["mastery_retry"] = jobs["mastery_retry"]
    BY <2>2, Names DEF Writes
  <2> QED
    BY <2>1, <2>3, <2>4, StaysFresh, Names
<1>14. CASE List
  <2>1. Still
    BY <1>14 DEF List
  <2>2. ~Active("analytics_retry") /\ ~Active("mastery_retry")
    BY DEF Fresh, Untouched, Active
  <2> QED
    BY <1>14, <2>1, <2>2, ListKeeps, Names DEF Fresh, Untouched, Threads, NoJob
<1>15. CASE PassEnds
  <2>1. Still
    BY <1>15 DEF PassEnds
  <2> QED
    BY <1>15, <2>1, PassEndsKeeps, Resting, Names DEF Fresh, Untouched, Threads, NoJob
<1>16. ASSUME NEW k \in Kinds, Take(k)
       PROVE  Led
  <2>1. /\ k # "analytics_retry" /\ k # "mastery_retry" /\ settled' = settled
        /\ jobs'["analytics_retry"] = jobs["analytics_retry"]
        /\ jobs'["mastery_retry"] = jobs["mastery_retry"]
    <3>1. k \in thread["sweeper"].todo /\ settled' = settled
      BY Zenon, <1>16 DEF Take
    <3>2. k # "analytics_retry" /\ k # "mastery_retry"
      BY <3>1 DEF Fresh, Untouched
    <3> QED
      BY <1>16, <3>1, <3>2, TakeKeeps, Names
  <2>2. CASE k = "mock_tests_retry"
    BY <1>16, <2>2, TakeKeeps DEF Begun, GivenUp, Open
  <2>3. CASE k = "auto_submit"
    BY <1>16, <2>1, <2>3, TakeKeeps
    DEF Begun, GivenUp, Begins, Fresh, Untouched, Threads, NoJob
  <2> QED
    BY <2>1, <2>2, <2>3 DEF Kinds
<1>17. CASE Submit
  <2>1. Still
    BY <1>17 DEF Submit
  <2> QED
    BY <1>17, <2>1, SubmitLeads DEF Fresh, Untouched, Threads
<1>18. CASE Crash
  <2>1. Still
    BY <1>18 DEF Crash
  <2> QED
    BY <1>18, <2>1, CrashKeeps, Resting, Names DEF Fresh, Untouched, NoJob
<1>19. CASE Overdue \/ UNCHANGED vars
  BY <1>19 DEF Overdue, vars, Fresh, Untouched
<1>20. ASSUME NEW k \in Kinds, DueComes(k)
       PROVE  Led
  <2>1. UNCHANGED <<settled, thread>>
    BY <1>20 DEF DueComes
  <2> QED
    BY <1>20, <2>1, DueComesKeeps, Names DEF Fresh, Untouched
<1> HIDE DEF Led
<1>21. CASE RouteStep
  BY <1>21, <1>6, <1>7, <1>8, <1>9, <1>10, <1>11, <1>12, Names DEF RouteStep
<1>22. CASE SweeperStep
  BY <1>22, <1>6, <1>7, <1>9, <1>10, <1>11, <1>12, <1>13, <1>14, <1>15, <1>16, Names
  DEF SweeperStep
<1> QED
  BY <1>17, <1>18, <1>19, <1>20, <1>21, <1>22 DEF Next

\* A second row of the write-back comes after a first that is done.
LEMMA SettledComes ==
  ASSUME [Next]_vars, settled', ~settled
  PROVE  jobs["mastery_retry"].status = "done"
<1> DEFINE done == jobs["mastery_retry"].status = "done"
<1>1. ASSUME NEW k, NEW s, NEW due, Insert(k, s, due)
      PROVE  done
  BY <1>1, Zenon DEF Insert
<1>2. UNCHANGED settled => done
  BY Zenon
<1>3. Detect \/ Claim => done
  BY <1>1, <1>2, Zenon DEF Detect, Claim
<1>4. ASSUME NEW t \in Threads, SchedulePut(t)
      PROVE  done
  BY <1>1, <1>2, <1>4, Zenon DEF SchedulePut
<1>5. (\E k \in Kinds : Take(k) \/ DueComes(k)) => UNCHANGED settled
  BY Zenon DEF Take, DueComes
<1>6. ASSUME NEW t \in Threads
      PROVE  \/ Fetch(t) \/ Flip(t) \/ Emit(t) \/ Derive(t) \/ Compute(t) \/ ScheduleRead(t)
             \/ Ready(t) \/ Audit(t) \/ Apply(t) \/ InsertErrors(t) \/ Draft(t) \/ Finish(t)
             \/ Handle(t)
             => UNCHANGED settled
  BY Zenon DEF Fetch, Flip, Emit, Derive, Compute, ScheduleRead, Ready, Audit, Apply, InsertErrors,
     Draft, Finish, Handle
<1>7. Settle \/ RepairTests \/ RepairSummary \/ List \/ PassEnds \/ Handoff \/ Check \/ ReEmit
      => UNCHANGED settled
  BY Zenon DEF Settle, RepairTests, RepairSummary, List, PassEnds, Handoff, Check, ReEmit
<1>8. Submit \/ Overdue \/ Crash \/ UNCHANGED vars => UNCHANGED settled
  BY DEF Submit, Overdue, Crash, vars
<1> HIDE DEF done
<1>9. RouteStep \/ SweeperStep => done
  BY <1>2, <1>3, <1>4, <1>5, <1>6, <1>7, Names, Zenon DEF RouteStep, SweeperStep
<1> QED
  BY <1>2, <1>5, <1>8, <1>9 DEF Next, done

\* Only the correction tasks lead to the end of a write-back.
LEMMA EndComes ==
  ASSUME TypeOK, FlowInv, WorkInv, [Next]_vars, NEW t \in Threads, AtEnd(t)', ~AtEnd(t)
  PROVE  Draft(t)
<1> SUFFICES ASSUME ~Draft(t)
             PROVE  FALSE
  OBVIOUS
<1>1. thread'[t] # thread[t]
  BY DEF AtEnd
<1>2. ASSUME NEW u \in Threads, NEW at, NEW job, NEW kind, NEW then,
             Becomes(u, at, job, kind, then)
      PROVE  u = t /\ at = "finish" /\ job = "mastery_retry"
  BY <1>1, <1>2 DEF Becomes, AtEnd
<1>3. /\ \A u \in Threads : \A at : Turns(u, at) =>
          u = t /\ at = "finish" /\ thread[t].job = "mastery_retry"
      /\ \A u \in Threads : \A k, then : ~Asks(u, k, then)
      /\ \A u \in Threads : ~Parts(u)
  <2>1. \A u \in Threads : \A at : Turns(u, at) =>
          u = t /\ at = "finish" /\ thread[t].job = "mastery_retry"
    BY <1>2 DEF Turns
  <2>2. \A u \in Threads : \A k, then : ~Asks(u, k, then)
    BY <1>2 DEF Asks
  <2>3. ASSUME NEW u \in Threads, Parts(u)
        PROVE  FALSE
    <3>1. CASE u = "route"
      BY <1>2, <2>3, <3>1 DEF Parts, NoJob
    <3>2. CASE u # "route"
      BY <1>2, <2>3, <3>2 DEF Parts, NoJob
    <3> QED
      BY <3>1, <3>2
  <2> QED
    BY <2>1, <2>2, <2>3
<1>4. ASSUME NEW u \in Threads, Fetch(u)
      PROVE  FALSE
  <2>1. u = "sweeper" => thread[u].job = "auto_submit"
    BY <1>4 DEF Fetch, IsAt, FlowInv, CoherentAt, Coherent
  <2> QED
    BY <1>3, <1>4, <2>1, FetchLeads
<1>5. ASSUME NEW u \in Threads
      PROVE  ~Flip(u) /\ ~Emit(u) /\ ~Derive(u) /\ ~Compute(u)
  BY <1>3, OtherLeads, EmitLeads, DeriveLeads, ComputeLeads
<1>6. ~Settle /\ ~RepairTests /\ ~RepairSummary /\ ~Claim
  BY <1>2, <1>3, OtherLeads, RepairTestsLeads, RepairSummaryLeads, ClaimLeads, Names
<1>7. ASSUME NEW u \in Threads
      PROVE  ~ScheduleRead(u)
  BY <1>2, ScheduleReadKeeps
<1>8. ASSUME NEW u \in Threads, SchedulePut(u)
      PROVE  FALSE
  <2>1. thread[u].then = "finish" /\ thread[u].job = "mastery_retry"
    BY <1>2, <1>8, SchedulePutKeeps
  <2> QED
    BY <2>1 DEF WorkInv, WorksAt, Works
<1>9. ASSUME NEW u \in Threads
      PROVE  ~Ready(u) /\ ~Audit(u) /\ ~Apply(u) /\ ~InsertErrors(u) /\ ~Draft(u)
  BY <1>3, ReadyLeads, OtherLeads
<1>10. ASSUME NEW u \in Threads
       PROVE  ~Finish(u) /\ ~Handle(u)
  BY <1>3, OtherLeads
<1>11. ~Detect /\ ~Handoff /\ ~Check /\ ~ReEmit
  BY <1>3, OtherLeads, HandoffLeads, Names
<1>12. ~List /\ ~PassEnds
  BY <1>1, ListKeeps, PassEndsKeeps, Resting DEF AtEnd, Threads
<1>13. ASSUME NEW k \in Kinds, Take(k)
       PROVE  FALSE
  BY <1>1, <1>13, TakeKeeps DEF Begun, GivenUp, Begins, AtEnd, Threads, Kinds
<1>14. ~Submit /\ ~Crash
  BY <1>1, SubmitLeads, CrashKeeps, Resting DEF AtEnd, Threads
<1>15. ~Overdue /\ ~(UNCHANGED vars) /\ \A k \in Kinds : ~DueComes(k)
  BY <1>1 DEF Overdue, DueComes, vars
<1> QED
  BY <1>4, <1>5, <1>6, <1>7, <1>8, <1>9, <1>10, <1>11, <1>12, <1>13, <1>14, <1>15, Names
  DEF Next, RouteStep, SweeperStep

\* Every step keeps the corrections to the mock_tests row or its retry.
LEMMA FollowStep ==
  ASSUME TypeOK, FlowInv, WorkInv, RetryInv, FollowInv, [Next]_vars, "schedule" \notin Faults
  PROVE  FollowInv'
<1>1. tests' > 0 \/ Open("mock_tests_retry")' \/ Fresh'
  <2>1. tests > 0 \/ tests = 0
    BY DEF TypeOK
  <2> QED
    BY <2>1, FreshStep, KeptFromThen DEF FollowInv
<1>2. ASSUME Drafted
      PROVE  drafted' \/ Open("mock_tests_retry")'
  BY <1>2, Grows, KeptFromThen DEF FollowInv
<1>3. ASSUME NEW t \in Threads, Draft(t)
      PROVE  drafted' \/ Open("mock_tests_retry")' \/ ~AtEnd(t)'
  <2>1. thread[t].at \in {"draft", "redraft"}
    BY <1>3 DEF Draft, IsAt
  <2>2. tests > 0 \/ Open("mock_tests_retry")
    BY <2>1 DEF FollowInv, Fresh, FlowInv, CoherentAt, Coherent
  <2>3. CASE Open("mock_tests_retry")
    BY <2>3, KeptFromThen
  <2>4. CASE tests > 0
    <3>1. Raises(t) => ~AtEnd(t)'
      BY Raising DEF Becomes, AtEnd
    <3>2. drafted' = (drafted \/ tests > 0) \/ Raises(t)
      BY <1>3, Zenon DEF Draft
    <3> QED
      BY <2>4, <3>1, <3>2, Zenon
  <2> QED
    BY <2>2, <2>3, <2>4
<1>4. ASSUME Drafted', ~Drafted
      PROVE  \E t \in Threads : Draft(t) /\ AtEnd(t)'
  <2>1. ~settled'
    BY <1>4, SettledComes, Zenon DEF Drafted, MasteryDone
  <2>2. jobs'["mastery_retry"].status # "done"
    <3> SUFFICES ASSUME jobs'["mastery_retry"].status = "done"
                 PROVE  FALSE
      OBVIOUS
    <3>1. PICK t \in Threads : Finish(t) /\ thread[t].job = "mastery_retry"
      BY <1>4, Closing, Names DEF Drafted, MasteryDone
    <3> QED
      BY <1>4, <3>1 DEF Finish, IsAt, Drafted, AtEnd
  <2>3. PICK t \in Threads : AtEnd(t)'
    BY <1>4, <2>1, <2>2, Zenon DEF Drafted, MasteryDone
  <2> QED
    BY <1>4, <2>3, EndComes DEF Drafted
<1>5. Drafted' => drafted' \/ Open("mock_tests_retry")'
  BY <1>2, <1>3, <1>4
<1> QED
  BY <1>1, <1>5 DEF FollowInv

\* The corrections of an attempt whose mock_tests row came late are drafted too, or
\* the retry that drafts them is there, as long as schedule_job's own writes do not
\* fail: _draft_correction_tasks may find no mock_tests row and defer them, and
\* _retry_emit_mock_tests_row drafts what it finds missing.
THEOREM CorrectionsFollowHolds ==
  ASSUME "schedule" \notin Faults
  PROVE  Spec => []CorrectionsFollow
<1> DEFINE IInv == TypeOK /\ FlowInv /\ WorkInv /\ RetryInv /\ FollowInv
<1>1. Init => IInv
  <2> SUFFICES ASSUME Init PROVE IInv
    OBVIOUS
  <2>1. TypeOK /\ FlowInv
    BY FirstState
  <2>2. WorkInv /\ RetryInv
    BY FirstWork
  <2>3. (\A t \in Threads : thread[t] = Idle) /\ settled = FALSE
    BY DEF Init
  <2>4. Fresh
    BY <2>3, Resting, Names DEF Init, Fresh, Untouched, NoJob
  <2>5. ~Drafted
    BY <2>3, Resting, Names DEF Init, Drafted, AtEnd, MasteryDone
  <2> QED
    BY <2>1, <2>2, <2>4, <2>5 DEF FollowInv
<1>2. IInv /\ [Next]_vars => IInv'
  BY FlowStep, WorkStep, RetryStep, FollowStep
<1>3. IInv => CorrectionsFollow
  <2>1. Open("mock_tests_retry") =>
          Active("mock_tests_retry") \/ jobs["mock_tests_retry"].status = "failed" \/ ~TypeOK
    BY Names DEF Open, Active, TypeOK, Row
  <2> QED
    BY <2>1 DEF FollowInv, Drafted, CorrectionsFollow
<1> QED
  BY <1>1, <1>2, <1>3, PTL DEF Spec

-----------------------------------------------------------------------------
(* Nothing is forgotten.                                                     *)

\* Thread t will insert the mock_tests row or ask for its retry.
OwesTests(t) == thread[t].at = "emit" \/ thread[t].kind = "mock_tests_retry"

\* Thread t will derive the analytics or ask for their retry.
OwesAnalytics(t) ==
  \/ thread[t].at \in {"emit", "derive", "compute"}
  \/ thread[t].kind = "analytics_retry" \/ thread[t].then = "derive"

\* What a submitted attempt lacks is there, has an open retry, or is on its way.
ForgottenInv ==
  status = "submitted" =>
    /\ tests > 0 \/ Open("mock_tests_retry") \/ \E t \in Threads : OwesTests(t)
    /\ analytics = "full" \/ Open("analytics_retry") \/ \E t \in Threads : OwesAnalytics(t)

\* A step of the sweeper leaves the route where it is.
LEMMA SweeperAlone ==
  ASSUME TypeOK, FlowInv, SweeperStep
  PROVE  thread'["route"] = thread["route"]
<1> DEFINE Alone == thread'["route"] = thread["route"]
<1>1. ASSUME NEW at, NEW job, NEW kind, NEW then, Becomes("sweeper", at, job, kind, then)
      PROVE  Alone
  BY <1>1, Names DEF Becomes
<1>2. /\ (\E at : Turns("sweeper", at)) => Alone
      /\ (\E k, then : Asks("sweeper", k, then)) => Alone
      /\ Parts("sweeper") => Alone
  BY <1>1 DEF Turns, Asks, Parts
<1> HIDE DEF Alone
<1>3. Fetch("sweeper") \/ Flip("sweeper") \/ Emit("sweeper") \/ Derive("sweeper")
      \/ Compute("sweeper") => Alone
  BY <1>2, FetchLeads, OtherLeads, EmitLeads, DeriveLeads, ComputeLeads, Names
<1>4. Handoff \/ Ready("sweeper") => Alone
  BY <1>2, HandoffLeads, ReadyLeads, Names
<1>5. ScheduleRead("sweeper") \/ SchedulePut("sweeper") => Alone
  BY <1>1, ScheduleReadKeeps, SchedulePutKeeps, Names
<1>6. Audit("sweeper") \/ Apply("sweeper") \/ InsertErrors("sweeper") \/ Draft("sweeper")
      \/ Detect \/ Check \/ ReEmit => Alone
  BY <1>2, OtherLeads, Names
<1>7. Finish("sweeper") \/ Handle("sweeper") => Alone
  BY <1>2, OtherLeads, Names
<1>8. List \/ PassEnds \/ (\E k \in Kinds : Take(k)) => Alone
  BY ListKeeps, PassEndsKeeps, TakeKeeps DEF Alone
<1>9. Alone
  BY <1>3, <1>4, <1>5, <1>6, <1>7, <1>8 DEF SweeperStep
<1> QED
  BY <1>9 DEF Alone

\* A thread that moves on its way takes the step it is at.
LEMMA OnItsWay ==
  ASSUME TypeOK, FlowInv, [Next]_vars, "crash" \notin Faults,
         NEW t \in Threads, thread'[t] # thread[t]
  PROVE  /\ thread[t].at = "emit" => Emit(t)
         /\ thread[t].at = "derive" => Derive(t)
         /\ thread[t].at = "compute" => Compute(t)
         /\ thread[t].at = "sched" => ScheduleRead(t)
         /\ thread[t].at = "put" => SchedulePut(t)
<1>1. CASE RouteStep
  <2>1. t = "route"
    BY <1>1, RouteAlone DEF Threads
  <2> QED
    BY <1>1, <2>1
    DEF RouteStep, Fetch, Flip, Emit, Derive, Compute, Settle, RepairTests, RepairSummary,
        ScheduleRead, SchedulePut, Claim, Ready, Audit, Apply, InsertErrors, Draft, Finish,
        Handle, IsAt
<1>2. CASE SweeperStep
  <2>1. t = "sweeper"
    BY <1>2, SweeperAlone DEF Threads
  <2>2. ASSUME NEW k \in Kinds, Take(k)
        PROVE  thread["sweeper"].at = "next"
    BY Zenon, <2>2 DEF Take, IsAt
  <2> QED
    BY <1>2, <2>1, <2>2
    DEF SweeperStep, Detect, List, PassEnds, Fetch, Flip, Emit, Derive, Compute, Handoff, Check,
        ReEmit, ScheduleRead, SchedulePut, Ready, Audit, Apply, InsertErrors, Draft, Finish,
        Handle, IsAt
<1>3. CASE Submit
  <2>1. t = "route" /\ thread["route"].at = "idle"
    BY <1>3, SubmitLeads DEF Submit, IsAt, Threads
  <2> QED
    BY <2>1
<1>4. ~Crash
  BY Counted DEF Crash
<1>5. Overdue \/ UNCHANGED vars \/ (\E k \in Kinds : DueComes(k)) => thread' = thread
  BY DEF Overdue, DueComes, vars
<1> QED
  BY <1>1, <1>2, <1>3, <1>4, <1>5 DEF Next

\* The mock_tests row, on its way.
LEMMA TestsGoOn ==
  ASSUME TypeOK, FlowInv, WorkInv, [Next]_vars, Faults \subseteq {"call", "read"},
         NEW t \in Threads, OwesTests(t)
  PROVE  tests' > 0 \/ Open("mock_tests_retry")' \/ OwesTests(t)'
<1>1. CASE thread'[t] = thread[t]
  BY <1>1 DEF OwesTests
<1>2. CASE Emit(t)
  BY <1>2, EmitLeads DEF Asks, Becomes, OwesTests
<1>3. CASE ScheduleRead(t) /\ thread[t].kind = "mock_tests_retry"
  <2>1. \/ GoesTo(t, "put")
        \/ thread' = [thread EXCEPT ![t].at = "put", ![t].found = Active(thread[t].kind)]
    BY <1>3 DEF ScheduleRead
  <2>2. thread'[t].kind = thread[t].kind
    BY <2>1 DEF GoesTo, TypeOK, Thread
  <2> QED
    BY <1>3, <2>2 DEF OwesTests
<1>4. CASE SchedulePut(t) /\ thread[t].kind = "mock_tests_retry"
  BY <1>4, PutOpens, Names
<1>5. \/ thread[t].at = "emit"
      \/ thread[t].at \in {"sched", "put"} /\ thread[t].kind = "mock_tests_retry"
  BY DEF OwesTests, FlowInv, CoherentAt, Coherent
<1> QED
  BY <1>1, <1>2, <1>3, <1>4, <1>5, OnItsWay

\* The analytics, on their way.
LEMMA AnalyticsGoOn ==
  ASSUME TypeOK, FlowInv, WorkInv, RetryInv, [Next]_vars, Faults \subseteq {"call", "read"},
         NEW t \in Threads, OwesAnalytics(t)
  PROVE  \/ analytics' = "full" \/ Open("analytics_retry")' \/ OwesAnalytics(t)'
         \/ analytics = "full" \/ Open("analytics_retry")
<1>1. CASE thread'[t] = thread[t]
  BY <1>1 DEF OwesAnalytics
<1>2. CASE Emit(t)
  BY <1>2, EmitLeads DEF Turns, Asks, Becomes, OwesAnalytics
<1>3. CASE Derive(t)
  BY <1>3, DeriveLeads DEF Turns, Asks, Becomes, OwesAnalytics
<1>4. CASE Compute(t)
  <2>1. CASE t = "route"
    BY <1>4, <2>1, ComputeLeads DEF Asks, Becomes, OwesAnalytics
  <2>2. CASE t = "sweeper"
    <3>1. thread[t].at = "compute"
      BY <1>4 DEF Compute, IsAt
    <3>2. thread[t].job = "analytics_retry"
      BY <2>2, <3>1 DEF WorkInv, WorksAt, Works, FlowInv, CoherentAt, Coherent, TypeOK, Thread,
                        Kinds
    <3> QED
      BY <2>2, <3>2 DEF RetryInv
  <2> QED
    BY <2>1, <2>2 DEF Threads
<1>5. CASE ScheduleRead(t)
           /\ (thread[t].kind = "analytics_retry" \/ thread[t].then = "derive")
  <2>1. thread[t].kind # "mastery_retry"
    BY <1>5 DEF WorkInv, WorksAt, Works
  <2>2. \/ GoesTo(t, "put")
        \/ thread' = [thread EXCEPT ![t].at = "put", ![t].found = Active(thread[t].kind)]
    BY <1>5, <2>1 DEF ScheduleRead
  <2>3. thread'[t].kind = thread[t].kind /\ thread'[t].then = thread[t].then
    BY <2>2 DEF GoesTo, TypeOK, Thread
  <2> QED
    BY <1>5, <2>3 DEF OwesAnalytics
<1>6. CASE SchedulePut(t)
           /\ (thread[t].kind = "analytics_retry" \/ thread[t].then = "derive")
  <2>1. CASE thread[t].kind = "analytics_retry"
    BY <1>6, <2>1, PutOpens, Names
  <2>2. CASE thread[t].then = "derive"
    <3>1. thread[t].kind # "mastery_retry"
      BY <2>2 DEF WorkInv, WorksAt, Works
    <3>2. Returns(t, "derive")
      BY <1>6, <2>2, <3>1, PutOpens
    <3> QED
      BY <3>2, Returning, Names DEF Becomes, OwesAnalytics
  <2> QED
    BY <1>6, <2>1, <2>2
<1>7. \/ thread[t].at \in {"emit", "derive", "compute"}
      \/ /\ thread[t].at \in {"sched", "put"}
         /\ thread[t].kind = "analytics_retry" \/ thread[t].then = "derive"
  BY DEF OwesAnalytics, FlowInv, CoherentAt, Coherent
<1> QED
  BY <1>1, <1>2, <1>3, <1>4, <1>5, <1>6, <1>7, OnItsWay

\* The submission itself is the first step on the way.
LEMMA FlippedOwes ==
  ASSUME TypeOK, FlowInv, [Next]_vars, Faults \subseteq {"call", "read"},
         status # "submitted", status' = "submitted"
  PROVE  \E t \in Threads : OwesTests(t)' /\ OwesAnalytics(t)'
<1>1. PICK t \in Threads : Flip(t)
  <2>1. status' # status
    OBVIOUS
  <2>2. \A k \in Kinds : ~Take(k)
    BY <2>1, Zenon DEF Take, attemptVars
  <2>3. ASSUME NEW t \in Threads
        PROVE  /\ ~Fetch(t) /\ ~Emit(t) /\ ~Derive(t) /\ ~Compute(t) /\ ~ScheduleRead(t)
               /\ ~SchedulePut(t) /\ ~Ready(t) /\ ~Audit(t) /\ ~Apply(t) /\ ~InsertErrors(t)
               /\ ~Draft(t) /\ ~Finish(t) /\ ~Handle(t)
    BY <2>1, Zenon
    DEF Fetch, Emit, Derive, Compute, ScheduleRead, SchedulePut, Ready, Audit, Apply,
        InsertErrors, Draft, Finish, Handle, attemptVars
  <2>4. /\ ~Settle /\ ~RepairTests /\ ~RepairSummary /\ ~Claim /\ ~Detect /\ ~List /\ ~PassEnds
        /\ ~Handoff /\ ~Check /\ ~ReEmit
    BY <2>1, Zenon
    DEF Settle, RepairTests, RepairSummary, Claim, Detect, List, PassEnds, Handoff, Check, ReEmit,
        attemptVars
  <2>5. ~Submit /\ ~Overdue /\ ~Crash /\ ~(UNCHANGED vars) /\ \A k \in Kinds : ~DueComes(k)
    BY <2>1, Zenon DEF Submit, Overdue, Crash, DueComes, vars, attemptVars
  <2> QED
    BY <2>2, <2>3, <2>4, <2>5, Names DEF Next, RouteStep, SweeperStep
<1>2. GoesTo(t, "emit")
  BY <1>1, Counted DEF Flip, MayRaise
<1>3. thread'[t].at = "emit"
  BY <1>2, Goes, Names DEF Becomes
<1> QED
  BY <1>3 DEF OwesTests, OwesAnalytics

\* Every step forgets nothing.
LEMMA ForgottenStep ==
  ASSUME TypeOK, FlowInv, WorkInv, RetryInv, ForgottenInv, [Next]_vars,
         Faults \subseteq {"call", "read"}
  PROVE  ForgottenInv'
<1> SUFFICES ASSUME status' = "submitted"
             PROVE  /\ tests' > 0 \/ Open("mock_tests_retry")' \/ \E t \in Threads : OwesTests(t)'
                    /\ \/ analytics' = "full" \/ Open("analytics_retry")'
                       \/ \E t \in Threads : OwesAnalytics(t)'
  BY DEF ForgottenInv
<1>1. CASE status # "submitted"
  BY <1>1, FlippedOwes
<1>2. CASE status = "submitted"
  <2>1. tests > 0 \/ Open("mock_tests_retry") => tests' > 0 \/ Open("mock_tests_retry")'
    BY KeptFromThen
  <2>2. analytics = "full" \/ Open("analytics_retry")
          => analytics' = "full" \/ Open("analytics_retry")'
    <3>1. CASE analytics = "full"
      BY <3>1, Grows
    <3>2. CASE Open("analytics_retry") /\ ~Open("analytics_retry")'
      <4>1. \/ Settle
            \/ \E t \in Threads : Finish(t) /\ thread[t].job = "analytics_retry"
        BY <3>2, Closing, Names DEF Open
      <4>2. CASE Settle
        BY <4>2, Grows DEF Settle, IsAt, RetryInv
      <4>3. ASSUME NEW t \in Threads, Finish(t), thread[t].job = "analytics_retry"
            PROVE  analytics = "full"
        <5>1. t = "sweeper" /\ thread[t].at = "finish"
          BY <4>3 DEF Finish, IsAt, FlowInv, CoherentAt, Coherent, Threads, NoJob
        <5> QED
          BY <4>3, <5>1 DEF RetryInv
      <4> QED
        BY <4>1, <4>2, <4>3, Grows
    <3> QED
      BY <3>1, <3>2
  <2> QED
    BY <1>2, <2>1, <2>2, TestsGoOn, AnalyticsGoOn DEF ForgottenInv
<1> QED
  BY <1>1, <1>2

\* A submitted attempt has its mock_tests row and its analytics, or somebody owes
\* them, as long as the calls that fail had no effect, schedule_job's own writes do
\* not fail and the process does not die: then _emit_mock_tests_row, schedule_job,
\* _repair_submitted_side_effects and the sweeper leave no gap between them.
THEOREM NothingForgottenHolds ==
  ASSUME Faults \subseteq {"call", "read"}
  PROVE  Spec => []NothingForgotten
<1> DEFINE IInv == TypeOK /\ FlowInv /\ WorkInv /\ RetryInv /\ ForgottenInv
<1>1. Init => IInv
  BY FirstState, FirstWork DEF Init, ForgottenInv
<1>2. IInv /\ [Next]_vars => IInv'
  BY FlowStep, WorkStep, RetryStep, ForgottenStep
<1>3. IInv => NothingForgotten
  <2> SUFFICES ASSUME FlowInv, WorkInv, ForgottenInv, status = "submitted"
               PROVE  /\ tests > 0 \/ Owed("mock_tests_retry")
                      /\ analytics = "full" \/ Owed("analytics_retry")
    BY DEF NothingForgotten
  <2>1. ASSUME NEW t \in Threads, OwesTests(t)
        PROVE  Owed("mock_tests_retry")
    BY <2>1 DEF OwesTests, Owed, FlowInv, CoherentAt, Coherent
  <2>2. ASSUME NEW t \in Threads, OwesAnalytics(t)
        PROVE  Owed("analytics_retry")
    BY <2>2 DEF OwesAnalytics, Owed, FlowInv, CoherentAt, Coherent
  <2>3. \A k \in Kinds : Open(k) => Owed(k)
    BY DEF Open, Owed
  <2> QED
    BY <2>1, <2>2, <2>3, Names DEF ForgottenInv
<1> QED
  BY <1>1, <1>2, <1>3, PTL DEF Spec
=============================================================================
