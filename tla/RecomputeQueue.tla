--------------------------- MODULE RecomputeQueue ---------------------------
(***************************************************************************)
(* The eligibility recompute queue, seen for one user.  A change of the    *)
(* user's profile, or of a recruitment, is written first and announced by  *)
(* a second call that enqueues a row (migration 041).  Scheduled passes of *)
(* recompute_worker.py claim rows (migration 010), run the engine for the  *)
(* whole user, replace his eligibility_results and settle the row.  The    *)
(* promotion of a recruitment inserts rows of its own, by a trigger        *)
(* (migration 007) and by a fan-out (scraping/runner.py); an administrator *)
(* may reset a failed row (admin_eligibility.py); the API runs the engine  *)
(* directly as well (api/eligibility.py).                                  *)
(*                                                                         *)
(* The data are abstracted to a version number that every change raises;   *)
(* eligibility_results are abstracted to the version they were computed    *)
(* from, which is what the profile and criteria hashes identify.  An       *)
(* action is one database call.                                            *)
(***************************************************************************)
EXTENDS Naturals, FiniteSets

CONSTANTS
    RowIds,         \* ids of queue rows, never used twice
    Passes,         \* passes of the worker that may overlap (run_job_now)
    DirectRuns,     \* engine runs started by POST /eligibility/recompute
    Clients,        \* requests that change data, promote, publish or retry
    Recruitments,   \* recruitments that may be promoted
    MaxAttempts,    \* the 5 of recompute_worker.py and of the claim
    MaxChanges,     \* bound on changes of the data
    Faults,         \* the faults that may happen, a subset of FaultKinds
    AdminMayRetry,  \* whether an administrator resets failed rows
    NoRow           \* no queue row

\* A call that raises without effect (a read whose reply is lost is one), a
\* write that raises after its effect, the same of the claim, the call that
\* records a failure raising itself, the save of the results raising, and
\* the death of a process.
FaultKinds == {"call", "reply", "claim", "finalise", "save", "crash"}

\* What ends a request between two of its calls.
RequestFaults == {"call", "reply", "crash"} \intersect Faults

ASSUME MaxAttemptsAssumption == MaxAttempts \in Nat \ {0}
ASSUME MaxChangesAssumption == MaxChanges \in Nat
ASSUME FaultsAssumption == Faults \subseteq FaultKinds
ASSUME RetryAssumption == AdminMayRetry \in BOOLEAN
ASSUME NoRowAssumption == NoRow \notin RowIds
ASSUME GlobalAssumption == "global" \notin Recruitments

VARIABLES
    version,   \* number of changes of the user's profile or recruitments
    shown,     \* the version his eligibility_results were computed from
    rows,      \* eligibility_recompute_queue
    run,       \* what each engine run is doing
    client,    \* what each request is doing
    promoted,  \* recruitments that exist
    acked      \* history: the newest version whose announcement returned

vars == <<version, shown, rows, run, client, promoted, acked>>

-----------------------------------------------------------------------------
(* Types and helpers. *)

Engines == Passes \union DirectRuns
Scopes == {"global"} \union Recruitments
Versions == 0..MaxChanges

\* "absent" and "deleted" mark ids before their insert and after their
\* delete; "completed", "failed" and the three active ones are in the table.
Statuses == {"absent", "pending", "queued", "processing", "completed",
             "failed", "deleted"}

\* recruitment_id (null is "global"), status, attempt_count, whether
\* next_attempt_at has passed, and the version current when the row was
\* last put in the queue (history).
Row == [scope : Scopes, status : Statuses, attempts : 0..MaxAttempts,
        due : BOOLEAN, asked : Versions]

NewRow(scope, status) ==
    [scope |-> scope, status |-> status, attempts |-> 0,
     due |-> TRUE, asked |-> version]

\* A row as the claim returned it: the worker keeps this copy.
Claimed == [id : RowIds, attempts : 0..MaxAttempts]
NoClaim == [id |-> NoRow, attempts |-> 0]

\* todo: claimed rows not yet started.  row: the one in hand.  seen: the
\* version the run has read.
RunPhases == {"idle", "compare", "save", "cleanup", "mark", "fail"}
Run == [at : RunPhases, todo : SUBSET Claimed,
        row : Claimed \union {NoClaim}, seen : Versions]
IdleRun == [at |-> "idle", todo |-> {}, row |-> NoClaim, seen |-> 0]

ClientPhases == {"idle", "changed", "promoted", "insert", "reset"}
Client == [at : ClientPhases, scope : Scopes, row : RowIds \union {NoRow}]
IdleClient == [at |-> "idle", scope |-> "global", row |-> NoRow]

\* Faulty variant: the deduplication of the old enqueue, pending rows only.
ActivePendingOnly == {"pending"}

Active == {"pending", "queued", "processing"}

ActiveIn(scope) == {r \in RowIds : rows[r].scope = scope /\ rows[r].status \in Active}
FailedIn(scope) == {r \in RowIds : rows[r].scope = scope /\ rows[r].status = "failed"}

\* The rows a pass still answers for.
Holds(p) ==
    {c.id : c \in run[p].todo} \union ({run[p].row.id} \ {NoRow})

-----------------------------------------------------------------------------
Init ==
    /\ version = 0
    /\ shown = 0
    /\ rows = [r \in RowIds |->
                 [scope |-> "global", status |-> "absent", attempts |-> 0,
                  due |-> FALSE, asked |-> 0]]
    /\ run = [p \in Engines |-> IdleRun]
    /\ client = [c \in Clients |-> IdleClient]
    /\ promoted = {}
    /\ acked = 0

-----------------------------------------------------------------------------
(* Requests. *)

Insert(scope, status) ==
    \E r \in RowIds :
        /\ rows[r].status = "absent"
        /\ rows' = [rows EXCEPT ![r] = NewRow(scope, status)]

\* Faulty variant: a requeue starts a new retry history.
RequeuedAfresh(r) ==
    [rows EXCEPT ![r] = NewRow(rows[r].scope, "pending")]

\* A failed row goes back to the queue with its attempt count.
Requeued(r) ==
    [rows EXCEPT ![r] = [@ EXCEPT !.status = "pending", !.due = TRUE,
                                  !.asked = version]]

\* enqueue_eligibility_recompute: an active row of the scope answers the
\* call unchanged, else a failed one is requeued, else a row is inserted.
EnqueueRPC(scope) ==
    IF ActiveIn(scope) # {} THEN UNCHANGED rows
    ELSE IF FailedIn(scope) # {}
    THEN \E r \in FailedIn(scope) : rows' = Requeued(r)
    ELSE Insert(scope, "pending")

\* The write of a profile change, or of a published recruitment.
Change(c) ==
    \E scope \in {"global"} \union promoted :
        /\ client[c].at = "idle"
        /\ version < MaxChanges
        /\ version' = version + 1
        /\ client' = [client EXCEPT ![c].at = "changed", ![c].scope = scope]
        /\ UNCHANGED <<shown, rows, run, promoted, acked>>

\* The announcement that follows it.
Enqueue(c) ==
    /\ client[c].at = "changed"
    /\ EnqueueRPC(client[c].scope)
    /\ client' = [client EXCEPT ![c] = IdleClient]
    /\ acked' = version
    /\ UNCHANGED <<version, shown, run, promoted>>

\* The write or the announcement raises, or the process dies between them.
EnqueueLost(c) ==
    /\ RequestFaults # {}
    /\ client[c].at = "changed"
    /\ client' = [client EXCEPT ![c] = IdleClient]
    /\ UNCHANGED <<version, shown, rows, run, promoted, acked>>

\* A user, or an administrator, asks for a recompute without a change.
Ask(c) ==
    \E scope \in {"global"} \union promoted :
        /\ client[c].at = "idle"
        /\ EnqueueRPC(scope)
        /\ acked' = version
        /\ UNCHANGED <<version, shown, run, client, promoted>>

\* promote_recruitment inserts the recruitment; the trigger queues a row.
Promote(c) ==
    \E rec \in Recruitments \ promoted :
        /\ client[c].at = "idle"
        /\ promoted' = promoted \union {rec}
        /\ Insert(rec, "queued")
        /\ client' = [client EXCEPT ![c].at = "promoted"]
        /\ UNCHANGED <<version, shown, run, acked>>

\* The fan-out skips a user who has a pending row, of any scope.
FanoutRead(c) ==
    /\ client[c].at = "promoted"
    /\ IF \E r \in RowIds : rows[r].status = "pending"
       THEN client' = [client EXCEPT ![c] = IdleClient]
       ELSE client' = [client EXCEPT ![c].at = "insert"]
    /\ UNCHANGED <<version, shown, rows, run, promoted, acked>>

\* It inserts a row of the global scope, past the enqueue RPC.
FanoutInsert(c) ==
    /\ client[c].at = "insert"
    /\ Insert("global", "pending")
    /\ client' = [client EXCEPT ![c] = IdleClient]
    /\ UNCHANGED <<version, shown, run, promoted, acked>>

\* The fan-out is best effort: an exception of either call is swallowed.
FanoutLost(c) ==
    /\ RequestFaults # {}
    /\ client[c].at \in {"promoted", "insert"}
    /\ client' = [client EXCEPT ![c] = IdleClient]
    /\ UNCHANGED <<version, shown, rows, run, promoted, acked>>

\* retry_recompute_row reads the row and refuses one that has not failed.
RetryRead(c) ==
    \E r \in RowIds :
        /\ AdminMayRetry
        /\ client[c].at = "idle"
        /\ rows[r].status = "failed"
        /\ client' = [client EXCEPT ![c].at = "reset", ![c].row = r]
        /\ UNCHANGED <<version, shown, rows, run, promoted, acked>>

\* It then resets the row whatever it has become, unless it is gone.
RetryReset(c) ==
    /\ client[c].at = "reset"
    /\ LET r == client[c].row IN
       rows' = IF rows[r].status = "deleted" THEN rows
               ELSE [rows EXCEPT ![r] = [@ EXCEPT !.status = "pending",
                        !.attempts = 0, !.due = TRUE, !.asked = version]]
    /\ client' = [client EXCEPT ![c] = IdleClient]
    /\ UNCHANGED <<version, shown, run, promoted, acked>>

ClientNext(c) ==
    \/ Change(c) \/ Enqueue(c) \/ EnqueueLost(c) \/ Ask(c)
    \/ Promote(c) \/ FanoutRead(c) \/ FanoutInsert(c) \/ FanoutLost(c)
    \/ RetryRead(c) \/ RetryReset(c)

-----------------------------------------------------------------------------
(* Passes of the worker. *)

\* Faulty variant: the claim also takes rows that are running.
ClaimableRunning(r) ==
    /\ rows[r].status \in Active
    /\ rows[r].due
    /\ rows[r].attempts < MaxAttempts

\* Faulty variant: the claim takes a row one time too many.
ClaimableOnceMore(r) ==
    /\ rows[r].status \in {"pending", "queued"}
    /\ rows[r].due
    /\ rows[r].attempts <= MaxAttempts

Claimable(r) ==
    /\ rows[r].status \in {"pending", "queued"}
    /\ rows[r].due
    /\ rows[r].attempts < MaxAttempts

ClaimCopy(r) == [id |-> r, attempts |-> rows[r].attempts + 1]

\* claim_eligibility_queue: every claimable row of the user, in one
\* statement; the limit of a batch exceeds them.  When the reply is lost the
\* pass ends without them.
Claim(p) ==
    LET batch == {r \in RowIds : Claimable(r)} IN
    /\ run[p].at = "idle"
    /\ run[p].todo = {}
    /\ batch # {}
    /\ rows' = [r \in RowIds |->
                  IF r \in batch
                  THEN [rows[r] EXCEPT !.status = "processing", !.attempts = @ + 1]
                  ELSE rows[r]]
    /\ \/ run' = [run EXCEPT ![p].todo = {ClaimCopy(r) : r \in batch}]
       \/ "claim" \in Faults /\ UNCHANGED run
    /\ UNCHANGED <<version, shown, client, promoted, acked>>

\* drain_recompute_queue takes the next claimed row and runs the engine,
\* which reads the profile and the active posts.
Load(p) ==
    \E c \in run[p].todo :
        /\ run[p].at = "idle"
        /\ run' = [run EXCEPT ![p].todo = @ \ {c}, ![p].row = c,
                              ![p].at = "compare", ![p].seen = version]
        /\ UNCHANGED <<version, shown, rows, client, promoted, acked>>

LoadRaises(p) ==
    \E c \in run[p].todo :
        /\ "call" \in Faults
        /\ run[p].at = "idle"
        /\ run' = [run EXCEPT ![p].todo = @ \ {c}, ![p].row = c, ![p].at = "fail"]
        /\ UNCHANGED <<version, shown, rows, client, promoted, acked>>

\* POST /eligibility/recompute runs the engine without a queue row.
Direct(p) ==
    /\ run[p].at = "idle"
    /\ run' = [run EXCEPT ![p].at = "compare", ![p].seen = version]
    /\ UNCHANGED <<version, shown, rows, client, promoted, acked>>

Rested(p) == [run[p] EXCEPT !.at = "idle", !.row = NoClaim, !.seen = 0]

\* The engine has returned.
Evaluated(p) ==
    IF run[p].row = NoClaim THEN Rested(p) ELSE [run[p] EXCEPT !.at = "cleanup"]

\* Faulty variant: any stored result is taken for the current one.
UpToDateOnceComputed(p) == shown > 0 \/ shown = run[p].seen

\* The stored hashes decide whether there is anything to compute.
UpToDate(p) == shown = run[p].seen

Compare(p) ==
    /\ run[p].at = "compare"
    /\ run' = [run EXCEPT ![p] = IF UpToDate(p) THEN Evaluated(p)
                                 ELSE [@ EXCEPT !.at = "save"]]
    /\ UNCHANGED <<version, shown, rows, client, promoted, acked>>

Save(p) ==
    /\ run[p].at = "save"
    /\ shown' = run[p].seen
    /\ run' = [run EXCEPT ![p] = Evaluated(p)]
    /\ UNCHANGED <<version, rows, client, promoted, acked>>

\* The exception of the upsert is caught and returned among the errors,
\* which the worker does not look at.
SaveSwallowed(p) ==
    /\ "save" \in Faults
    /\ run[p].at = "save"
    /\ run' = [run EXCEPT ![p] = Evaluated(p)]
    /\ UNCHANGED <<version, shown, rows, client, promoted, acked>>

\* The other completed rows of the scope are deleted.
Superseded(p) ==
    {r \in RowIds : /\ r # run[p].row.id
                    /\ rows[r].status = "completed"
                    /\ rows[r].scope = rows[run[p].row.id].scope}

CleanedUp(p) ==
    [r \in RowIds |-> IF r \in Superseded(p)
                      THEN [rows[r] EXCEPT !.status = "deleted"] ELSE rows[r]]

Cleanup(p) ==
    /\ run[p].at = "cleanup"
    /\ rows' = CleanedUp(p)
    /\ \/ run' = [run EXCEPT ![p].at = "mark"]
       \/ "reply" \in Faults /\ run' = [run EXCEPT ![p].at = "fail"]
    /\ UNCHANGED <<version, shown, client, promoted, acked>>

\* An update by id changes nothing when the row is gone.
Updated(r, new) == IF rows[r].status = "deleted" THEN rows ELSE [rows EXCEPT ![r] = new]

Mark(p) ==
    LET r == run[p].row.id IN
    /\ run[p].at = "mark"
    /\ rows' = Updated(r, [rows[r] EXCEPT !.status = "completed"])
    /\ \/ run' = [run EXCEPT ![p] = Rested(p)]
       \/ "reply" \in Faults /\ run' = [run EXCEPT ![p].at = "fail"]
    /\ UNCHANGED <<version, shown, client, promoted, acked>>

\* A call that raises without effect ends the try block.
Raise(p) ==
    /\ "call" \in Faults
    /\ run[p].at \in {"compare", "cleanup", "mark"}
    /\ run' = [run EXCEPT ![p] = IF run[p].row = NoClaim THEN Rested(p)
                                 ELSE [@ EXCEPT !.at = "fail"]]
    /\ UNCHANGED <<version, shown, rows, client, promoted, acked>>

\* Faulty variants: one attempt too many, one too few.
OutcomeLate(attempts) == IF attempts > MaxAttempts THEN "failed" ELSE "pending"
OutcomeEarly(attempts) == IF attempts + 1 >= MaxAttempts THEN "failed" ELSE "pending"

\* _finalise_failure, from the attempt count the claim returned.
Outcome(attempts) == IF attempts >= MaxAttempts THEN "failed" ELSE "pending"

FinaliseFailure(p) ==
    LET c == run[p].row IN
    /\ run[p].at = "fail"
    /\ rows' = Updated(c.id, [rows[c.id] EXCEPT !.status = Outcome(c.attempts),
                                !.attempts = c.attempts, !.due = FALSE])
    /\ run' = [run EXCEPT ![p] = Rested(p)]
    /\ UNCHANGED <<version, shown, client, promoted, acked>>

\* Its own exception is collected and the loop goes on.
FinaliseLost(p) ==
    /\ "finalise" \in Faults
    /\ run[p].at = "fail"
    /\ run' = [run EXCEPT ![p] = Rested(p)]
    /\ UNCHANGED <<version, shown, rows, client, promoted, acked>>

Crash(p) ==
    /\ "crash" \in Faults
    /\ run[p] # IdleRun
    /\ run' = [run EXCEPT ![p] = IdleRun]
    /\ UNCHANGED <<version, shown, rows, client, promoted, acked>>

\* next_attempt_at passes.
BackoffEnds(r) ==
    /\ rows[r].status = "pending"
    /\ ~rows[r].due
    /\ rows' = [rows EXCEPT ![r].due = TRUE]
    /\ UNCHANGED <<version, shown, run, client, promoted, acked>>

EngineStep(p) ==
    \/ Compare(p) \/ Save(p) \/ SaveSwallowed(p) \/ Raise(p)

PassStep(p) ==
    \/ Claim(p) \/ Load(p) \/ LoadRaises(p) \/ EngineStep(p)
    \/ Cleanup(p) \/ Mark(p) \/ FinaliseFailure(p) \/ FinaliseLost(p)

Next ==
    \/ \E c \in Clients : ClientNext(c)
    \/ \E p \in Passes : PassStep(p)
    \/ \E p \in DirectRuns : Direct(p) \/ EngineStep(p)
    \/ \E p \in Engines : Crash(p)
    \/ \E r \in RowIds : BackoffEnds(r)

Spec == Init /\ [][Next]_vars

\* The scheduler runs a pass every five minutes and a pass runs to its end
\* unless its process dies; nothing is assumed of users or administrators.
Fairness ==
    /\ \A p \in Passes : WF_vars(PassStep(p))
    /\ \A r \in RowIds : WF_vars(BackoffEnds(r))

FairSpec == Spec /\ Fairness

-----------------------------------------------------------------------------
(* Properties. *)

TypeOK ==
    /\ version \in Versions
    /\ shown \in Versions
    /\ rows \in [RowIds -> Row]
    /\ run \in [Engines -> Run]
    /\ client \in [Clients -> Client]
    /\ promoted \subseteq Recruitments
    /\ acked \in Versions

\* No two passes answer for one row: each is run by its claimer alone
\* (claim_eligibility_queue, for update skip locked).
OneHolder ==
    \A p, q \in Passes : p # q => Holds(p) \intersect Holds(q) = {}

\* While rows enter only through the enqueue RPC, a scope never has two
\* rows waiting or running (041, rule 1).
OneActivePerScope ==
    \A scope \in Scopes : Cardinality(ActiveIn(scope)) <= 1

\* A completed row keeps its word: the results on show are at least as new
\* as the data were when the row was last put in the queue.
CompletedIsShown ==
    \A r \in RowIds : rows[r].status = "completed" => shown >= rows[r].asked

\* A row is given up only after MaxAttempts runs, whatever resets, requeues
\* and late failures of other holders interleave.
FailedIsExhausted ==
    \A r \in RowIds : rows[r].status = "failed" => rows[r].attempts = MaxAttempts

\* Neither a requeue nor the failure a worker records from its old copy of
\* the row takes back an attempt (041: re-enqueueing used to erase the retry
\* history).
RetryHistoryKept ==
    [][\A r \in RowIds : rows'[r].attempts >= rows[r].attempts]_vars

\* An older verdict never replaces a newer one (runner.py: write-path safety
\* and deterministic behaviour).
ShownNeverRegresses == [][shown' >= shown]_vars

\* A waiting row can be claimed one day (041, rule 2: a failed row is
\* requeued, immediately).
PendingIsClaimable ==
    \A r \in RowIds : rows[r].status \in {"pending", "queued"} => rows[r].attempts < MaxAttempts

\* A change whose announcement returned is on show, or a run that has read
\* it is under way, or some row will bring one (admin_trust.py: no window in
\* which a published recruitment has no result).
ChangeIsCovered ==
    \/ shown >= acked
    \/ \E r \in RowIds : rows[r].status \in {"pending", "queued", "failed"}
    \/ \E p \in Engines :
        \/ run[p].todo # {}
        \/ run[p].at = "fail"
        \/ run[p].at \in {"compare", "save"} /\ run[p].seen >= acked

\* Every claimed row is settled: completed, failed or put back
\* (recompute_worker.py, step 3).
ClaimedIsSettled ==
    \A r \in RowIds : rows[r].status = "processing" ~> rows[r].status # "processing"

\* Unless a pass is lost between its claim and its last write, every waiting
\* row with attempts left ends: completed, deleted as superseded, or failed.
BudgetedRowEnds ==
    \A r \in RowIds :
        (rows[r].status \in {"pending", "queued"} /\ rows[r].attempts < MaxAttempts)
            ~> rows[r].status \in {"completed", "deleted", "failed"}
=============================================================================
