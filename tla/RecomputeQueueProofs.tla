------------------------ MODULE RecomputeQueueProofs ------------------------
(***************************************************************************)
(* Proofs about RecomputeQueue, for every number of rows, passes, requests *)
(* and recruitments, and every limit on attempts.                          *)
(***************************************************************************)
EXTENDS RecomputeInvariant, TLAPS, FiniteSetTheorems

-----------------------------------------------------------------------------
(* Facts about the operators.                                              *)

\* The parts of a claimed copy.
LEMMA ClaimParts ==
  /\ \A c \in Claimed : c.id \in RowIds /\ c.attempts \in 0..MaxAttempts /\ c # NoClaim
  /\ NoClaim \notin Claimed
  /\ NoClaim.id = NoRow
BY NoRowAssumption DEF Claimed, NoClaim

\* Idle processes are well typed.
LEMMA IdleTypes == IdleRun \in Run /\ IdleClient \in Client
BY MaxChangesAssumption DEF IdleRun, Run, RunPhases, IdleClient, Client, ClientPhases, Scopes,
   Versions

\* A row put in the queue is well typed.
LEMMA NewRowType ==
  ASSUME TypeOK, NEW scope \in Scopes, NEW status \in Statuses
  PROVE  NewRow(scope, status) \in Row
BY MaxAttemptsAssumption DEF TypeOK, NewRow, Row

\* So is the table after an insert.
LEMMA InsertType ==
  ASSUME TypeOK, NEW scope \in Scopes, NEW status \in Statuses, Insert(scope, status)
  PROVE  rows' \in [RowIds -> Row]
BY NewRowType DEF TypeOK, Insert

\* The enqueue RPC requeues a failed row, inserts one or leaves the table.
LEMMA EnqueueCases ==
  ASSUME NEW scope \in Scopes, EnqueueRPC(scope)
  PROVE  \/ ActiveIn(scope) # {} /\ UNCHANGED rows
         \/ ActiveIn(scope) = {} /\ \E r \in FailedIn(scope) : rows' = Requeued(r)
         \/ /\ ActiveIn(scope) = {} /\ FailedIn(scope) = {}
            /\ Insert(scope, "pending")
BY DEF EnqueueRPC

\* A table row is a record of its fields.
LEMMA RowParts ==
  \A r \in Row : /\ r.scope \in Scopes /\ r.status \in Statuses
                 /\ r.attempts \in 0..MaxAttempts /\ r.due \in BOOLEAN /\ r.asked \in Versions
BY DEF Row

\* The table stays well typed through an enqueue.
LEMMA EnqueueType ==
  ASSUME TypeOK, NEW scope \in Scopes, EnqueueRPC(scope)
  PROVE  rows' \in [RowIds -> Row]
<1>1. ASSUME NEW r \in FailedIn(scope), rows' = Requeued(r) PROVE rows' \in [RowIds -> Row]
  BY <1>1 DEF FailedIn, Requeued, TypeOK, Row, Statuses
<1> QED BY <1>1, EnqueueCases, InsertType DEF TypeOK, Statuses

-----------------------------------------------------------------------------
(* Type correctness.                                                       *)

\* Requests keep the types.
LEMMA ClientType ==
  ASSUME TypeOK, NEW c \in Clients, ClientNext(c)
  PROVE  TypeOK'
<1> USE DEF TypeOK
<1>0. client[c] \in Client /\ promoted \subseteq Scopes /\ "global" \in Scopes
  BY DEF Scopes
<1>1. CASE Change(c)
  <2>1. PICK scope \in {"global"} \union promoted :
          /\ version < MaxChanges
          /\ version' = version + 1
          /\ client' = [client EXCEPT ![c].at = "changed", ![c].scope = scope]
          /\ UNCHANGED <<shown, rows, run, promoted, acked>>
    BY <1>1 DEF Change
  <2>2. version' \in Versions
    BY <2>1, MaxChangesAssumption DEF Versions
  <2>3. [client[c] EXCEPT !.at = "changed", !.scope = scope] \in Client
    BY <1>0 DEF Client, ClientPhases, Scopes
  <2>4. client' = [client EXCEPT ![c] = [client[c] EXCEPT !.at = "changed", !.scope = scope]]
    BY <2>1
  <2>5. client' \in [Clients -> Client]
    BY <2>3, <2>4
  <2> QED BY <2>1, <2>2, <2>5
<1>2. CASE Enqueue(c)
  BY <1>0, <1>2, EnqueueType, IdleTypes DEF Enqueue, Client
<1>3. CASE EnqueueLost(c)
  BY <1>3, IdleTypes DEF EnqueueLost
<1>4. CASE Ask(c)
  BY <1>0, <1>4, EnqueueType DEF Ask, Scopes
<1>5. CASE Promote(c)
  BY <1>0, <1>5, InsertType DEF Promote, Scopes, Client, ClientPhases, Statuses
<1>6. CASE FanoutRead(c)
  BY <1>0, <1>6, IdleTypes DEF FanoutRead, Client, ClientPhases
<1>7. CASE FanoutInsert(c)
  BY <1>0, <1>7, IdleTypes, InsertType DEF FanoutInsert, Statuses
<1>8. CASE FanoutLost(c)
  BY <1>8, IdleTypes DEF FanoutLost
<1>9. CASE RetryRead(c)
  <2>1. PICK r \in RowIds :
          client' = [client EXCEPT ![c].at = "reset", ![c].row = r]
    BY <1>9 DEF RetryRead
  <2>2. [client[c] EXCEPT !.at = "reset", !.row = r] \in Client
    BY <1>0 DEF Client, ClientPhases
  <2>3. client' = [client EXCEPT ![c] = [client[c] EXCEPT !.at = "reset", !.row = r]]
    BY <2>1
  <2> QED BY <1>9, <2>2, <2>3 DEF RetryRead
<1>10. CASE RetryReset(c)
  <2>1. rows' \in [RowIds -> Row]
    <3>1. CASE client[c].row \notin RowIds
      BY <1>10, <3>1 DEF RetryReset
    <3>2. CASE client[c].row \in RowIds
      <4>1. [rows[client[c].row] EXCEPT !.status = "pending", !.attempts = 0, !.due = TRUE,
                                        !.asked = version] \in Row
        <5>1. rows[client[c].row] \in Row /\ version \in Versions
          BY <3>2
        <5>2. 0 \in 0..MaxAttempts
          BY MaxAttemptsAssumption
        <5> QED BY <5>1, <5>2 DEF Row, Statuses
      <4> QED BY <1>10, <4>1 DEF RetryReset
    <3> QED BY <3>1, <3>2
  <2> QED BY <1>10, <2>1, IdleTypes DEF RetryReset
<1> QED BY <1>1, <1>2, <1>3, <1>4, <1>5, <1>6, <1>7, <1>8, <1>9, <1>10 DEF ClientNext

\* The end of a run, or of an evaluation, is well typed.
LEMMA RestTypes ==
  ASSUME TypeOK, NEW p \in Engines
  PROVE  Rested(p) \in Run /\ Evaluated(p) \in Run
<1>1. run[p] \in Run
  BY DEF TypeOK
<1>2. [run[p] EXCEPT !.at = "idle", !.row = NoClaim, !.seen = 0] \in Run
  <2>1. 0 \in Versions
    BY MaxChangesAssumption DEF Versions
  <2> QED BY <1>1, <2>1 DEF Run, RunPhases
<1>3. [run[p] EXCEPT !.at = "cleanup"] \in Run
  BY <1>1 DEF Run, RunPhases
<1> QED BY <1>2, <1>3 DEF Rested, Evaluated

\* An update by id is well typed.
LEMMA UpdatedType ==
  ASSUME TypeOK, NEW r, NEW new, r \in RowIds => new \in Row
  PROVE  Updated(r, new) \in [RowIds -> Row]
BY DEF TypeOK, Updated

\* Passes and direct runs keep the types.
LEMMA EngineType ==
  ASSUME TypeOK, NEW p \in Engines,
         \/ PassStep(p)
         \/ Direct(p)
         \/ Crash(p)
  PROVE  TypeOK'
<1> USE DEF TypeOK
<1>0. /\ run[p] \in Run
      /\ run[p].row \in Claimed \union {NoClaim}
      /\ run[p].todo \subseteq Claimed
  BY DEF Run
<1>1. CASE Claim(p)
  <2> DEFINE batch == {r \in RowIds : Claimable(r)}
  <2>1. \A r \in batch : rows[r].attempts + 1 \in 0..MaxAttempts
    BY MaxAttemptsAssumption, RowParts DEF Claimable
  <2>2. rows' \in [RowIds -> Row]
    BY <1>1, <2>1 DEF Claim, Row, Statuses
  <2>3. {ClaimCopy(r) : r \in batch} \subseteq Claimed
    BY <2>1 DEF ClaimCopy, Claimed
  <2>4. run' \in [Engines -> Run]
    <3>1. CASE run' = [run EXCEPT ![p].todo = {ClaimCopy(r) : r \in batch}]
      BY <1>0, <2>3, <3>1 DEF Run
    <3>2. CASE UNCHANGED run
      BY <3>2
    <3> QED BY <1>1, <3>1, <3>2 DEF Claim
  <2> QED BY <1>1, <2>2, <2>4 DEF Claim
<1>2. CASE Load(p)
  BY <1>2, <1>0 DEF Load, Run, RunPhases
<1>3. CASE LoadRaises(p)
  BY <1>3, <1>0 DEF LoadRaises, Run, RunPhases
<1>4. CASE Compare(p)
  BY <1>4, <1>0, RestTypes DEF Compare, Run, RunPhases
<1>5. CASE Save(p)
  BY <1>5, <1>0, RestTypes DEF Save, Run
<1>6. CASE SaveSwallowed(p)
  BY <1>6, <1>0, RestTypes DEF SaveSwallowed
<1>7. CASE Raise(p)
  BY <1>7, <1>0, RestTypes DEF Raise, Run, RunPhases
<1>8. CASE Cleanup(p)
  <2>1. rows' \in [RowIds -> Row]
    BY <1>8 DEF Cleanup, CleanedUp, Row, Statuses
  <2>2. run' \in [Engines -> Run]
    BY <1>8, <1>0 DEF Cleanup, Run, RunPhases
  <2> QED BY <1>8, <2>1, <2>2 DEF Cleanup
<1>9. CASE Mark(p)
  <2>1. run[p].row.id \in RowIds =>
          [rows[run[p].row.id] EXCEPT !.status = "completed"] \in Row
    BY DEF Row, Statuses
  <2>2. rows' \in [RowIds -> Row]
    BY <1>9, <2>1, UpdatedType DEF Mark
  <2>3. run' \in [Engines -> Run]
    BY <1>9, <1>0, RestTypes DEF Mark, Run, RunPhases
  <2> QED BY <1>9, <2>2, <2>3 DEF Mark
<1>10. CASE FinaliseFailure(p)
  <2> DEFINE c == run[p].row
             new == [rows[c.id] EXCEPT !.status = Outcome(c.attempts),
                       !.attempts = c.attempts, !.due = FALSE]
  <2>1. c.attempts \in 0..MaxAttempts
    BY <1>0, ClaimParts, MaxAttemptsAssumption DEF NoClaim
  <2>2. c.id \in RowIds => new \in Row
    BY <2>1 DEF Row, Statuses, Outcome
  <2>3. rows' = Updated(c.id, new)
    BY <1>10 DEF FinaliseFailure
  <2>4. rows' \in [RowIds -> Row]
    <3> HIDE DEF new
    <3> QED BY <2>2, <2>3, UpdatedType
  <2> QED BY <1>10, <2>4, RestTypes DEF FinaliseFailure
<1>11. CASE FinaliseLost(p)
  BY <1>11, RestTypes DEF FinaliseLost
<1>12. CASE Direct(p)
  BY <1>12, <1>0 DEF Direct, Run, RunPhases
<1>13. CASE Crash(p)
  BY <1>13, IdleTypes DEF Crash
<1> QED BY <1>1, <1>2, <1>3, <1>4, <1>5, <1>6, <1>7, <1>8, <1>9, <1>10, <1>11, <1>12, <1>13
        DEF PassStep, EngineStep

\* Every step is a step of a request, of a run, or the end of a backoff.
LEMMA NextCases ==
  ASSUME Next
  PROVE  \/ \E c \in Clients : ClientNext(c)
         \/ \E p \in Engines : PassStep(p) \/ Direct(p) \/ Crash(p)
         \/ \E r \in RowIds : BackoffEnds(r)
BY DEF Next, Engines, PassStep

\* Type correctness: every reachable state is well typed.
THEOREM TypeCorrect == Spec => []TypeOK
<1>1. Init => TypeOK
  <2> SUFFICES ASSUME Init PROVE TypeOK
    OBVIOUS
  <2>1. rows \in [RowIds -> Row]
    BY MaxAttemptsAssumption, MaxChangesAssumption
    DEF Init, Row, Scopes, Statuses, Versions
  <2> QED BY <2>1, IdleTypes, MaxChangesAssumption DEF Init, TypeOK, Versions
<1>2. TypeOK /\ [Next]_vars => TypeOK'
  <2>1. ASSUME TypeOK, NEW r \in RowIds, BackoffEnds(r) PROVE TypeOK'
    BY <2>1 DEF BackoffEnds, TypeOK, Row
  <2>2. ASSUME TypeOK, UNCHANGED vars PROVE TypeOK'
    BY <2>2 DEF vars, TypeOK
  <2> QED BY <2>1, <2>2, ClientType, EngineType, NextCases
<1> QED BY <1>1, <1>2, PTL DEF Spec

-----------------------------------------------------------------------------
(* How a step changes the table and the claims.                            *)

\* What a request writes into the table.
LEMMA RequestRows ==
  ASSUME TypeOK, NEW c \in Clients, ClientNext(c)
  PROVE  \/ UNCHANGED rows
         \/ \E scope \in Scopes, status \in {"pending", "queued"} : Insert(scope, status)
         \/ \E r \in RowIds : rows[r].status = "failed" /\ rows' = Requeued(r)
         \/ RetryReset(c)
<1>1. ASSUME NEW scope \in Scopes, EnqueueRPC(scope)
      PROVE  \/ UNCHANGED rows
             \/ \E s \in Scopes, status \in {"pending", "queued"} : Insert(s, status)
             \/ \E r \in RowIds : rows[r].status = "failed" /\ rows' = Requeued(r)
  BY <1>1, EnqueueCases DEF FailedIn
<1>2. promoted \subseteq Scopes /\ "global" \in Scopes /\ \A d \in Clients : client[d].scope \in Scopes
  BY DEF TypeOK, Scopes, Client
<1>3. CASE Enqueue(c)
  BY <1>1, <1>2, <1>3 DEF Enqueue
<1>4. CASE Ask(c)
  <2>1. PICK scope \in {"global"} \union promoted : EnqueueRPC(scope)
    BY <1>4 DEF Ask
  <2> QED BY <2>1, <1>1, <1>2
<1>5. CASE Promote(c)
  BY <1>5 DEF Promote, Scopes
<1>6. CASE FanoutInsert(c)
  BY <1>2, <1>6 DEF FanoutInsert
<1>7. CASE Change(c) \/ EnqueueLost(c) \/ FanoutRead(c) \/ FanoutLost(c) \/ RetryRead(c)
  BY <1>7 DEF Change, EnqueueLost, FanoutRead, FanoutLost, RetryRead
<1> QED BY <1>3, <1>4, <1>5, <1>6, <1>7 DEF ClientNext

\* Everything that writes the table.
LEMMA RowSteps ==
  ASSUME TypeOK, Next
  PROVE  \/ UNCHANGED rows
         \/ \E scope \in Scopes, status \in {"pending", "queued"} : Insert(scope, status)
         \/ \E r \in RowIds : rows[r].status = "failed" /\ rows' = Requeued(r)
         \/ \E c \in Clients : RetryReset(c)
         \/ \E p \in Engines : Claim(p) \/ Cleanup(p) \/ Mark(p) \/ FinaliseFailure(p)
         \/ \E r \in RowIds : BackoffEnds(r)
<1>1. ASSUME NEW p \in Engines, PassStep(p) \/ Direct(p) \/ Crash(p)
      PROVE  UNCHANGED rows \/ Claim(p) \/ Cleanup(p) \/ Mark(p) \/ FinaliseFailure(p)
  BY <1>1 DEF PassStep, EngineStep, Load, LoadRaises, Compare, Save, SaveSwallowed, Raise,
              FinaliseLost, Direct, Crash
<1> QED BY <1>1, RequestRows, NextCases

\* Only a claim gives a run something new to answer for.
LEMMA ClaimsShrink ==
  ASSUME TypeOK, NEW p \in Engines, PassStep(p) \/ Direct(p) \/ Crash(p), ~Claim(p)
  PROVE  \A q \in Engines : Claims(q)' \subseteq Claims(q)
<1> SUFFICES ASSUME NEW q \in Engines PROVE Claims(q)' \subseteq Claims(q)
  OBVIOUS
<1>0. run \in [Engines -> Run]
  BY DEF TypeOK
<1>1. ASSUME NEW new, run' = [run EXCEPT ![p] = new],
             new.todo \subseteq run[p].todo, new.row \in {run[p].row, NoClaim} \union run[p].todo
      PROVE  Claims(q)' \subseteq Claims(q)
  BY <1>0, <1>1 DEF Claims
<1>2. Rested(p).todo = run[p].todo /\ Rested(p).row = NoClaim
  BY <1>0 DEF Rested, Run
<1>3. Evaluated(p).todo = run[p].todo /\ Evaluated(p).row \in {run[p].row, NoClaim}
  BY <1>0, <1>2 DEF Evaluated, Run
<1>4. CASE Load(p)
  BY <1>0, <1>4 DEF Load, Run, Claims
<1>5. CASE LoadRaises(p)
  BY <1>0, <1>5 DEF LoadRaises, Run, Claims
<1>6. CASE Compare(p)
  <2>1. CASE UpToDate(p)
    BY <1>1, <1>3, <1>6, <2>1 DEF Compare
  <2>2. CASE ~UpToDate(p)
    BY <1>0, <1>6, <2>2 DEF Compare, Claims, Run
  <2> QED BY <2>1, <2>2
<1>7. CASE Save(p) \/ SaveSwallowed(p)
  BY <1>1, <1>3, <1>7 DEF Save, SaveSwallowed
<1>8. CASE Raise(p)
  <2>1. CASE run[p].row = NoClaim
    BY <1>1, <1>2, <1>8, <2>1 DEF Raise
  <2>2. CASE run[p].row # NoClaim
    BY <1>0, <1>8, <2>2 DEF Raise, Claims, Run
  <2> QED BY <2>1, <2>2
<1>9. CASE Cleanup(p)
  BY <1>0, <1>9 DEF Cleanup, Claims, Run
<1>10. CASE Mark(p)
  <2>1. CASE run' = [run EXCEPT ![p] = Rested(p)]
    BY <1>1, <1>2, <2>1
  <2>2. CASE run' = [run EXCEPT ![p].at = "fail"]
    BY <1>0, <2>2 DEF Claims, Run
  <2> QED BY <1>10, <2>1, <2>2 DEF Mark
<1>11. CASE FinaliseFailure(p) \/ FinaliseLost(p)
  BY <1>1, <1>2, <1>11 DEF FinaliseFailure, FinaliseLost
<1>12. CASE Direct(p)
  BY <1>0, <1>12 DEF Direct, Claims, Run
<1>13. CASE Crash(p)
  BY <1>1, <1>13 DEF Crash, IdleRun
<1> QED BY <1>4, <1>5, <1>6, <1>7, <1>8, <1>9, <1>10, <1>11, <1>12, <1>13
        DEF PassStep, EngineStep

-----------------------------------------------------------------------------
(* A row is given up only when its attempts are used up, even while an     *)
(* administrator resets rows.                                              *)

\* An update by id changes the row it names, if it is still there.
LEMMA UpdatedRows ==
  ASSUME TypeOK, NEW r, NEW new, rows' = Updated(r, new), NEW s \in RowIds
  PROVE  rows'[s] = rows[s] \/ (s = r /\ rows'[s] = new)
<1>1. CASE rows[r].status = "deleted"
  BY <1>1 DEF Updated
<1>2. CASE rows[r].status # "deleted"
  <2>1. rows' = [rows EXCEPT ![r] = new]
    BY <1>2 DEF Updated
  <2>2. rows'[s] = IF s = r THEN new ELSE rows[s]
    BY <2>1 DEF TypeOK
  <2> QED BY <2>2
<1> QED BY <1>1, <1>2

\* FailedIsExhausted, with or without administrators.
THEOREM FailedIsExhaustedHolds == Spec => []FailedIsExhausted
<1>1. Init => FailedIsExhausted
  BY DEF Init, FailedIsExhausted
<1>2. TypeOK /\ FailedIsExhausted /\ [Next]_vars => FailedIsExhausted'
  <2> SUFFICES ASSUME TypeOK, FailedIsExhausted, Next, NEW s \in RowIds,
                      rows'[s].status = "failed"
               PROVE  rows'[s].attempts = MaxAttempts
    BY DEF FailedIsExhausted, vars
  <2>0. rows \in [RowIds -> Row] /\ (rows[s].status = "failed" => rows[s].attempts = MaxAttempts)
    BY DEF TypeOK, FailedIsExhausted
  <2>1. CASE UNCHANGED rows
    BY <2>0, <2>1
  <2>2. ASSUME NEW scope \in Scopes, NEW status \in {"pending", "queued"}, Insert(scope, status)
        PROVE  rows'[s].attempts = MaxAttempts
    BY <2>0, <2>2 DEF Insert, NewRow
  <2>3. ASSUME NEW r \in RowIds, rows' = Requeued(r) PROVE rows'[s].attempts = MaxAttempts
    BY <2>0, <2>3 DEF Requeued, Row
  <2>4. ASSUME NEW c \in Clients, RetryReset(c) PROVE rows'[s].attempts = MaxAttempts
    BY <2>0, <2>4 DEF RetryReset, Row
  <2>5. ASSUME NEW p \in Engines, Claim(p) PROVE rows'[s].attempts = MaxAttempts
    BY <2>0, <2>5 DEF Claim, Row
  <2>6. ASSUME NEW p \in Engines, Cleanup(p) PROVE rows'[s].attempts = MaxAttempts
    BY <2>0, <2>6 DEF Cleanup, CleanedUp, Row
  <2>7. ASSUME NEW p \in Engines, Mark(p) PROVE rows'[s].attempts = MaxAttempts
    BY <2>0, <2>7, UpdatedRows DEF Mark, Row
  <2>8. ASSUME NEW p \in Engines, FinaliseFailure(p) PROVE rows'[s].attempts = MaxAttempts
    <3> DEFINE c == run[p].row
               new == [rows[c.id] EXCEPT !.status = Outcome(c.attempts),
                         !.attempts = c.attempts, !.due = FALSE]
    <3>1. rows'[s] = rows[s] \/ (s = c.id /\ rows'[s] = new)
      <4>1. rows' = Updated(c.id, new)
        BY <2>8 DEF FinaliseFailure
      <4> HIDE DEF new
      <4> QED BY <4>1, UpdatedRows
    <3>2. c.attempts \in 0..MaxAttempts
      BY ClaimParts, MaxAttemptsAssumption DEF TypeOK, Run, NoClaim
    <3>3. CASE s = c.id /\ rows'[s] = new
      <4>1. rows'[s].status = Outcome(c.attempts) /\ rows'[s].attempts = c.attempts
        BY <2>0, <3>3 DEF Row
      <4> QED BY <4>1, <3>2, MaxAttemptsAssumption DEF Outcome
    <3> QED BY <2>0, <3>1, <3>3
  <2>9. ASSUME NEW r \in RowIds, BackoffEnds(r) PROVE rows'[s].attempts = MaxAttempts
    BY <2>0, <2>9 DEF BackoffEnds, Row
  <2> QED BY <2>1, <2>2, <2>3, <2>4, <2>5, <2>6, <2>7, <2>8, <2>9, RowSteps
<1> QED BY <1>1, <1>2, TypeCorrect, PTL DEF Spec

-----------------------------------------------------------------------------
(* Who answers for which row, as long as no administrator resets one.      *)

\* A held copy names a row of the table.
LEMMA HeldRowExists ==
  ASSUME TypeOK, NEW p \in Engines, NEW c \in Claims(p)
  PROVE  c \in Claimed /\ c.id \in RowIds
BY ClaimParts DEF TypeOK, Run, Claims

\* No step of a request touches a held row.
LEMMA RequestsSpareHeld ==
  ASSUME ~AdminMayRetry, HolderInv, NEW c \in Clients, ClientNext(c)
  PROVE  HolderInv'
<1>1. TypeOK'
  BY ClientType DEF HolderInv
<1>2. UNCHANGED run
  BY DEF ClientNext, Change, Enqueue, EnqueueLost, Ask, Promote, FanoutRead, FanoutInsert,
         FanoutLost, RetryRead, RetryReset
<1>3. ~RetryRead(c) /\ ~RetryReset(c)
  BY DEF RetryRead, RetryReset, HolderInv, NoReset
<1>4. NoReset'
  <2>1. client \in [Clients -> Client] /\ \A d \in Clients : client[d].at # "reset"
    BY DEF HolderInv, TypeOK, NoReset
  <2>2. CASE Change(c)
    <3>1. PICK scope : client' = [client EXCEPT ![c].at = "changed", ![c].scope = scope]
      BY <2>2 DEF Change
    <3> QED BY <2>1, <3>1 DEF NoReset, Client
  <2>3. CASE Promote(c)
    BY <2>1, <2>3 DEF Promote, NoReset, Client
  <2>4. CASE FanoutRead(c)
    BY <2>1, <2>4 DEF FanoutRead, NoReset, Client, IdleClient
  <2>5. CASE Ask(c)
    BY <2>1, <2>5 DEF Ask, NoReset
  <2>6. CASE Enqueue(c) \/ EnqueueLost(c) \/ FanoutInsert(c) \/ FanoutLost(c)
    BY <2>1, <2>6 DEF Enqueue, EnqueueLost, FanoutInsert, FanoutLost, NoReset, IdleClient
  <2> QED BY <1>3, <2>2, <2>3, <2>4, <2>5, <2>6 DEF ClientNext
<1>5. \A r \in RowIds :
        /\ rows[r].status \in {"processing", "completed", "deleted"} => rows'[r] = rows[r]
        /\ rows'[r].status = "absent" => rows'[r] = rows[r]
  <2>1. rows \in [RowIds -> Row]
    BY DEF HolderInv, TypeOK
  <2>2. ASSUME NEW scope \in Scopes, NEW status \in {"pending", "queued"}, Insert(scope, status)
        PROVE  \A s \in RowIds :
                 /\ rows[s].status \in {"processing", "completed", "deleted"} => rows'[s] = rows[s]
                 /\ rows'[s].status = "absent" => rows'[s] = rows[s]
    BY <2>1, <2>2 DEF Insert, NewRow
  <2>3. ASSUME NEW r \in RowIds, rows[r].status = "failed", rows' = Requeued(r)
        PROVE  \A s \in RowIds :
                 /\ rows[s].status \in {"processing", "completed", "deleted"} => rows'[s] = rows[s]
                 /\ rows'[s].status = "absent" => rows'[s] = rows[s]
    BY <2>1, <2>3 DEF Requeued, Row
  <2> QED BY <1>3, <2>2, <2>3, RequestRows DEF HolderInv
<1>6. ClaimsDistinct' /\ InHandIsTaken' /\ SettlesARow'
  BY <1>2 DEF HolderInv, ClaimsDistinct, InHandIsTaken, SettlesARow, Claims
<1>7. HeldIsOutOfQueue'
  <2> SUFFICES ASSUME NEW p \in Engines, NEW d \in Claims(p)
               PROVE  /\ rows'[d.id].status \in {"processing", "completed", "deleted"}
                      /\ rows'[d.id].attempts = d.attempts
    BY <1>2 DEF HeldIsOutOfQueue, Claims
  <2>1. d.id \in RowIds
    BY HeldRowExists DEF HolderInv
  <2> QED BY <1>5, <2>1 DEF HolderInv, HeldIsOutOfQueue
<1>8. AbsentIsUntried'
  BY <1>5 DEF HolderInv, AbsentIsUntried
<1> QED BY <1>1, <1>4, <1>6, <1>7, <1>8 DEF HolderInv

\* A claim takes no row that is held.
LEMMA ClaimSkipsHeld ==
  ASSUME HolderInv, NEW q \in Engines, NEW c \in Claims(q)
  PROVE  ~Claimable(c.id)
BY DEF HolderInv, HeldIsOutOfQueue, Claimable

\* A run takes a row out of what is to do when it takes it in hand, and
\* settles the row in hand only.
LEMMA RunShape ==
  ASSUME HolderInv, NEW p \in Engines, PassStep(p) \/ Direct(p) \/ Crash(p)
  PROVE  InHandIsTaken' /\ SettlesARow'
<1> DEFINE Good(x) == /\ x.row \notin x.todo
                      /\ x.at \in {"cleanup", "mark", "fail"} => x.row # NoClaim
<1>0. /\ run \in [Engines -> Run]
      /\ \A q \in Engines : Good(run[q])
      /\ run[p].todo \subseteq Claimed
  BY DEF HolderInv, TypeOK, InHandIsTaken, SettlesARow, Run
<1> SUFFICES \A q \in Engines : Good(run'[q])
  BY DEF InHandIsTaken, SettlesARow
<1>1. run' \in [Engines -> Run]
  BY EngineType DEF HolderInv, TypeOK
<1>2. ASSUME Good(run'[p]), \A q \in Engines : q # p => run'[q] = run[q]
      PROVE  \A q \in Engines : Good(run'[q])
  <2> HIDE DEF Good
  <2> QED BY <1>0, <1>2
<1>3. Good(Rested(p)) /\ Good(Evaluated(p))
  BY <1>0, ClaimParts DEF Rested, Evaluated, Run
<1>4. \A q \in Engines : q # p => run'[q] = run[q]
  BY <1>0 DEF PassStep, EngineStep, Claim, Load, LoadRaises, Compare, Save, SaveSwallowed, Raise,
              Cleanup, Mark, FinaliseFailure, FinaliseLost, Direct, Crash
<1>5. CASE Claim(p)
  <2>1. /\ run'[p].todo \subseteq {ClaimCopy(r) : r \in {s \in RowIds : Claimable(s)}}
        /\ run'[p].row = run[p].row
        /\ run'[p].at = "idle"
    BY <1>0, <1>5 DEF Claim, Run
  <2>2. run'[p].todo \subseteq Claimed
    BY <1>1 DEF Run
  <2>3. ASSUME run[p].row # NoClaim PROVE run[p].row \notin run'[p].todo
    <3>1. ~Claimable(run[p].row.id)
      BY <2>3, ClaimSkipsHeld DEF Claims
    <3> QED BY <2>1, <3>1 DEF ClaimCopy
  <2> QED BY <1>2, <1>4, <2>1, <2>2, <2>3, ClaimParts
<1>6. CASE Load(p) \/ LoadRaises(p)
  <2>1. \E c \in run[p].todo : run'[p].row = c /\ run'[p].todo = run[p].todo \ {c}
    <3>1. PICK c \in run[p].todo, at \in {"compare", "fail"}, seen \in Versions :
            \/ run' = [run EXCEPT ![p].todo = @ \ {c}, ![p].row = c,
                                  ![p].at = at, ![p].seen = seen]
            \/ run' = [run EXCEPT ![p].todo = @ \ {c}, ![p].row = c, ![p].at = at]
      <4>1. CASE Load(p)
        BY <4>1 DEF Load, HolderInv, TypeOK
      <4>2. CASE LoadRaises(p)
        BY <4>2 DEF LoadRaises, HolderInv, TypeOK
      <4> QED BY <1>6, <4>1, <4>2
    <3>2. run'[p].row = c /\ run'[p].todo = run[p].todo \ {c}
      BY <1>0, <3>1 DEF Run
    <3> QED BY <3>2
  <2>2. run'[p].row \in Claimed /\ run'[p].row \notin run'[p].todo
    BY <1>0, <2>1
  <2> QED BY <1>2, <1>4, <2>2, ClaimParts
<1>7. CASE Direct(p)
  BY <1>0, <1>2, <1>4, <1>7 DEF Direct, Run
<1>8. CASE Compare(p)
  <2>1. CASE UpToDate(p)
    BY <1>0, <1>2, <1>3, <1>4, <1>8, <2>1 DEF Compare
  <2>2. CASE ~UpToDate(p)
    BY <1>0, <1>2, <1>4, <1>8, <2>2 DEF Compare, Run
  <2> QED BY <2>1, <2>2
<1>9. CASE Save(p) \/ SaveSwallowed(p)
  BY <1>0, <1>2, <1>3, <1>4, <1>9 DEF Save, SaveSwallowed
<1>10. CASE Raise(p)
  <2>1. CASE run[p].row = NoClaim
    BY <1>0, <1>2, <1>3, <1>4, <1>10, <2>1 DEF Raise
  <2>2. CASE run[p].row # NoClaim
    BY <1>0, <1>2, <1>4, <1>10, <2>2 DEF Raise, Run
  <2> QED BY <2>1, <2>2
<1>11. CASE Cleanup(p)
  BY <1>0, <1>2, <1>4, <1>11 DEF Cleanup, Run
<1>12. CASE Mark(p)
  <2>1. CASE run' = [run EXCEPT ![p] = Rested(p)]
    BY <1>0, <1>2, <1>3, <1>4, <2>1
  <2>2. CASE run' = [run EXCEPT ![p].at = "fail"]
    BY <1>0, <1>2, <1>4, <1>12, <2>2 DEF Mark, Run
  <2> QED BY <1>12, <2>1, <2>2 DEF Mark
<1>13. CASE FinaliseFailure(p) \/ FinaliseLost(p)
  BY <1>0, <1>2, <1>3, <1>4, <1>13 DEF FinaliseFailure, FinaliseLost
<1>14. CASE Crash(p)
  BY <1>0, <1>2, <1>4, <1>14 DEF Crash, IdleRun
<1> QED BY <1>5, <1>6, <1>7, <1>8, <1>9, <1>10, <1>11, <1>12, <1>13, <1>14
        DEF PassStep, EngineStep

\* A claim hands out rows nobody answers for, and makes the run answer for
\* them as they now are.
LEMMA ClaimKeepsApart ==
  ASSUME HolderInv, NEW p \in Engines, Claim(p)
  PROVE  ClaimsDistinct' /\ HeldIsOutOfQueue'
<1> DEFINE batch == {r \in RowIds : Claimable(r)}
           copies == {ClaimCopy(r) : r \in batch}
<1>0. run \in [Engines -> Run] /\ rows \in [RowIds -> Row]
  BY DEF HolderInv, TypeOK
<1>1. /\ Claims(p)' \subseteq copies \union Claims(p)
      /\ \A q \in Engines : q # p => Claims(q)' = Claims(q)
  BY <1>0 DEF Claim, Claims, Run
<1>2. \A c \in copies : c.id \in batch /\ c = ClaimCopy(c.id)
  BY DEF ClaimCopy
<1>3. \A q \in Engines : \A c \in Claims(q) : c.id \in RowIds \ batch
  BY ClaimSkipsHeld, HeldRowExists DEF HolderInv
<1>4. ASSUME NEW q \in Engines, NEW c \in Claims(q)'
      PROVE  c \in Claims(q) \/ (q = p /\ c \in copies)
  BY <1>1, <1>4
<1>5. ClaimsDistinct'
  <2> SUFFICES ASSUME NEW q \in Engines, NEW s \in Engines,
                      NEW c \in Claims(q)', NEW d \in Claims(s)', c.id = d.id
               PROVE  q = s /\ c = d
    BY DEF ClaimsDistinct
  <2> HIDE DEF batch, copies
  <2>1. CASE c \in copies
    BY <1>2, <1>3, <1>4, <2>1
  <2>2. CASE c \notin copies
    BY <1>2, <1>3, <1>4, <2>2 DEF HolderInv, ClaimsDistinct
  <2> QED BY <2>1, <2>2
<1>6. HeldIsOutOfQueue'
  <2> SUFFICES ASSUME NEW q \in Engines, NEW c \in Claims(q)'
               PROVE  /\ rows'[c.id].status \in {"processing", "completed", "deleted"}
                      /\ rows'[c.id].attempts = c.attempts
    BY DEF HeldIsOutOfQueue
  <2>1. CASE c \in copies
    <3>1. c.id \in batch /\ c.attempts = rows[c.id].attempts + 1
      BY <1>2, <2>1 DEF ClaimCopy
    <3> QED BY <1>0, <3>1 DEF Claim, Row
  <2>2. CASE c \in Claims(q)
    <3>1. c.id \in RowIds /\ ~Claimable(c.id)
      BY <1>3, <2>2
    <3>2. rows'[c.id] = rows[c.id]
      BY <3>1 DEF Claim
    <3> QED BY <2>2, <3>2 DEF HolderInv, HeldIsOutOfQueue
  <2> QED BY <1>4, <2>1, <2>2
<1> QED BY <1>5, <1>6

\* No other step of a run disturbs what the runs still answer for: a
\* completion and a cleanup keep the attempts, and a recorded failure is of
\* a row whose copy is given up.
LEMMA EnginesSpareHeld ==
  ASSUME HolderInv, NEW p \in Engines, PassStep(p) \/ Direct(p) \/ Crash(p), ~Claim(p)
  PROVE  HeldIsOutOfQueue'
<1>0. run \in [Engines -> Run] /\ rows \in [RowIds -> Row]
  BY DEF HolderInv, TypeOK
<1> SUFFICES ASSUME NEW q \in Engines, NEW c \in Claims(q)'
             PROVE  /\ rows'[c.id].status \in {"processing", "completed", "deleted"}
                    /\ rows'[c.id].attempts = c.attempts
  BY DEF HeldIsOutOfQueue
<1>1. c \in Claims(q)
  BY ClaimsShrink DEF HolderInv
<1>2. /\ c.id \in RowIds
      /\ rows[c.id].status \in {"processing", "completed", "deleted"}
      /\ rows[c.id].attempts = c.attempts
  BY <1>1, HeldRowExists DEF HolderInv, HeldIsOutOfQueue
<1>3. CASE Cleanup(p)
  BY <1>0, <1>2, <1>3 DEF Cleanup, CleanedUp, Row
<1>4. CASE Mark(p)
  <2>1. \/ rows'[c.id] = rows[c.id]
        \/ rows'[c.id] = [rows[c.id] EXCEPT !.status = "completed"]
    BY <1>2, <1>4, UpdatedRows DEF Mark, HolderInv
  <2> QED BY <1>0, <1>2, <2>1 DEF Row
<1>5. CASE FinaliseFailure(p)
  <2> DEFINE h == run[p].row
             new == [rows[h.id] EXCEPT !.status = Outcome(h.attempts),
                       !.attempts = h.attempts, !.due = FALSE]
  <2>1. h # NoClaim /\ h \in Claims(p) /\ h \notin run[p].todo
    BY <1>5 DEF FinaliseFailure, HolderInv, SettlesARow, InHandIsTaken, Claims
  <2>2. /\ Claims(p)' = run[p].todo
        /\ \A s \in Engines : s # p => Claims(s)' = Claims(s)
    BY <1>0, <1>5 DEF FinaliseFailure, Rested, Claims, Run
  <2>3. c.id # h.id
    <3>1. CASE q = p
      BY <1>1, <2>1, <2>2, <3>1 DEF HolderInv, ClaimsDistinct
    <3>2. CASE q # p
      BY <1>1, <2>1, <3>2 DEF HolderInv, ClaimsDistinct
    <3> QED BY <3>1, <3>2
  <2>4. rows' = Updated(h.id, new)
    BY <1>5 DEF FinaliseFailure
  <2>5. rows'[c.id] = rows[c.id]
    <3> HIDE DEF new
    <3> QED BY <1>2, <2>3, <2>4, UpdatedRows DEF HolderInv
  <2> QED BY <1>2, <2>5
<1>6. CASE ~Cleanup(p) /\ ~Mark(p) /\ ~FinaliseFailure(p)
  <2>1. UNCHANGED rows
    BY <1>6 DEF PassStep, EngineStep, Load, LoadRaises, Compare, Save, SaveSwallowed, Raise,
                FinaliseLost, Direct, Crash
  <2> QED BY <1>2, <2>1
<1> QED BY <1>3, <1>4, <1>5, <1>6

\* No run writes a row that is not yet inserted.
LEMMA EnginesSpareAbsent ==
  ASSUME HolderInv, NEW p \in Engines, PassStep(p) \/ Direct(p) \/ Crash(p)
  PROVE  AbsentIsUntried'
<1>0. rows \in [RowIds -> Row]
  BY DEF HolderInv, TypeOK
<1> SUFFICES ASSUME NEW r \in RowIds, rows'[r].status = "absent" PROVE rows'[r] = rows[r]
  BY DEF HolderInv, AbsentIsUntried
<1>1. CASE Claim(p)
  BY <1>0, <1>1 DEF Claim, Row
<1>2. CASE Cleanup(p)
  BY <1>0, <1>2 DEF Cleanup, CleanedUp, Row
<1>3. CASE Mark(p)
  BY <1>0, <1>3, UpdatedRows DEF Mark, Row, HolderInv
<1>4. CASE FinaliseFailure(p)
  <2> DEFINE h == run[p].row
             new == [rows[h.id] EXCEPT !.status = Outcome(h.attempts),
                       !.attempts = h.attempts, !.due = FALSE]
  <2>1. rows'[r] = rows[r] \/ (r = h.id /\ rows'[r] = new)
    <3>1. rows' = Updated(h.id, new)
      BY <1>4 DEF FinaliseFailure
    <3> HIDE DEF new
    <3> QED BY <3>1, UpdatedRows DEF HolderInv
  <2>2. r = h.id => new.status # "absent"
    BY <1>0 DEF Row, Outcome
  <2> QED BY <2>1, <2>2
<1>5. CASE ~Claim(p) /\ ~Cleanup(p) /\ ~Mark(p) /\ ~FinaliseFailure(p)
  BY <1>5 DEF PassStep, EngineStep, Load, LoadRaises, Compare, Save, SaveSwallowed, Raise,
              FinaliseLost, Direct, Crash
<1> QED BY <1>1, <1>2, <1>3, <1>4, <1>5

\* The end of a backoff concerns no held row.
LEMMA BackoffSparesHeld ==
  ASSUME HolderInv, NEW r \in RowIds, BackoffEnds(r)
  PROVE  HolderInv'
<1>0. rows \in [RowIds -> Row]
  BY DEF HolderInv, TypeOK
<1>1. TypeOK'
  BY DEF HolderInv, TypeOK, BackoffEnds, Row
<1>2. \A s \in RowIds : rows'[s].status = rows[s].status /\ rows'[s].attempts = rows[s].attempts
  BY <1>0 DEF BackoffEnds, Row
<1>3. HeldIsOutOfQueue'
  <2>1. \A p \in Engines : Claims(p)' = Claims(p)
    BY DEF BackoffEnds, Claims
  <2> QED BY <1>2, <2>1, HeldRowExists DEF HolderInv, HeldIsOutOfQueue
<1>4. UNCHANGED <<run, client>>
  BY DEF BackoffEnds
<1> QED BY <1>1, <1>2, <1>3, <1>4
        DEF HolderInv, ClaimsDistinct, InHandIsTaken, SettlesARow, AbsentIsUntried, NoReset, Claims

\* HolderInv is an invariant as long as no administrator resets a row.
THEOREM HolderInvariant ==
  ASSUME ~AdminMayRetry
  PROVE  Spec => []HolderInv
<1>1. Init => HolderInv
  <2> SUFFICES ASSUME Init PROVE HolderInv
    OBVIOUS
  <2>1. TypeOK
    <3>1. rows \in [RowIds -> Row]
      BY MaxAttemptsAssumption, MaxChangesAssumption
      DEF Init, Row, Scopes, Statuses, Versions
    <3> QED BY <3>1, IdleTypes, MaxChangesAssumption DEF Init, TypeOK, Versions
  <2>2. \A p \in Engines : Claims(p) = {}
    BY DEF Init, Claims, IdleRun
  <2> QED BY <2>1, <2>2
          DEF Init, HolderInv, ClaimsDistinct, InHandIsTaken, SettlesARow, HeldIsOutOfQueue,
              AbsentIsUntried, NoReset, IdleRun, IdleClient
<1>2. HolderInv /\ [Next]_vars => HolderInv'
  <2> SUFFICES ASSUME HolderInv, [Next]_vars PROVE HolderInv'
    OBVIOUS
  <2>1. ASSUME NEW p \in Engines, PassStep(p) \/ Direct(p) \/ Crash(p) PROVE HolderInv'
    <3>1. TypeOK'
      BY <2>1, EngineType DEF HolderInv
    <3>2. ClaimsDistinct' /\ HeldIsOutOfQueue'
      <4>1. CASE Claim(p)
        BY <4>1, ClaimKeepsApart
      <4>2. CASE ~Claim(p)
        <5>1. ClaimsDistinct'
          <6>1. \A q \in Engines : Claims(q)' \subseteq Claims(q)
            BY <2>1, <4>2, ClaimsShrink DEF HolderInv
          <6> QED BY <6>1 DEF HolderInv, ClaimsDistinct
        <5> QED BY <2>1, <4>2, <5>1, EnginesSpareHeld
      <4> QED BY <4>1, <4>2
    <3>3. NoReset'
      BY <2>1 DEF HolderInv, NoReset, PassStep, EngineStep, Claim, Load, LoadRaises, Compare, Save,
                  SaveSwallowed, Raise, Cleanup, Mark, FinaliseFailure, FinaliseLost, Direct, Crash
    <3> QED BY <2>1, <3>1, <3>2, <3>3, RunShape, EnginesSpareAbsent DEF HolderInv
  <2>2. CASE UNCHANGED vars
    BY <2>2 DEF vars, HolderInv, TypeOK, ClaimsDistinct, InHandIsTaken, SettlesARow,
                HeldIsOutOfQueue, AbsentIsUntried, NoReset, Claims
  <2> QED BY <2>1, <2>2, RequestsSpareHeld, BackoffSparesHeld, NextCases
<1> QED BY <1>1, <1>2, PTL DEF Spec

\* OneHolder: no two passes answer for one row.
THEOREM OneHolderHolds ==
  ASSUME ~AdminMayRetry
  PROVE  Spec => []OneHolder
<1>1. HolderInv => OneHolder
  <2> SUFFICES ASSUME HolderInv, NEW p \in Passes, NEW q \in Passes, p # q,
                      NEW r \in Holds(p), r \in Holds(q)
               PROVE  FALSE
    BY DEF OneHolder
  <2>1. ASSUME NEW s \in Passes, r \in Holds(s) PROVE \E c \in Claims(s) : c.id = r
    BY <2>1, ClaimParts DEF Holds, Claims
  <2> QED BY <2>1 DEF HolderInv, ClaimsDistinct, Engines
<1> QED BY <1>1, HolderInvariant, PTL

\* RetryHistoryKept: no step takes back an attempt.
THEOREM RetryHistoryKeptHolds ==
  ASSUME ~AdminMayRetry
  PROVE  Spec => RetryHistoryKept
<1>1. HolderInv /\ [Next]_vars => [\A r \in RowIds : rows'[r].attempts >= rows[r].attempts]_vars
  <2> SUFFICES ASSUME HolderInv, Next, NEW s \in RowIds
               PROVE  rows'[s].attempts >= rows[s].attempts
    BY DEF vars
  <2>0. rows \in [RowIds -> Row] /\ rows[s].attempts \in Nat
    BY RowParts, MaxAttemptsAssumption DEF HolderInv, TypeOK
  <2>1. CASE UNCHANGED rows
    BY <2>0, <2>1
  <2>2. ASSUME NEW scope \in Scopes, NEW status \in {"pending", "queued"}, Insert(scope, status)
        PROVE  rows'[s].attempts >= rows[s].attempts
    <3>1. rows'[s].attempts = rows[s].attempts
      BY <2>0, <2>2 DEF Insert, NewRow, HolderInv, AbsentIsUntried
    <3> QED BY <2>0, <3>1
  <2>3. ASSUME NEW r \in RowIds, rows' = Requeued(r)
        PROVE  rows'[s].attempts >= rows[s].attempts
    <3>1. rows'[s].attempts = rows[s].attempts
      BY <2>0, <2>3 DEF Requeued, Row
    <3> QED BY <2>0, <3>1
  <2>4. \A c \in Clients : ~RetryReset(c)
    BY DEF RetryReset, HolderInv, NoReset
  <2>5. ASSUME NEW p \in Engines, Claim(p) PROVE rows'[s].attempts >= rows[s].attempts
    <3>1. rows'[s].attempts \in {rows[s].attempts, rows[s].attempts + 1}
      BY <2>0, <2>5 DEF Claim, Row
    <3> QED BY <2>0, <3>1
  <2>6. ASSUME NEW p \in Engines, Cleanup(p) PROVE rows'[s].attempts >= rows[s].attempts
    <3>1. rows'[s].attempts = rows[s].attempts
      BY <2>0, <2>6 DEF Cleanup, CleanedUp, Row
    <3> QED BY <2>0, <3>1
  <2>7. ASSUME NEW p \in Engines, Mark(p) PROVE rows'[s].attempts >= rows[s].attempts
    <3>1. rows'[s].attempts = rows[s].attempts
      BY <2>0, <2>7, UpdatedRows DEF Mark, Row, HolderInv
    <3> QED BY <2>0, <3>1
  <2>8. ASSUME NEW p \in Engines, FinaliseFailure(p) PROVE rows'[s].attempts >= rows[s].attempts
    <3> DEFINE h == run[p].row
               new == [rows[h.id] EXCEPT !.status = Outcome(h.attempts),
                         !.attempts = h.attempts, !.due = FALSE]
    <3>1. rows'[s] = rows[s] \/ (s = h.id /\ rows'[s] = new)
      <4>1. rows' = Updated(h.id, new)
        BY <2>8 DEF FinaliseFailure
      <4> HIDE DEF new
      <4> QED BY <4>1, UpdatedRows DEF HolderInv
    <3>2. h.attempts = rows[h.id].attempts
      <4>1. h \in Claims(p)
        BY <2>8 DEF FinaliseFailure, HolderInv, SettlesARow, Claims
      <4> QED BY <4>1 DEF HolderInv, HeldIsOutOfQueue
    <3>3. rows'[s].attempts = rows[s].attempts
      BY <2>0, <3>1, <3>2 DEF Row
    <3> QED BY <2>0, <3>3
  <2>9. ASSUME NEW r \in RowIds, BackoffEnds(r) PROVE rows'[s].attempts >= rows[s].attempts
    <3>1. rows'[s].attempts = rows[s].attempts
      BY <2>0, <2>9 DEF BackoffEnds, Row
    <3> QED BY <2>0, <3>1
  <2> QED BY <2>1, <2>2, <2>3, <2>4, <2>5, <2>6, <2>7, <2>8, <2>9, RowSteps DEF HolderInv
<1> QED BY <1>1, HolderInvariant, PTL DEF Spec, RetryHistoryKept

-----------------------------------------------------------------------------
(***************************************************************************)
(* What the recompute queue promises those who announce a change: one live *)
(* row per scope, and results that a completed row accounts for.  Each     *)
(* holds without the faults named in its assumptions, for every value of   *)
(* the constants.                                                          *)
(***************************************************************************)

\* A run that rests no longer answers for the row it had in hand, and neither
\* does another.
LEMMA RestingGivesUp ==
  ASSUME HolderInv, NEW p \in Engines, run[p].row # NoClaim,
         run' = [run EXCEPT ![p] = Rested(p)],
         NEW q \in Engines, NEW c \in Claims(q)'
  PROVE  c.id # run[p].row.id
<1>1. run \in [Engines -> Run] /\ run[p].row \in Claims(p) /\ run[p].row \notin run[p].todo
  BY DEF HolderInv, TypeOK, InHandIsTaken, Claims
<1>2. /\ Claims(p)' = run[p].todo
      /\ q # p => Claims(q)' = Claims(q)
  BY <1>1 DEF Rested, Claims, Run
<1>3. CASE q = p
  BY <1>1, <1>2, <1>3 DEF HolderInv, ClaimsDistinct, Claims
<1>4. CASE q # p
  BY <1>1, <1>2, <1>4 DEF HolderInv, ClaimsDistinct
<1> QED BY <1>3, <1>4

-----------------------------------------------------------------------------
(* One live row per scope, while rows enter through the enqueue RPC only   *)
(* and no reply is lost.                                                   *)

\* Steps that insert nothing and revive nothing keep the rows of a scope apart.
LEMMA LiveShrinks ==
  ASSUME OneLivePerScope,
         \A r \in RowIds : /\ rows'[r].scope = rows[r].scope
                           /\ rows'[r].status \in Live => rows[r].status \in Live
  PROVE  OneLivePerScope'
BY DEF OneLivePerScope

\* Without recruitments nothing is promoted and no fan-out starts.
LEMMA NoPromotionKept ==
  ASSUME Recruitments = {}, TypeOK, NoPromotion, NEW c \in Clients, ClientNext(c)
  PROVE  NoPromotion' /\ ~Promote(c) /\ ~FanoutInsert(c)
<1>1. client \in [Clients -> Client]
  BY DEF TypeOK
<1>2. ~Promote(c) /\ ~FanoutRead(c) /\ ~FanoutInsert(c) /\ ~FanoutLost(c)
  BY DEF NoPromotion, Promote, FanoutRead, FanoutInsert, FanoutLost
<1>3. CASE Change(c)
  <2>1. PICK scope : client' = [client EXCEPT ![c].at = "changed", ![c].scope = scope]
    BY <1>3 DEF Change
  <2> QED BY <1>1, <1>2, <1>3, <2>1 DEF Change, NoPromotion, Client
<1>4. CASE RetryRead(c)
  <2>1. PICK r : client' = [client EXCEPT ![c].at = "reset", ![c].row = r]
    BY <1>4 DEF RetryRead
  <2> QED BY <1>1, <1>2, <1>4, <2>1 DEF RetryRead, NoPromotion, Client
<1>5. CASE Enqueue(c) \/ EnqueueLost(c) \/ Ask(c) \/ RetryReset(c)
  BY <1>1, <1>2, <1>5 DEF Enqueue, EnqueueLost, Ask, RetryReset, NoPromotion, IdleClient
<1> QED BY <1>2, <1>3, <1>4, <1>5 DEF ClientNext

\* The enqueue RPC inserts into a scope that has no live row.
LEMMA EnqueueKeepsApart ==
  ASSUME TypeOK, OneLivePerScope, NEW scope \in Scopes, EnqueueRPC(scope)
  PROVE  OneLivePerScope'
<1>0. rows \in [RowIds -> Row]
  BY DEF TypeOK
<1>1. CASE UNCHANGED rows
  BY <1>1 DEF OneLivePerScope
<1>2. ASSUME NEW r \in FailedIn(scope), rows' = Requeued(r)
      PROVE  OneLivePerScope'
  <2>1. \A s \in RowIds : /\ rows'[s].scope = rows[s].scope
                          /\ rows'[s].status \in Live => rows[s].status \in Live
    BY <1>0, <1>2 DEF FailedIn, Requeued, Row, Live
  <2> QED BY <2>1, LiveShrinks
<1>3. CASE ActiveIn(scope) = {} /\ FailedIn(scope) = {} /\ Insert(scope, "pending")
  <2>1. PICK r \in RowIds : rows' = [rows EXCEPT ![r] = NewRow(scope, "pending")]
    BY <1>3 DEF Insert
  <2>2. rows'[r].scope = scope /\ \A s \in RowIds : s # r => rows'[s] = rows[s]
    BY <1>0, <2>1 DEF NewRow
  <2>3. \A s \in RowIds : rows[s].scope = scope => rows[s].status \notin Live
    BY <1>3 DEF ActiveIn, FailedIn, Live
  <2> SUFFICES ASSUME NEW s \in RowIds, NEW t \in RowIds, rows'[s].scope = rows'[t].scope,
                      rows'[s].status \in Live, rows'[t].status \in Live
               PROVE  s = t
    BY DEF OneLivePerScope
  <2>4. CASE s = r \/ t = r
    BY <2>2, <2>3, <2>4
  <2>5. CASE s # r /\ t # r
    BY <2>2, <2>5 DEF OneLivePerScope
  <2> QED BY <2>4, <2>5
<1> QED BY <1>1, <1>2, <1>3, EnqueueCases

\* Steps of runs keep held rows running and the rows of a scope apart.
LEMMA EnginesKeepScope ==
  ASSUME "reply" \notin Faults, ScopeInv, HolderInv', NEW p \in Engines,
         PassStep(p) \/ Direct(p) \/ Crash(p)
  PROVE  HeldIsRunning' /\ OneLivePerScope'
<1>0. run \in [Engines -> Run] /\ rows \in [RowIds -> Row] /\ HolderInv
  BY DEF ScopeInv, HolderInv, TypeOK
<1>1. CASE Claim(p)
  <2>1. \A s \in RowIds : /\ rows'[s].scope = rows[s].scope
                          /\ rows'[s].status \in Live => rows[s].status \in Live
                          /\ rows[s].status = "processing" => rows'[s].status = "processing"
                          /\ Claimable(s) => rows'[s].status = "processing"
    BY <1>0, <1>1 DEF Claim, Claimable, Live, Active, Row
  <2>2. ASSUME NEW q \in Engines, NEW c \in Claims(q)' PROVE rows'[c.id].status = "processing"
    <3>1. c \in Claims(q) \/ \E r \in RowIds : Claimable(r) /\ c = ClaimCopy(r)
      <4> DEFINE new == {ClaimCopy(r) : r \in {r \in RowIds : Claimable(r)}}
      <4>1. CASE run' = [run EXCEPT ![p].todo = new]
        <5>1. CASE q = p
          <6>1. run'[p] = [run[p] EXCEPT !.todo = new]
            BY <1>0, <4>1
          <6>2. run'[p].todo = new /\ run'[p].row = run[p].row
            BY <1>0, <6>1 DEF Run
          <6> QED BY <2>2, <5>1, <6>2 DEF Claims
        <5>2. CASE q # p
          BY <1>0, <2>2, <4>1, <5>2 DEF Claims
        <5> QED BY <5>1, <5>2
      <4>2. CASE UNCHANGED run
        BY <2>2, <4>2 DEF Claims
      <4> QED BY <1>1, <4>1, <4>2 DEF Claim
    <3>2. CASE c \in Claims(q)
      BY <1>0, <2>1, <3>2, HeldRowExists DEF ScopeInv, HeldIsRunning, HolderInv
    <3>3. CASE \E r \in RowIds : Claimable(r) /\ c = ClaimCopy(r)
      BY <2>1, <3>3 DEF ClaimCopy
    <3> QED BY <3>1, <3>2, <3>3
  <2> QED BY <2>1, <2>2, LiveShrinks DEF ScopeInv, HeldIsRunning
<1>2. ASSUME ~Claim(p), NEW q \in Engines, NEW c \in Claims(q)'
      PROVE  c.id \in RowIds /\ rows[c.id].status = "processing"
  <2>1. c \in Claims(q)
    BY <1>0, <1>2, ClaimsShrink DEF HolderInv
  <2> QED BY <1>0, <2>1, HeldRowExists DEF ScopeInv, HeldIsRunning, HolderInv
<1>3. CASE Cleanup(p)
  <2>1. \A s \in RowIds : /\ rows'[s].scope = rows[s].scope
                          /\ rows'[s].status \in Live => rows[s].status \in Live
                          /\ rows[s].status = "processing" => rows'[s].status = "processing"
    BY <1>0, <1>3 DEF Cleanup, CleanedUp, Superseded, Live, Active, Row
  <2>2. ~Claim(p)
    BY <1>3 DEF Cleanup, Claim
  <2> QED BY <1>2, <2>1, <2>2, LiveShrinks DEF ScopeInv, HeldIsRunning
<1>4. CASE Mark(p) \/ FinaliseFailure(p)
  <2> DEFINE h == run[p].row
  <2>1. h # NoClaim /\ run' = [run EXCEPT ![p] = Rested(p)] /\ ~Claim(p)
    BY <1>0, <1>4 DEF Mark, FinaliseFailure, HolderInv, SettlesARow, Claim
  <2>2. h.id \in RowIds /\ rows[h.id].status = "processing"
    <3>1. h \in Claims(p)
      BY <2>1 DEF Claims
    <3> QED BY <1>0, <3>1, HeldRowExists DEF ScopeInv, HeldIsRunning, HolderInv
  <2>3. PICK new : rows' = Updated(h.id, new) /\ new.scope = rows[h.id].scope
    <3>1. CASE Mark(p)
      <4> DEFINE new == [rows[h.id] EXCEPT !.status = "completed"]
      <4>1. rows' = Updated(h.id, new)
        BY <3>1 DEF Mark
      <4>2. new.scope = rows[h.id].scope
        BY <1>0, <2>2 DEF Row
      <4> QED BY <4>1, <4>2
    <3>2. CASE FinaliseFailure(p)
      <4> DEFINE new == [rows[h.id] EXCEPT !.status = Outcome(h.attempts),
                                           !.attempts = h.attempts, !.due = FALSE]
      <4>1. rows' = Updated(h.id, new)
        BY <3>2 DEF FinaliseFailure
      <4>2. new.scope = rows[h.id].scope
        BY <1>0, <2>2 DEF Row
      <4> QED BY <4>1, <4>2
    <3> QED BY <1>4, <3>1, <3>2
  <2>4. \A s \in RowIds : rows'[s] = rows[s] \/ (s = h.id /\ rows'[s].scope = rows[s].scope)
    BY <1>0, <2>3, UpdatedRows DEF HolderInv
  <2>5. OneLivePerScope'
    BY <2>2, <2>4, LiveShrinks DEF ScopeInv, Live, Active
  <2>6. ASSUME NEW q \in Engines, NEW c \in Claims(q)' PROVE rows'[c.id].status = "processing"
    BY <1>0, <1>2, <2>1, <2>4, <2>6, RestingGivesUp
  <2> QED BY <2>5, <2>6 DEF HeldIsRunning
<1>5. CASE ~Claim(p) /\ ~Cleanup(p) /\ ~Mark(p) /\ ~FinaliseFailure(p)
  <2>1. UNCHANGED rows
    BY <1>5 DEF PassStep, EngineStep, Load, LoadRaises, Compare, Save, SaveSwallowed, Raise,
                FinaliseLost, Direct, Crash
  <2> QED BY <1>2, <1>5, <2>1, LiveShrinks DEF ScopeInv, HeldIsRunning
<1> QED BY <1>1, <1>3, <1>4, <1>5

\* ScopeInv is an invariant.
THEOREM ScopeInvariant ==
  ASSUME ~AdminMayRetry, Recruitments = {}, "reply" \notin Faults
  PROVE  Spec => []ScopeInv
<1>1. Init /\ HolderInv => ScopeInv
  BY DEF Init, ScopeInv, NoPromotion, HeldIsRunning, OneLivePerScope, Claims, IdleRun,
         IdleClient, Live, Active
<1>2. HolderInv /\ HolderInv' /\ ScopeInv /\ [Next]_vars => ScopeInv'
  <2> SUFFICES ASSUME HolderInv, HolderInv', ScopeInv, [Next]_vars PROVE ScopeInv'
    OBVIOUS
  <2>0. TypeOK /\ rows \in [RowIds -> Row]
    BY DEF HolderInv, TypeOK
  <2>1. ASSUME NEW c \in Clients, ClientNext(c) PROVE ScopeInv'
    <3>1. NoPromotion' /\ ~Promote(c) /\ ~FanoutInsert(c)
      BY <2>0, <2>1, NoPromotionKept DEF ScopeInv
    <3>2. ~RetryRead(c) /\ ~RetryReset(c)
      BY DEF RetryRead, RetryReset, HolderInv, NoReset
    <3>3. UNCHANGED rows \/ \E scope \in Scopes : EnqueueRPC(scope)
      <4>1. promoted \subseteq Scopes /\ "global" \in Scopes /\ client[c].scope \in Scopes
        BY <2>0 DEF TypeOK, Scopes, Client
      <4> QED BY <2>1, <3>1, <3>2, <4>1
              DEF ClientNext, Change, Enqueue, EnqueueLost, Ask, FanoutRead, FanoutLost
    <3>4. UNCHANGED run
      BY <2>1 DEF ClientNext, Change, Enqueue, EnqueueLost, Ask, Promote, FanoutRead,
                  FanoutInsert, FanoutLost, RetryRead, RetryReset
    <3>5. OneLivePerScope'
      BY <2>0, <3>3, EnqueueKeepsApart DEF ScopeInv, OneLivePerScope
    <3>6. HeldIsRunning'
      <4>1. \A r \in RowIds : rows[r].status = "processing" => rows'[r] = rows[r]
        <5>1. ASSUME NEW scope \in Scopes, EnqueueRPC(scope), NEW r \in RowIds,
                     rows[r].status = "processing"
              PROVE  rows'[r] = rows[r]
          BY <2>0, <5>1, EnqueueCases DEF FailedIn, Requeued, Insert
        <5> QED BY <3>3, <5>1
      <4> QED BY <2>0, <3>4, <4>1, HeldRowExists DEF ScopeInv, HeldIsRunning, Claims
    <3> QED BY <3>1, <3>5, <3>6 DEF ScopeInv
  <2>2. ASSUME NEW p \in Engines, PassStep(p) \/ Direct(p) \/ Crash(p) PROVE ScopeInv'
    <3>1. UNCHANGED <<promoted, client>>
      BY <2>2 DEF PassStep, EngineStep, Claim, Load, LoadRaises, Compare, Save, SaveSwallowed,
                  Raise, Cleanup, Mark, FinaliseFailure, FinaliseLost, Direct, Crash
    <3> QED BY <2>2, <3>1, EnginesKeepScope DEF ScopeInv, NoPromotion
  <2>3. ASSUME NEW r \in RowIds, BackoffEnds(r) PROVE ScopeInv'
    <3>1. \A s \in RowIds : rows'[s].scope = rows[s].scope /\ rows'[s].status = rows[s].status
      BY <2>0, <2>3 DEF BackoffEnds, Row
    <3>2. UNCHANGED <<run, client, promoted>>
      BY <2>3 DEF BackoffEnds
    <3>3. HeldIsRunning'
      BY <2>0, <3>1, <3>2, HeldRowExists DEF ScopeInv, HeldIsRunning, Claims
    <3> QED BY <3>1, <3>2, <3>3, LiveShrinks DEF ScopeInv, NoPromotion
  <2>4. CASE UNCHANGED vars
    BY <2>4 DEF vars, ScopeInv, NoPromotion, HeldIsRunning, OneLivePerScope, Claims
  <2> QED BY <2>1, <2>2, <2>3, <2>4, NextCases
<1> QED BY <1>1, <1>2, HolderInvariant, PTL DEF Spec

\* OneActivePerScope: the enqueue RPC keeps its promise.
THEOREM OneActivePerScopeHolds ==
  ASSUME ~AdminMayRetry, Recruitments = {}, "reply" \notin Faults
  PROVE  Spec => []OneActivePerScope
<1>1. ScopeInv => OneActivePerScope
  <2> SUFFICES ASSUME ScopeInv, NEW scope \in Scopes
               PROVE  Cardinality(ActiveIn(scope)) <= 1
    BY DEF OneActivePerScope
  <2>1. \A r, s \in ActiveIn(scope) : r = s
    BY DEF ScopeInv, OneLivePerScope, ActiveIn, Live
  <2>2. CASE ActiveIn(scope) = {}
    BY <2>2, FS_EmptySet
  <2>3. CASE ActiveIn(scope) # {}
    <3>1. PICK r : ActiveIn(scope) = {r}
      BY <2>1, <2>3
    <3>2. Cardinality({r}) = 1
      BY FS_Singleton
    <3> QED BY <3>1, <3>2
  <2> QED BY <2>2, <2>3
<1> QED BY <1>1, ScopeInvariant, PTL
-----------------------------------------------------------------------------
(* Results a completed row accounts for, while one run of the engine       *)
(* exists and its saves succeed.                                           *)

\* Versions are numbers.
LEMMA VersionTypes ==
  ASSUME TypeOK
  PROVE  /\ version \in Nat /\ shown \in Nat
         /\ \A r \in RowIds : rows[r].asked \in Nat
         /\ \A p \in Engines : run[p].seen \in Nat
BY MaxChangesAssumption DEF TypeOK, Versions, Row, Run

\* A run puts nothing back in the queue as asked anew, and completes the row
\* it marks only.
LEMMA EnginesKeepAsked ==
  ASSUME HolderInv, NEW p \in Engines, PassStep(p) \/ Direct(p) \/ Crash(p), NEW s \in RowIds
  PROVE  /\ rows'[s].asked = rows[s].asked
         /\ rows'[s].status = "completed" =>
              \/ rows[s].status = "completed"
              \/ run[p].at = "mark" /\ s = run[p].row.id
<1>0. TypeOK /\ rows \in [RowIds -> Row] /\ (run[p].at \in {"mark", "fail"} => run[p].row # NoClaim)
  BY DEF HolderInv, TypeOK, SettlesARow
<1>1. CASE Claim(p)
  BY <1>0, <1>1 DEF Claim, Row
<1>2. CASE Cleanup(p)
  BY <1>0, <1>2 DEF Cleanup, CleanedUp, Row
<1>3. CASE Mark(p) \/ FinaliseFailure(p)
  <2> DEFINE h == run[p].row
             done == [rows[h.id] EXCEPT !.status = "completed"]
             lost == [rows[h.id] EXCEPT !.status = Outcome(h.attempts),
                                        !.attempts = h.attempts, !.due = FALSE]
  <2>1. h.id \in RowIds
    BY <1>0, <1>3, HeldRowExists DEF Mark, FinaliseFailure, Claims
  <2>2. CASE Mark(p)
    <3>1. rows' = Updated(h.id, done) /\ run[p].at = "mark"
      BY <2>2 DEF Mark
    <3>2. done.asked = rows[h.id].asked
      BY <1>0, <2>1 DEF Row
    <3>3. rows'[s] = rows[s] \/ (s = h.id /\ rows'[s] = done)
      BY <1>0, <3>1, UpdatedRows
    <3> QED BY <3>1, <3>2, <3>3
  <2>3. CASE FinaliseFailure(p)
    <3>1. rows' = Updated(h.id, lost)
      BY <2>3 DEF FinaliseFailure
    <3>2. lost.asked = rows[h.id].asked /\ lost.status # "completed"
      BY <1>0, <2>1 DEF Row, Outcome
    <3>3. rows'[s] = rows[s] \/ (s = h.id /\ rows'[s] = lost)
      BY <1>0, <3>1, UpdatedRows
    <3> QED BY <3>2, <3>3
  <2> QED BY <1>3, <2>2, <2>3
<1>4. CASE UNCHANGED rows
  BY <1>4
<1> QED BY <1>1, <1>2, <1>3, <1>4
        DEF PassStep, EngineStep, Load, LoadRaises, Compare, Save, SaveSwallowed, Raise,
            FinaliseLost, Direct, Crash

\* What ShownInv says of one run, given the row table and what is on show.
Accounted(x, results) ==
  /\ x.seen <= version
  /\ x.at \in {"compare", "save"} =>
       /\ x.seen >= results
       /\ x.row # NoClaim => x.seen >= rows[x.row.id].asked
  /\ x.at \in {"cleanup", "mark"} => results >= rows[x.row.id].asked

\* The only run of the engine accounts for its row in each of its states.
LEMMA RunAccounts ==
  ASSUME "save" \notin Faults, ShownInv, NEW p \in Engines, PassStep(p) \/ Direct(p) \/ Crash(p)
  PROVE  /\ version' = version /\ shown' >= shown /\ shown' <= version
         /\ Accounted(run'[p], shown')
<1> DEFINE x == run[p]
           h == x.row
<1>0. /\ TypeOK /\ run \in [Engines -> Run] /\ x \in Run
      /\ version \in Nat /\ shown \in Nat /\ x.seen \in Nat /\ shown <= version
      /\ \A r \in RowIds : rows[r].asked \in Nat /\ rows[r].asked <= version
      /\ Accounted(x, shown)
      /\ x.at \in {"cleanup", "mark", "fail"} => h # NoClaim
  BY VersionTypes DEF ShownInv, HolderInv, TypeOK, PastOnly, SeenIsFresh, SettlingIsShown,
                      SettlesARow, Accounted
<1>1. version' = version
  BY DEF PassStep, EngineStep, Claim, Load, LoadRaises, Compare, Save, SaveSwallowed, Raise,
         Cleanup, Mark, FinaliseFailure, FinaliseLost, Direct, Crash
<1>2. ASSUME NEW y, y.at = "fail" \/ y.at = "idle", y.seen \in {0, x.seen}
      PROVE  Accounted(y, shown)
  BY <1>0, <1>2 DEF Accounted
<1>3. ASSUME UNCHANGED shown, Accounted(run'[p], shown)
      PROVE  shown' >= shown /\ shown' <= version /\ Accounted(run'[p], shown')
  BY <1>0, <1>3
<1>4. /\ Rested(p).at = "idle" /\ Rested(p).seen = 0
      /\ IdleRun.at = "idle" /\ IdleRun.seen = 0
      /\ LET y == [x EXCEPT !.at = "fail"] IN y.at = "fail" /\ y.seen = x.seen
  BY <1>0 DEF Rested, Run, IdleRun
<1>5. ASSUME NEW c \in x.todo PROVE c.id \in RowIds
  BY <1>0, <1>5, ClaimParts DEF Run
<1>6. h # NoClaim => h.id \in RowIds
  BY <1>0, HeldRowExists DEF Claims
<1>7. ASSUME NEW results \in Nat, h # NoClaim => results >= rows[h.id].asked
      PROVE  Accounted(Evaluated(p), results)
  <2>1. CASE h = NoClaim
    BY <1>0, <1>4, <2>1 DEF Accounted, Evaluated
  <2>2. CASE h # NoClaim
    <3>1. /\ Evaluated(p).at = "cleanup" /\ Evaluated(p).seen = x.seen
          /\ Evaluated(p).row = h
      BY <1>0, <2>2 DEF Evaluated, Run
    <3> QED BY <1>0, <1>7, <2>2, <3>1 DEF Accounted
  <2> QED BY <2>1, <2>2
<1>8. CASE Claim(p)
  <2>1. run'[p].at = "idle" /\ run'[p].seen = x.seen
    BY <1>0, <1>8 DEF Claim, Run
  <2> QED BY <1>1, <1>2, <1>3, <1>8, <2>1 DEF Claim
<1>9. CASE Load(p) \/ Direct(p)
  <2>1. /\ run'[p].at = "compare" /\ run'[p].seen = version
        /\ run'[p].row # NoClaim => run'[p].row.id \in RowIds
        /\ UNCHANGED shown
    <3>1. CASE Load(p)
      <4>1. PICK c \in x.todo :
              /\ run' = [run EXCEPT ![p].todo = @ \ {c}, ![p].row = c,
                                    ![p].at = "compare", ![p].seen = version]
              /\ UNCHANGED shown
        BY <3>1 DEF Load
      <4>2. /\ run'[p].at = "compare" /\ run'[p].seen = version /\ run'[p].row = c
        BY <1>0, <4>1 DEF Run
      <4> QED BY <1>5, <4>1, <4>2
    <3>2. CASE Direct(p)
      <4>1. run'[p] = [x EXCEPT !.at = "compare", !.seen = version] /\ UNCHANGED shown
        BY <1>0, <3>2 DEF Direct
      <4> QED BY <1>0, <1>6, <4>1 DEF Run
    <3> QED BY <1>9, <3>1, <3>2
  <2>2. Accounted(run'[p], shown)
    BY <1>0, <2>1 DEF Accounted
  <2> QED BY <1>1, <1>3, <2>1, <2>2
<1>10. CASE LoadRaises(p)
  <2>1. run'[p].at = "fail" /\ run'[p].seen = x.seen
    BY <1>0, <1>10 DEF LoadRaises, Run
  <2> QED BY <1>1, <1>2, <1>3, <1>10, <2>1 DEF LoadRaises
<1>11. CASE Compare(p)
  <2>1. Accounted(x, shown) /\ x.at = "compare"
    BY <1>0, <1>11 DEF Compare
  <2>2. CASE UpToDate(p)
    <3>1. run'[p] = Evaluated(p)
      BY <1>0, <1>11, <2>2 DEF Compare
    <3> QED BY <1>0, <1>1, <1>3, <1>7, <1>11, <2>1, <2>2, <3>1 DEF Compare, Accounted, UpToDate
  <2>3. CASE ~UpToDate(p)
    <3>1. run'[p].at = "save" /\ run'[p].seen = x.seen /\ run'[p].row = h
      BY <1>0, <1>11, <2>3 DEF Compare, Run
    <3> QED BY <1>0, <1>1, <1>3, <1>11, <2>1, <3>1 DEF Compare, Accounted
  <2> QED BY <2>2, <2>3
<1>12. CASE Save(p)
  <2>1. shown' = x.seen /\ run'[p] = Evaluated(p) /\ x.at = "save"
    BY <1>0, <1>12 DEF Save
  <2>2. x.seen >= shown /\ x.seen <= version /\ (h # NoClaim => x.seen >= rows[h.id].asked)
    BY <1>0, <2>1 DEF Accounted
  <2> QED BY <1>0, <1>1, <1>7, <2>1, <2>2
<1>13. CASE Cleanup(p)
  <2>1. x.at = "cleanup" /\ (run'[p] = [x EXCEPT !.at = "mark"] \/ run'[p] = [x EXCEPT !.at = "fail"])
    BY <1>0, <1>13 DEF Cleanup
  <2>2. CASE run'[p] = [x EXCEPT !.at = "mark"]
    <3>1. run'[p].at = "mark" /\ run'[p].seen = x.seen /\ run'[p].row = h
      BY <1>0, <2>2 DEF Run
    <3> QED BY <1>0, <1>1, <1>3, <1>13, <2>1, <3>1 DEF Cleanup, Accounted
  <2> QED BY <1>1, <1>2, <1>3, <1>4, <1>13, <2>1, <2>2 DEF Cleanup
<1>14. CASE Mark(p) \/ Raise(p) \/ FinaliseFailure(p) \/ FinaliseLost(p) \/ Crash(p)
  <2>1. /\ run'[p] \in {Rested(p), IdleRun, [x EXCEPT !.at = "fail"]}
        /\ UNCHANGED shown
    BY <1>0, <1>14 DEF Mark, Raise, FinaliseFailure, FinaliseLost, Crash
  <2> QED BY <1>1, <1>2, <1>3, <1>4, <2>1
<1>15. ~SaveSwallowed(p)
  BY DEF SaveSwallowed
<1> QED BY <1>8, <1>9, <1>10, <1>11, <1>12, <1>13, <1>14, <1>15 DEF PassStep, EngineStep

\* A step of the only run keeps the account.
LEMMA EnginesKeepShown ==
  ASSUME \A p, q \in Engines : p = q, "save" \notin Faults, ShownInv, HolderInv',
         NEW p \in Engines, PassStep(p) \/ Direct(p) \/ Crash(p)
  PROVE  ShownInv'
<1>0. /\ TypeOK /\ TypeOK' /\ HolderInv /\ HolderInv'
      /\ version \in Nat /\ version' \in Nat /\ shown \in Nat /\ shown' \in Nat
      /\ \A r \in RowIds : rows[r].asked \in Nat
  <2>1. version' \in Nat /\ shown' \in Nat
    BY MaxChangesAssumption DEF HolderInv, TypeOK, Versions
  <2> QED BY <2>1, VersionTypes DEF ShownInv, HolderInv
<1>1. /\ version' = version /\ shown' >= shown /\ shown' <= version
      /\ Accounted(run'[p], shown')
  BY RunAccounts
<1>2. \A s \in RowIds : /\ rows'[s].asked = rows[s].asked
                        /\ rows'[s].status = "completed" =>
                             \/ rows[s].status = "completed"
                             \/ run[p].at = "mark" /\ s = run[p].row.id
  BY <1>0, EnginesKeepAsked
<1>3. PastOnly'
  BY <1>0, <1>1, <1>2 DEF ShownInv, PastOnly, Accounted
<1>4. run'[p].row # NoClaim => run'[p].row.id \in RowIds
  BY <1>0, ClaimParts DEF TypeOK, Run
<1>5. SeenIsFresh'
  BY <1>0, <1>1, <1>2, <1>4 DEF SeenIsFresh, Accounted
<1>6. SettlingIsShown'
  BY <1>0, <1>1, <1>2, <1>4 DEF SettlingIsShown, Accounted, HolderInv, SettlesARow
<1>7. CompletedIsShown'
  <2> SUFFICES ASSUME NEW s \in RowIds, rows'[s].status = "completed"
               PROVE  shown' >= rows'[s].asked
    BY DEF CompletedIsShown
  <2>1. shown >= rows[s].asked
    BY <1>2 DEF ShownInv, CompletedIsShown, SettlingIsShown
  <2> QED BY <1>0, <1>1, <1>2, <2>1
<1> QED BY <1>0, <1>3, <1>5, <1>6, <1>7 DEF ShownInv

\* Whoever puts a row in the queue asks for the data of now.
LEMMA RequestsAskForNow ==
  ASSUME TypeOK, NEW c \in Clients, ClientNext(c), ~RetryReset(c), NEW s \in RowIds
  PROVE  \/ rows'[s] = rows[s]
         \/ /\ rows[s].status \in {"absent", "failed"}
            /\ rows'[s].asked = version /\ rows'[s].status # "completed"
<1>0. rows \in [RowIds -> Row]
  BY DEF TypeOK
<1>1. ASSUME NEW scope \in Scopes, NEW status \in {"pending", "queued"}, Insert(scope, status)
      PROVE  \/ rows'[s] = rows[s]
             \/ /\ rows[s].status = "absent"
                /\ rows'[s].asked = version /\ rows'[s].status # "completed"
  BY <1>0, <1>1 DEF Insert, NewRow
<1>2. ASSUME NEW r \in RowIds, rows[r].status = "failed", rows' = Requeued(r)
      PROVE  \/ rows'[s] = rows[s]
             \/ /\ rows[s].status = "failed"
                /\ rows'[s].asked = version /\ rows'[s].status # "completed"
  BY <1>0, <1>2 DEF Requeued, Row
<1> QED BY <1>1, <1>2, RequestRows

\* ShownInv is an invariant.
THEOREM ShownInvariant ==
  ASSUME ~AdminMayRetry, \A p, q \in Engines : p = q, "save" \notin Faults
  PROVE  Spec => []ShownInv
<1>1. Init /\ HolderInv => ShownInv
  BY DEF Init, ShownInv, PastOnly, SeenIsFresh, SettlingIsShown, CompletedIsShown, IdleRun
<1>2. HolderInv /\ HolderInv' /\ ShownInv /\ [Next]_vars => ShownInv'
  <2> SUFFICES ASSUME HolderInv, HolderInv', ShownInv, [Next]_vars PROVE ShownInv'
    OBVIOUS
  <2>0. /\ TypeOK /\ TypeOK' /\ rows \in [RowIds -> Row]
        /\ version \in Nat /\ version' \in Nat /\ shown \in Nat
        /\ \A r \in RowIds : rows[r].asked \in Nat
        /\ \A p \in Engines : run[p].seen \in Nat
    <3>1. version' \in Nat
      BY MaxChangesAssumption DEF HolderInv, TypeOK, Versions
    <3> QED BY <3>1, VersionTypes DEF HolderInv, TypeOK
  <2>1. ASSUME version' >= version, UNCHANGED <<shown, run>>,
               \A s \in RowIds :
                 \/ rows'[s].asked = rows[s].asked /\ rows'[s].status = rows[s].status
                 \/ /\ rows[s].status \in {"absent", "failed"}
                    /\ rows'[s].asked = version /\ rows'[s].status # "completed"
        PROVE  ShownInv'
    <3>1. ASSUME NEW p \in Engines, run[p].row # NoClaim
          PROVE  rows'[run[p].row.id].asked = rows[run[p].row.id].asked
      <4>1. run[p].row \in Claims(p)
        BY <3>1 DEF Claims
      <4> QED BY <2>0, <2>1, <4>1, HeldRowExists DEF HolderInv, HeldIsOutOfQueue
    <3>2. PastOnly'
      BY <2>0, <2>1 DEF ShownInv, PastOnly
    <3>3. SeenIsFresh'
      BY <2>1, <3>1 DEF ShownInv, SeenIsFresh
    <3>4. SettlingIsShown'
      BY <2>1, <3>1 DEF ShownInv, SettlingIsShown, HolderInv, SettlesARow
    <3>5. CompletedIsShown'
      BY <2>0, <2>1 DEF ShownInv, CompletedIsShown
    <3> QED BY <3>2, <3>3, <3>4, <3>5 DEF ShownInv
  <2>2. ASSUME NEW c \in Clients, ClientNext(c) PROVE ShownInv'
    <3>1. ~RetryReset(c)
      BY DEF RetryReset, HolderInv, NoReset
    <3>2. UNCHANGED <<shown, run>> /\ (version' = version \/ version' = version + 1)
      BY <2>2 DEF ClientNext, Change, Enqueue, EnqueueLost, Ask, Promote, FanoutRead,
                  FanoutInsert, FanoutLost, RetryRead, RetryReset
    <3>3. version' >= version
      BY <2>0, <3>2
    <3>4. \A s \in RowIds :
            \/ rows'[s].asked = rows[s].asked /\ rows'[s].status = rows[s].status
            \/ /\ rows[s].status \in {"absent", "failed"}
               /\ rows'[s].asked = version /\ rows'[s].status # "completed"
      BY <2>0, <2>2, <3>1, RequestsAskForNow
    <3> QED BY <2>1, <3>2, <3>3, <3>4
  <2>3. ASSUME NEW p \in Engines, PassStep(p) \/ Direct(p) \/ Crash(p) PROVE ShownInv'
    BY <2>3, EnginesKeepShown
  <2>4. ASSUME NEW r \in RowIds, BackoffEnds(r) PROVE ShownInv'
    <3>1. \A s \in RowIds : rows'[s].asked = rows[s].asked /\ rows'[s].status = rows[s].status
      BY <2>0, <2>4 DEF BackoffEnds, Row
    <3> QED BY <2>0, <2>1, <2>4, <3>1 DEF BackoffEnds
  <2>5. CASE UNCHANGED vars
    BY <2>0, <2>1, <2>5 DEF vars
  <2> QED BY <2>2, <2>3, <2>4, <2>5, NextCases
<1> QED BY <1>1, <1>2, HolderInvariant, PTL DEF Spec

\* CompletedIsShown: a completed row keeps its word.
THEOREM CompletedIsShownHolds ==
  ASSUME ~AdminMayRetry, \A p, q \in Engines : p = q, "save" \notin Faults
  PROVE  Spec => []CompletedIsShown
<1>1. ShownInv => CompletedIsShown
  BY DEF ShownInv
<1> QED BY <1>1, ShownInvariant, PTL
=============================================================================
