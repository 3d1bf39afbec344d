------------------------ MODULE CurrentAffairsProofs ------------------------
(***************************************************************************)
(* Proofs about CurrentAffairs, for any questions, exams, bundles, periods *)
(* and requests: a mistake is reviewed at most once, for the exam it was   *)
(* made in, and is kept until it is or a newer one replaces it.            *)
(***************************************************************************)
EXTENDS CurrentAffairs, FiniteSetTheorems, TLAPS

\* A mistake on record: a wrong answer of a submitted attempt.
Recorded(q, w) == weekly[w].status = "submitted" /\ q \in weekly[w].rows

\* A row of the queue stands for a mistake, and has the exam of its attempt.
SourceInv ==
  \A q \in Questions : item[q].status # "none" =>
    /\ item[q].source \in Weeklies /\ Recorded(q, item[q].source)
    /\ item[q].exam = weekly[item[q].source].exam

\* A request about to start an attempt has a bundle.
RequestInv == \A r \in Requests : request[r].at = "start" => request[r].bundle \in Monthlies

\* The row of a mistake that was served is consumed, or belongs to a newer mistake.
ServedInv ==
  \A m \in Monthlies : \A x \in monthly[m].tail :
    /\ Recorded(x[1], x[2]) /\ weekly[x[2]].exam = monthly[m].exam
    /\ item[x[1]].status # "none"
    /\ \/ item[x[1]].source = x[2] /\ item[x[1]].status = "consumed"
       \/ Older(x[2], item[x[1]].source)

\* What the queue has seen is on record, and its row belongs to it or to a newer mistake.
QueuedInv ==
  \A x \in queued :
    /\ Recorded(x[1], x[2]) /\ item[x[1]].status # "none"
    /\ item[x[1]].source = x[2] \/ Older(x[2], item[x[1]].source)

\* A row is consumed by an attempt that shows it.
ConsumedInv ==
  \A q \in Questions : item[q].status = "consumed" =>
    \E m \in Monthlies : <<q, item[q].source>> \in monthly[m].tail

\* Attempts start one after the other.
ClockInv ==
  \A v \in Weeklies : weekly[v].status # "none" =>
    /\ weekly[v].started < now
    /\ \A u \in Weeklies :
         weekly[u].status # "none" /\ weekly[u].started = weekly[v].started => u = v

\* Only an attempt has a tail, and it is bounded.
CapInv ==
  \A m \in Monthlies : /\ Cardinality(monthly[m].tail) <= Cap
                       /\ monthly[m].tail # {} => monthly[m].started

ReviewInv ==
  /\ TypeOK /\ SourceInv /\ RequestInv /\ ServedInv /\ QueuedInv /\ ConsumedInv
  /\ ClockInv /\ CapInv /\ ReviewedOnce

-----------------------------------------------------------------------------
\* The order of mistakes is strict.
LEMMA OlderIsStrict ==
  ASSUME TypeOK
  PROVE  /\ \A w \in Weeklies : ~Older(w, w)
         /\ \A u, v, w \in Weeklies : Older(u, v) /\ Older(v, w) => Older(u, w)
<1>1. \A w \in Weeklies : weekly[w].period \in Nat /\ weekly[w].started \in Nat
  <2>1. \A w \in Weeklies : weekly[w].period \in Periods \cup {0} /\ weekly[w].started \in Nat
    BY DEF TypeOK, Weekly
  <2>2. Periods \cup {0} \subseteq Nat
    BY CurrentAffairsAssumption
  <2> QED BY <2>1, <2>2
<1>2. \A w \in Weeklies : ~Older(w, w)
  BY <1>1 DEF Older
<1>3. ASSUME NEW u \in Weeklies, NEW v \in Weeklies, NEW w \in Weeklies, Older(u, v), Older(v, w)
      PROVE  Older(u, w)
  <2>1. \A a, b, c, d, e, f \in Nat :
          (a < c \/ (a = c /\ b < d)) /\ (c < e \/ (c = e /\ d < f))
            => a < e \/ (a = e /\ b < f)
    OBVIOUS
  <2> QED BY <1>1, <1>3, <2>1 DEF Older
<1> QED BY <1>2, <1>3

\* Of two started attempts one is the older.
LEMMA AttemptsAreOrdered ==
  ASSUME TypeOK, ClockInv, NEW u \in Weeklies, NEW v \in Weeklies,
         weekly[u].status # "none", weekly[v].status # "none"
  PROVE  u = v \/ Older(u, v) \/ Older(v, u)
<1>1. Periods \cup {0} \subseteq Nat
  BY CurrentAffairsAssumption
<1>2. /\ weekly[u].period \in Periods \cup {0} /\ weekly[v].period \in Periods \cup {0}
      /\ weekly[u].started \in Nat /\ weekly[v].started \in Nat
  BY DEF TypeOK, Weekly
<1>3. weekly[u].period \in Nat /\ weekly[v].period \in Nat
  BY <1>1, <1>2
<1>4. u = v \/ weekly[u].started # weekly[v].started
  BY DEF ClockInv
<1> QED BY <1>2, <1>3, <1>4 DEF Older

\* What a record keeps while an attempt only starts or is submitted.
LEMMA RecordsStay ==
  ASSUME TypeOK, NEW w \in Weeklies, NEW a,
         weekly[w].status # "submitted", weekly' = [weekly EXCEPT ![w] = a]
  PROVE  /\ \A v \in Weeklies : weekly[v].status = "submitted" => weekly'[v] = weekly[v]
         /\ \A u, v \in Weeklies : weekly[u].status = "submitted" /\ weekly[v].status = "submitted"
              => (Older(u, v) <=> Older(u, v)')
<1>1. \A v \in Weeklies : weekly[v].status = "submitted" => weekly'[v] = weekly[v]
  BY DEF TypeOK
<1> QED BY <1>1 DEF Older

-----------------------------------------------------------------------------
(* Types.                                                                  *)

\* A row of the queue names the attempt it comes from.
TypeInv ==
  TypeOK /\ \A q \in Questions : item[q].status # "none" => item[q].source \in Weeklies

LEMMA ReviewTypes == Spec => []TypeInv
<1>1. Init => TypeInv
  BY CurrentAffairsAssumption
     DEF Init, TypeInv, TypeOK, Weekly, NoWeekly, Item, NoItem, Monthly, NoMonthly, Request, Idle
<1>2. ASSUME TypeInv, [Next]_vars PROVE TypeInv'
  <2> USE <1>2, CurrentAffairsAssumption DEF TypeInv, TypeOK
  <2>1. ASSUME NEW q \in Questions, Degrade(q) \/ Restore(q) PROVE TypeInv'
    BY <2>1 DEF Degrade, Restore, Edit
  <2>2. ASSUME NEW q \in Questions, FallDue(q) PROVE TypeInv'
    BY <2>2 DEF FallDue, Item
  <2>3. ASSUME NEW m \in Monthlies, NEW S \in SUBSET Questions, Publish(m, S) PROVE TypeInv'
    BY <2>3 DEF Publish, Edit
  <2>4. ASSUME NEW w \in Weeklies, NEW e \in Exams, NEW p \in Periods, NEW S \in SUBSET Questions,
               StartWeekly(w, e, p, S)
        PROVE  TypeInv'
    <3>1. [status |-> "in_progress", exam |-> e, period |-> p, started |-> now, rows |-> S] \in Weekly
      BY DEF Weekly
    <3> QED BY <2>4, <3>1 DEF StartWeekly
  <2>5. ASSUME NEW w \in Weeklies, NEW W \in SUBSET Questions, Enqueue(w, W)
        PROVE  item' \in [Questions -> Item] /\ queued' \subseteq Questions \X Weeklies
               /\ \A q \in Questions : item'[q].status # "none" => item'[q].source \in Weeklies
    <3>1. [status |-> "pending", due |-> FALSE, exam |-> weekly[w].exam, source |-> w] \in Item
      BY DEF Weekly, Item
    <3> QED BY <2>5, <3>1 DEF Enqueue
  <2>6. ASSUME NEW w \in Weeklies, NEW W \in SUBSET Questions, Submit(w, W) PROVE TypeInv'
    <3>0. weekly[w] \in Weekly
      OBVIOUS
    <3>4. [weekly[w] EXCEPT !.status = "submitted", !.rows = W] \in Weekly
      BY <3>0 DEF Weekly
    <3>1. weekly' \in [Weeklies -> Weekly]
      BY <2>6, <3>4 DEF Submit
    <3>2. Enqueue(w, W)
      BY <2>6 DEF Submit
    <3> QED BY <2>6, <3>1, <3>2, <2>5 DEF Submit
  <2>7. ASSUME NEW w \in Weeklies, Resubmit(w) PROVE TypeInv'
    <3>1. weekly[w].rows \in SUBSET Questions /\ Enqueue(w, weekly[w].rows)
      BY <2>7 DEF Resubmit, Weekly
    <3>2. /\ item' \in [Questions -> Item] /\ queued' \subseteq Questions \X Weeklies
          /\ \A q \in Questions : item'[q].status # "none" => item'[q].source \in Weeklies
      BY <3>1, <2>5
    <3> QED BY <2>7, <3>2 DEF Resubmit
  <2>8. ASSUME Sweep PROVE TypeInv'
    <3>1. \A q \in Questions : [item[q] EXCEPT !.status = "expired"] \in Item
      BY DEF Item
    <3> QED BY <2>8, <3>1 DEF Sweep
  <2>9. ASSUME NEW r \in Requests, NEW m \in Monthlies, NEW e \in Exams, BeginMonthly(r, m, e)
        PROVE  TypeInv'
    <3>1. PICK S \in SUBSET Questions :
            request' = [request EXCEPT ![r] = [at |-> "start", bundle |-> m, exam |-> e,
                                               core |-> core[m], tail |-> S]]
      BY <2>9 DEF BeginMonthly
    <3>2. [at |-> "start", bundle |-> m, exam |-> e, core |-> core[m], tail |-> S] \in Request
      BY DEF Request
    <3> QED BY <2>9, <3>1, <3>2 DEF BeginMonthly
  <2>10. ASSUME NEW r \in Requests PROVE Ended(r) \in [Requests -> Request]
    BY DEF Ended, Idle, Request
  <2>11. ASSUME NEW r \in Requests, StartMonthly(r) PROVE TypeInv'
    <3>1. request[r].exam \in Exams \cup {None} /\ request[r].tail \subseteq Questions
      BY DEF Request
    <3>2. \A q \in request[r].tail : item[q].status # "none"
      BY <2>11 DEF StartMonthly, Admits, Claimable
    <3>3. {<<q, item[q].source>> : q \in request[r].tail} \subseteq Questions \X Weeklies
      BY <3>1, <3>2
    <3>4. [started |-> TRUE, exam |-> request[r].exam,
           tail |-> {<<q, item[q].source>> : q \in request[r].tail}] \in Monthly
      BY <3>1, <3>3 DEF Monthly
    <3>5. monthly' \in [Monthlies -> Monthly]
      BY <2>11, <3>4 DEF StartMonthly
    <3>6. \A q \in Questions : [item[q] EXCEPT !.status = "consumed"] \in Item
      BY DEF Item
    <3>7. \A q \in Questions : item'[q] = IF q \in request[r].tail
                                        THEN [item[q] EXCEPT !.status = "consumed"] ELSE item[q]
      BY <2>11 DEF StartMonthly
    <3>8. /\ item' \in [Questions -> Item]
          /\ \A q \in Questions : item'[q].status # "none" => item'[q].source \in Weeklies
      BY <2>11, <3>2, <3>6, <3>7 DEF StartMonthly, Item
    <3> QED BY <2>11, <2>10, <3>5, <3>8 DEF StartMonthly
  <2>12. ASSUME NEW r \in Requests, EndRequest(r) PROVE TypeInv'
    BY <2>12, <2>10 DEF EndRequest
  <2>13. ASSUME UNCHANGED vars PROVE TypeInv'
    BY <2>13 DEF vars
  <2> QED BY <2>1, <2>2, <2>3, <2>4, <2>6, <2>7, <2>8, <2>9, <2>11, <2>12, <2>13
          DEF Next, Editorial, WeeklyStep, MonthlyStep
<1> QED BY <1>1, <1>2, PTL DEF Spec

\* Every reachable state is well typed.
THEOREM ReviewTypeCorrect == Spec => []TypeOK
<1>1. TypeInv => TypeOK
  BY DEF TypeInv
<1> QED BY <1>1, ReviewTypes, PTL

-----------------------------------------------------------------------------
(* What the steps keep.                                                    *)

\* A step that changes neither attempts nor rows.
LEMMA QuietStep ==
  ASSUME ReviewInv, TypeOK', RequestInv', UNCHANGED <<weekly, now, item, monthly, queued>>
  PROVE  ReviewInv'
<1>1. \A u, v \in Weeklies \cup {None} : Older(u, v)' <=> Older(u, v)
  BY DEF Older
<1>2. \A q, w : Recorded(q, w)' <=> Recorded(q, w)
  BY DEF Recorded
<1>3. /\ SourceInv' /\ ServedInv' /\ QueuedInv' /\ ConsumedInv' /\ ClockInv' /\ CapInv'
      /\ ReviewedOnce'
  BY DEF ReviewInv, SourceInv, ServedInv, QueuedInv, ConsumedInv, ClockInv, CapInv,
         ReviewedOnce, Recorded, Older
<1> QED BY <1>3 DEF ReviewInv

\* A step after which every row has its mistake and, as it was, is or is not consumed.
LEMMA RowsKeepMistakes ==
  ASSUME ReviewInv, TypeOK', UNCHANGED <<weekly, now, monthly, request, queued>>,
         \A q \in Questions :
           /\ item'[q].source = item[q].source /\ item'[q].exam = item[q].exam
           /\ item'[q].status = "none" <=> item[q].status = "none"
           /\ item'[q].status = "consumed" <=> item[q].status = "consumed"
  PROVE  ReviewInv'
<1> USE DEF ReviewInv
<1>1. \A m \in Monthlies : \A x \in monthly[m].tail : x[1] \in Questions
  BY DEF TypeOK, Monthly
<1>2. \A x \in queued : x[1] \in Questions
  BY DEF TypeOK
<1>3. SourceInv'
  BY DEF SourceInv, Recorded
<1>4. ServedInv'
  BY <1>1 DEF ServedInv, Recorded, Older
<1>5. QueuedInv'
  BY <1>2 DEF QueuedInv, Recorded, Older
<1>6. RequestInv' /\ ConsumedInv' /\ ClockInv' /\ CapInv' /\ ReviewedOnce'
  BY DEF RequestInv, ConsumedInv, ClockInv, CapInv, ReviewedOnce
<1> QED BY <1>3, <1>4, <1>5, <1>6

\* Starting an attempt touches no record.
LEMMA StartKeeps ==
  ASSUME ReviewInv, TypeOK', NEW w \in Weeklies, NEW e \in Exams, NEW p \in Periods,
         NEW S \in SUBSET Questions, StartWeekly(w, e, p, S)
  PROVE  ReviewInv'
<1> USE DEF ReviewInv
<1>1. /\ \A v \in Weeklies : weekly[v].status = "submitted" => weekly'[v] = weekly[v]
      /\ \A u, v \in Weeklies : weekly[u].status = "submitted" /\ weekly[v].status = "submitted"
           => (Older(u, v) <=> Older(u, v)')
  BY RecordsStay DEF StartWeekly
<1>2. UNCHANGED <<item, monthly, request, queued>>
  BY DEF StartWeekly
<1>3. \A m \in Monthlies : \A x \in monthly[m].tail : x[1] \in Questions /\ x[2] \in Weeklies
  BY DEF TypeOK, Monthly
<1>4. \A x \in queued : x[1] \in Questions /\ x[2] \in Weeklies
  BY DEF TypeOK
<1>5. \A q \in Questions, v \in Weeklies : Recorded(q, v) => Recorded(q, v)'
  BY <1>1 DEF Recorded
<1>6. SourceInv'
  BY <1>1, <1>2, <1>5 DEF SourceInv, Recorded
<1>7. ServedInv'
  <2> SUFFICES ASSUME NEW m \in Monthlies, NEW x \in monthly[m].tail
               PROVE  /\ Recorded(x[1], x[2])' /\ weekly'[x[2]].exam = monthly[m].exam
                      /\ item[x[1]].status # "none"
                      /\ \/ item[x[1]].source = x[2] /\ item[x[1]].status = "consumed"
                         \/ Older(x[2], item[x[1]].source)'
    BY <1>2 DEF ServedInv, Older
  <2>1. x[1] \in Questions /\ x[2] \in Weeklies
    BY <1>3
  <2>2. Recorded(x[1], x[2]) /\ weekly[x[2]].exam = monthly[m].exam /\ item[x[1]].status # "none"
    BY DEF ServedInv
  <2>3. item[x[1]].source \in Weeklies /\ weekly[item[x[1]].source].status = "submitted"
    BY <2>1, <2>2 DEF SourceInv, Recorded
  <2> QED BY <1>1, <1>2, <1>5, <2>1, <2>2, <2>3 DEF ServedInv, Recorded
<1>8. QueuedInv'
  <2> SUFFICES ASSUME NEW x \in queued
               PROVE  /\ Recorded(x[1], x[2])' /\ item[x[1]].status # "none"
                      /\ item[x[1]].source = x[2] \/ Older(x[2], item[x[1]].source)'
    BY <1>2 DEF QueuedInv, Older
  <2>1. x[1] \in Questions /\ x[2] \in Weeklies
    BY <1>4
  <2>2. Recorded(x[1], x[2]) /\ item[x[1]].status # "none"
    BY DEF QueuedInv
  <2>3. item[x[1]].source \in Weeklies /\ weekly[item[x[1]].source].status = "submitted"
    BY <2>1, <2>2 DEF SourceInv, Recorded
  <2> QED BY <1>1, <1>2, <1>5, <2>1, <2>2, <2>3 DEF QueuedInv, Recorded
<1>9. RequestInv' /\ ConsumedInv' /\ CapInv' /\ ReviewedOnce'
  BY <1>2 DEF RequestInv, ConsumedInv, CapInv, ReviewedOnce
<1>10. ClockInv'
  <2>1. \A v \in Weeklies \ {w} : weekly'[v] = weekly[v]
    BY DEF StartWeekly, TypeOK
  <2>2. weekly'[w].started = now /\ now' = now + 1 /\ now \in Nat
    BY DEF StartWeekly, TypeOK
  <2>3. \A v \in Weeklies : weekly[v].started \in Nat
    BY DEF TypeOK, Weekly
  <2>4. ASSUME NEW v \in Weeklies, weekly'[v].status # "none" PROVE weekly'[v].started < now'
    <3>1. CASE v = w
      BY <2>2, <3>1
    <3>2. CASE v # w
      <4>1. weekly'[v] = weekly[v] /\ weekly[v].started < now
        BY <2>1, <2>4, <3>2 DEF ClockInv
      <4> QED BY <4>1, <2>2, <2>3
    <3> QED BY <3>1, <3>2
  <2>5. ASSUME NEW v \in Weeklies, v # w, weekly'[v].status # "none"
        PROVE  weekly'[v].started < now
    BY <2>1, <2>5 DEF ClockInv
  <2>6. ASSUME NEW u \in Weeklies, NEW v \in Weeklies, weekly'[u].status # "none",
               weekly'[v].status # "none", weekly'[u].started = weekly'[v].started
        PROVE  u = v
    <3>1. CASE u # w /\ v # w
      BY <2>1, <2>6, <3>1 DEF ClockInv
    <3>2. CASE u = w \/ v = w
      BY <2>2, <2>5, <2>6, <3>2
    <3> QED BY <3>1, <3>2
  <2> QED BY <2>4, <2>6 DEF ClockInv
<1> QED BY <1>6, <1>7, <1>8, <1>9, <1>10

\* A submission, the first or a repeated one: its attempt is on record afterwards, the
\* other attempts and the order are as they were, and a row changes hands only to a
\* newer mistake.
LEMMA EnqueueKeeps ==
  ASSUME ReviewInv, TypeOK', NEW w \in Weeklies, NEW W \in SUBSET Questions,
         Enqueue(w, W), UNCHANGED <<now, monthly, request>>, weekly[w].status # "none",
         weekly'[w].status = "submitted", weekly'[w].rows = W,
         weekly[w].status = "submitted" => weekly[w].rows = W,
         \A v \in Weeklies \ {w} : weekly'[v] = weekly[v],
         weekly'[w].exam = weekly[w].exam,
         weekly'[w].period = weekly[w].period, weekly'[w].started = weekly[w].started
  PROVE  ReviewInv'
<1> USE DEF ReviewInv
<1>3. \A v \in Weeklies : /\ weekly'[v].exam = weekly[v].exam
                          /\ weekly'[v].period = weekly[v].period
                          /\ weekly'[v].started = weekly[v].started
  <2> TAKE v \in Weeklies
  <2>1. CASE v = w
    BY <2>1
  <2>2. CASE v # w
    <3>1. v \in Weeklies \ {w}
      BY <2>2
    <3>2. weekly'[v] = weekly[v]
      BY <3>1
    <3> QED BY <3>2
  <2> QED BY <2>1, <2>2
<1>1. \A u, v \in Weeklies : Older(u, v)' <=> Older(u, v)
  BY <1>3 DEF Older
<1>2. ASSUME NEW q \in Questions, NEW v \in Weeklies, Recorded(q, v) PROVE Recorded(q, v)'
  <2>1. CASE v = w
    BY <1>2, <2>1 DEF Recorded
  <2>2. CASE v # w
    <3>1. v \in Weeklies \ {w}
      BY <2>2
    <3>2. weekly'[v] = weekly[v]
      BY <3>1
    <3> QED BY <1>2, <3>2 DEF Recorded
  <2> QED BY <2>1, <2>2
<1>4. \A q \in Questions :
        \/ item'[q] = item[q] /\ (q \in W \cap relevant => ~Taken(q, w))
        \/ /\ q \in W /\ Taken(q, w)
           /\ item'[q].status = "pending" /\ item'[q].source = w /\ item'[q].exam = weekly[w].exam
  BY DEF Enqueue
<1>5. SourceInv'
  <2> SUFFICES ASSUME NEW q \in Questions, item'[q].status # "none"
               PROVE  /\ item'[q].source \in Weeklies /\ Recorded(q, item[q].source)'
                      /\ item'[q].exam = weekly'[item'[q].source].exam
    BY DEF SourceInv, Recorded
  <2>1. CASE item'[q] = item[q]
    BY <2>1, <1>2, <1>3 DEF SourceInv, Recorded
  <2>2. CASE q \in W /\ item'[q].source = w /\ item'[q].exam = weekly[w].exam
    BY <2>2, <1>3 DEF Recorded
  <2> QED BY <2>1, <2>2, <1>4
\* A mistake whose row is its own or a newer one's stays so.
<1>6. ASSUME NEW q \in Questions, NEW v \in Weeklies, item[q].status # "none",
             item[q].source = v \/ Older(v, item[q].source)
      PROVE  /\ item'[q].status # "none"
             /\ item'[q] = item[q] \/ Older(v, item[q].source)'
             /\ item'[q].source = v \/ Older(v, item[q].source)'
  <2>1. item[q].source \in Weeklies
    BY <1>6 DEF SourceInv
  <2>2. CASE item'[q] = item[q]
    BY <2>1, <2>2, <1>1, <1>6
  <2>3. CASE Taken(q, w) /\ item'[q].status = "pending" /\ item'[q].source = w
    <3>1. Older(item[q].source, w)
      BY <2>3, <1>6 DEF Taken
    <3>2. Older(v, w)
      BY <2>1, <3>1, <1>6, OlderIsStrict
    <3> QED BY <2>3, <3>2, <1>1
  <2> QED BY <2>2, <2>3, <1>4
<1>7. ServedInv'
  <2> SUFFICES ASSUME NEW m \in Monthlies, NEW x \in monthly[m].tail
               PROVE  /\ Recorded(x[1], x[2])' /\ weekly'[x[2]].exam = monthly[m].exam
                      /\ item'[x[1]].status # "none"
                      /\ \/ item'[x[1]].source = x[2] /\ item'[x[1]].status = "consumed"
                         \/ Older(x[2], item[x[1]].source)'
    BY DEF ServedInv, Older
  <2>1. x[1] \in Questions /\ x[2] \in Weeklies
    BY DEF TypeOK, Monthly
  <2>2. /\ Recorded(x[1], x[2]) /\ weekly[x[2]].exam = monthly[m].exam
        /\ item[x[1]].status # "none"
        /\ \/ item[x[1]].source = x[2] /\ item[x[1]].status = "consumed"
           \/ Older(x[2], item[x[1]].source)
    BY DEF ServedInv
  <2>3. /\ item'[x[1]].status # "none"
        /\ item'[x[1]] = item[x[1]] \/ Older(x[2], item[x[1]].source)'
        /\ item'[x[1]].source = x[2] \/ Older(x[2], item[x[1]].source)'
    BY <2>1, <2>2, <1>6
  <2>4. Recorded(x[1], x[2])' /\ weekly'[x[2]].exam = monthly[m].exam
    BY <2>1, <2>2, <1>2, <1>3
  <2>5. CASE item'[x[1]] = item[x[1]] /\ Older(x[2], item[x[1]].source)
    <3>1. item[x[1]].source \in Weeklies
      BY <2>1, <2>2 DEF SourceInv
    <3> QED BY <2>1, <2>3, <2>4, <2>5, <3>1, <1>1
  <2>6. CASE item'[x[1]] = item[x[1]] /\ item[x[1]].source = x[2] /\ item[x[1]].status = "consumed"
    BY <2>3, <2>4, <2>6
  <2>7. CASE Older(x[2], item[x[1]].source)'
    BY <2>3, <2>4, <2>7
  <2> QED BY <2>2, <2>3, <2>5, <2>6, <2>7
<1>8. QueuedInv'
  <2> SUFFICES ASSUME NEW x \in queued'
               PROVE  /\ Recorded(x[1], x[2])' /\ item'[x[1]].status # "none"
                      /\ item'[x[1]].source = x[2] \/ Older(x[2], item[x[1]].source)'
    BY DEF QueuedInv, Older
  <2>1. CASE x \in queued
    <3>1. x[1] \in Questions /\ x[2] \in Weeklies
      BY <2>1 DEF TypeOK
    <3> QED BY <2>1, <3>1, <1>2, <1>6 DEF QueuedInv
  <2>2. CASE x \in (W \cap relevant) \X {w}
    <3>1. x[1] \in W \cap relevant /\ x[1] \in Questions /\ x[2] = w
      BY <2>2
    <3>2. Recorded(x[1], x[2])'
      BY <3>1 DEF Recorded
    <3>3. CASE item'[x[1]].status = "pending" /\ item'[x[1]].source = w
      BY <3>1, <3>2, <3>3
    <3>4. CASE item'[x[1]] = item[x[1]] /\ ~Taken(x[1], w)
      <4>1. item[x[1]].status # "none" /\ ~Older(item[x[1]].source, w)
        BY <3>4 DEF Taken
      <4>2. item[x[1]].source \in Weeklies
        BY <3>1, <4>1 DEF SourceInv
      <4>3. item[x[1]].source = w \/ Older(w, item[x[1]].source)
        <5>1. weekly[item[x[1]].source].status # "none"
          BY <3>1, <4>1 DEF SourceInv, Recorded
        <5>2. \A u \in Weeklies : weekly[u].status # "none" => u = w \/ Older(u, w) \/ Older(w, u)
          BY AttemptsAreOrdered
        <5> QED BY <4>1, <4>2, <5>1, <5>2
      <4> QED BY <3>1, <3>2, <3>4, <4>1, <4>2, <4>3, <1>1
    <3> QED BY <3>1, <3>3, <3>4, <1>4
  <2> QED BY <2>1, <2>2 DEF Enqueue
<1>9. ConsumedInv'
  <2> SUFFICES ASSUME NEW q \in Questions, item'[q].status = "consumed"
               PROVE  \E m \in Monthlies : <<q, item'[q].source>> \in monthly[m].tail
    BY DEF ConsumedInv
  <2>1. item'[q] = item[q]
    BY <1>4
  <2> QED BY <2>1 DEF ConsumedInv
<1>10. ClockInv'
  <2>1. \A v \in Weeklies : weekly'[v].status # "none" => weekly[v].status # "none"
    <3> TAKE v \in Weeklies
    <3>1. CASE v = w
      BY <3>1
    <3>2. CASE v # w
      <4>1. v \in Weeklies \ {w}
        BY <3>2
      <4> QED BY <4>1
    <3> QED BY <3>1, <3>2
  <2> QED BY <2>1, <1>3 DEF ClockInv
<1>11. RequestInv' /\ CapInv' /\ ReviewedOnce'
  BY DEF RequestInv, CapInv, ReviewedOnce
<1> QED BY <1>5, <1>7, <1>8, <1>9, <1>10, <1>11

\* A monthly attempt starts with rows that belong to mistakes no other attempt has shown.
LEMMA MonthlyKeeps ==
  ASSUME ReviewInv, TypeOK', NEW r \in Requests, StartMonthly(r)
  PROVE  ReviewInv'
<1> USE DEF ReviewInv
<1> DEFINE b == request[r].bundle
           T == request[r].tail
           S == {<<q, item[q].source>> : q \in T}
<1>1. /\ b \in Monthlies /\ T \subseteq Questions /\ Cardinality(T) <= Cap
      /\ ~monthly[b].started
  BY DEF StartMonthly, Admits, RequestInv, TypeOK, Request
<1>2. UNCHANGED <<weekly, now, queued>>
  BY DEF StartMonthly
<1>3. /\ monthly'[b].tail = S /\ monthly'[b].exam = request[r].exam
      /\ \A m \in Monthlies : m # b => monthly'[m] = monthly[m]
  BY <1>1 DEF StartMonthly, TypeOK
<1>4. \A q \in T : item[q].status = "pending" /\ item[q].exam = request[r].exam
  BY DEF StartMonthly, Admits, Claimable
<1>5. \A q \in Questions :
        /\ item'[q].source = item[q].source /\ item'[q].exam = item[q].exam
        /\ item'[q].status = IF q \in T THEN "consumed" ELSE item[q].status
  BY DEF StartMonthly, TypeOK, Item
<1>6. SourceInv'
  BY <1>2, <1>4, <1>5 DEF SourceInv, Recorded
\* The rows in question are nobody's who was served before.
<1>7. ASSUME NEW m \in Monthlies, NEW x \in monthly[m].tail PROVE x \notin S
  <2>1. SUFFICES ASSUME x \in S PROVE FALSE
    OBVIOUS
  <2>2. PICK q \in T : x = <<q, item[q].source>>
    BY <2>1
  <2>3. x[1] = q /\ x[2] = item[q].source /\ q \in Questions
    BY <2>2, <1>1
  <2>4. item[q].status = "pending" /\ item[q].source \in Weeklies
    BY <2>3, <1>4 DEF SourceInv
  <2>5. Older(item[q].source, item[q].source)
    BY <2>3, <2>4 DEF ServedInv
  <2> QED BY <2>4, <2>5, OlderIsStrict
<1>8. ServedInv'
  <2> SUFFICES ASSUME NEW m \in Monthlies, NEW x \in monthly'[m].tail
               PROVE  /\ Recorded(x[1], x[2]) /\ weekly[x[2]].exam = monthly'[m].exam
                      /\ item'[x[1]].status # "none"
                      /\ \/ item'[x[1]].source = x[2] /\ item'[x[1]].status = "consumed"
                         \/ Older(x[2], item'[x[1]].source)
    BY <1>2 DEF ServedInv, Older, Recorded
  <2>1. CASE m = b
    <3>1. PICK q \in T : x = <<q, item[q].source>>
      BY <2>1, <1>3
    <3>2. x[1] = q /\ x[2] = item[q].source /\ q \in Questions
      BY <3>1, <1>1
    <3> QED BY <2>1, <3>2, <1>3, <1>4, <1>5 DEF SourceInv
  <2>2. CASE m # b
    <3>1. x \in monthly[m].tail /\ monthly'[m] = monthly[m]
      BY <2>2, <1>3
    <3>2. x[1] \in Questions
      BY <3>1 DEF TypeOK, Monthly
    <3> QED BY <3>1, <3>2, <1>5 DEF ServedInv
  <2> QED BY <2>1, <2>2
<1>9. QueuedInv'
  <2>1. \A x \in queued : x[1] \in Questions
    BY DEF TypeOK
  <2> QED BY <2>1, <1>2, <1>5 DEF QueuedInv, Recorded, Older
<1>10. ConsumedInv'
  <2> SUFFICES ASSUME NEW q \in Questions, item'[q].status = "consumed"
               PROVE  \E m \in Monthlies : <<q, item[q].source>> \in monthly'[m].tail
    BY <1>5 DEF ConsumedInv
  <2>1. CASE q \in T
    BY <2>1, <1>1, <1>3
  <2>2. CASE q \notin T
    <3>1. PICK m \in Monthlies : <<q, item[q].source>> \in monthly[m].tail
      BY <2>2, <1>5 DEF ConsumedInv
    <3>2. m # b
      BY <3>1, <1>1 DEF CapInv
    <3> QED BY <3>1, <3>2, <1>3
  <2> QED BY <2>1, <2>2
<1>11. Cardinality(S) <= Cap
  <2> DEFINE f == [q \in T |-> <<q, item[q].source>>]
  <2>1. IsFiniteSet(T)
    BY <1>1, CurrentAffairsAssumption, FS_Subset
  <2>2. f \in Surjection(T, S)
    BY DEF Surjection
  <2>3. Cardinality(S) <= Cardinality(T) /\ IsFiniteSet(S)
    BY <2>1, <2>2, FS_Surjection
  <2>4. Cardinality(S) \in Nat /\ Cardinality(T) \in Nat /\ Cap \in Nat
    BY <2>1, <2>3, FS_CardinalityType, CurrentAffairsAssumption
  <2> QED BY <1>1, <2>3, <2>4
<1>12. CapInv'
  <2> SUFFICES ASSUME NEW m \in Monthlies
               PROVE  /\ Cardinality(monthly'[m].tail) <= Cap
                      /\ monthly'[m].tail # {} => monthly'[m].started
    BY DEF CapInv
  <2>1. CASE m = b
    <3>1. monthly'[b].started
      BY <1>1 DEF StartMonthly, TypeOK
    <3> QED BY <2>1, <3>1, <1>3, <1>11
  <2>2. CASE m # b
    BY <2>2, <1>3 DEF CapInv
  <2> QED BY <2>1, <2>2
<1>13. ReviewedOnce'
  BY <1>1, <1>3, <1>7 DEF ReviewedOnce
<1>14. RequestInv' /\ ClockInv'
  BY <1>2 DEF StartMonthly, Ended, Idle, RequestInv, ClockInv, TypeOK
<1> QED BY <1>6, <1>8, <1>9, <1>10, <1>12, <1>13, <1>14

LEMMA ReviewStarts == Init => ReviewInv
<1> SUFFICES ASSUME Init PROVE ReviewInv
  OBVIOUS
<1>1. TypeOK
  BY CurrentAffairsAssumption
     DEF Init, TypeOK, Weekly, NoWeekly, Item, NoItem, Monthly, NoMonthly, Request, Idle
<1>2. Cardinality({}) = 0 /\ Cap \in Nat
  BY FS_EmptySet, CurrentAffairsAssumption
<1>3. CapInv /\ ServedInv /\ ReviewedOnce
  <2>1. \A m \in Monthlies : monthly[m].tail = {}
    BY DEF Init, NoMonthly
  <2>2. \A m \in Monthlies : Cardinality(monthly[m].tail) <= Cap
    <3>1. 0 <= Cap
      BY <1>2
    <3> QED BY <2>1, <1>2, <3>1
  <2> QED BY <2>1, <2>2 DEF CapInv, ServedInv, ReviewedOnce
<1>4. SourceInv /\ QueuedInv /\ ConsumedInv /\ ClockInv /\ RequestInv
  BY DEF Init, NoItem, NoWeekly, Idle, SourceInv, QueuedInv, ConsumedInv, ClockInv, RequestInv
<1> QED BY <1>1, <1>3, <1>4 DEF ReviewInv

LEMMA ReviewSteps == ReviewInv /\ TypeOK' /\ [Next]_vars => ReviewInv'
<1> SUFFICES ASSUME ReviewInv, TypeOK', [Next]_vars PROVE ReviewInv'
  OBVIOUS
<1>0. RequestInv /\ TypeOK
  BY DEF ReviewInv
<1>1. ASSUME NEW q \in Questions, Degrade(q) \/ Restore(q) PROVE ReviewInv'
  <2>1. RequestInv' /\ UNCHANGED <<weekly, now, item, monthly, queued>>
    BY <1>0, <1>1 DEF Degrade, Restore, RequestInv
  <2> QED BY <2>1, QuietStep
<1>2. ASSUME NEW m \in Monthlies, NEW S \in SUBSET Questions, Publish(m, S) PROVE ReviewInv'
  <2>1. RequestInv' /\ UNCHANGED <<weekly, now, item, monthly, queued>>
    BY <1>0, <1>2 DEF Publish, RequestInv
  <2> QED BY <2>1, QuietStep
<1>3. ASSUME NEW r \in Requests, NEW m \in Monthlies, NEW e \in Exams, BeginMonthly(r, m, e)
      PROVE  ReviewInv'
  <2>1. PICK S : request' = [request EXCEPT ![r] = [at |-> "start", bundle |-> m, exam |-> e,
                                                    core |-> core[m], tail |-> S]]
    BY <1>3 DEF BeginMonthly
  <2>2. RequestInv' /\ UNCHANGED <<weekly, now, item, monthly, queued>>
    BY <1>0, <1>3, <2>1 DEF BeginMonthly, RequestInv, TypeOK
  <2> QED BY <2>2, QuietStep
<1>4. ASSUME NEW r \in Requests, EndRequest(r) PROVE ReviewInv'
  <2>1. RequestInv' /\ UNCHANGED <<weekly, now, item, monthly, queued>>
    BY <1>0, <1>4 DEF EndRequest, Ended, Idle, RequestInv, TypeOK
  <2> QED BY <2>1, QuietStep
<1>5. ASSUME NEW q \in Questions, FallDue(q) PROVE ReviewInv'
  <2>1. \A p \in Questions :
          /\ item'[p].source = item[p].source /\ item'[p].exam = item[p].exam
          /\ item'[p].status = item[p].status
    BY <1>0, <1>5 DEF FallDue, TypeOK, Item
  <2> QED BY <1>5, <2>1, RowsKeepMistakes DEF FallDue
<1>6. ASSUME Sweep PROVE ReviewInv'
  <2>1. \A p \in Questions :
          /\ item'[p].source = item[p].source /\ item'[p].exam = item[p].exam
          /\ item'[p].status = "none" <=> item[p].status = "none"
          /\ item'[p].status = "consumed" <=> item[p].status = "consumed"
    BY <1>0, <1>6 DEF Sweep, TypeOK, Item
  <2> QED BY <1>6, <2>1, RowsKeepMistakes DEF Sweep
<1>7. ASSUME NEW w \in Weeklies, NEW e \in Exams, NEW p \in Periods, NEW S \in SUBSET Questions,
             StartWeekly(w, e, p, S)
      PROVE  ReviewInv'
  BY <1>7, StartKeeps
<1>8. ASSUME NEW w \in Weeklies, NEW W \in SUBSET Questions, Submit(w, W) PROVE ReviewInv'
  <2>1. /\ weekly[w].status = "in_progress" /\ Enqueue(w, W)
        /\ UNCHANGED <<now, monthly, request>>
    BY <1>8 DEF Submit
  <2>2. weekly[w] \in Weekly
    BY <1>0 DEF TypeOK
  <2>3. /\ weekly'[w] = [weekly[w] EXCEPT !.status = "submitted", !.rows = W]
        /\ \A v \in Weeklies \ {w} : weekly'[v] = weekly[v]
    BY <1>0, <1>8 DEF Submit, TypeOK
  <2>4. /\ weekly'[w].status = "submitted" /\ weekly'[w].rows = W
        /\ weekly'[w].exam = weekly[w].exam /\ weekly'[w].period = weekly[w].period
        /\ weekly'[w].started = weekly[w].started
    BY <2>2, <2>3 DEF Weekly
  <2> QED BY <2>1, <2>3, <2>4, EnqueueKeeps
<1>9. ASSUME NEW w \in Weeklies, Resubmit(w) PROVE ReviewInv'
  <2> DEFINE W == weekly[w].rows
  <2>1. /\ weekly[w].status = "submitted" /\ Enqueue(w, W) /\ W \in SUBSET Questions
        /\ UNCHANGED <<weekly, now, monthly, request>>
    BY <1>0, <1>9 DEF Resubmit, TypeOK, Weekly
  <2>2. /\ weekly'[w].status = "submitted" /\ weekly'[w].rows = W
        /\ \A v \in Weeklies \ {w} : weekly'[v] = weekly[v]
        /\ weekly'[w].exam = weekly[w].exam /\ weekly'[w].period = weekly[w].period
        /\ weekly'[w].started = weekly[w].started
    BY <2>1
  <2> QED BY <2>1, <2>2, EnqueueKeeps
<1>10. ASSUME NEW r \in Requests, StartMonthly(r) PROVE ReviewInv'
  BY <1>10, MonthlyKeeps
<1>11. CASE UNCHANGED vars
  <2>1. RequestInv' /\ UNCHANGED <<weekly, now, item, monthly, queued>>
    BY <1>0, <1>11 DEF vars, RequestInv
  <2> QED BY <2>1, QuietStep
<1> QED BY <1>1, <1>2, <1>3, <1>4, <1>5, <1>6, <1>7, <1>8, <1>9, <1>10, <1>11
        DEF Next, Editorial, WeeklyStep, MonthlyStep

LEMMA ReviewInvariant == Spec => []ReviewInv
<1>1. Spec => []TypeOK
  BY ReviewTypeCorrect
<1> QED BY <1>1, ReviewStarts, ReviewSteps, PTL DEF Spec

-----------------------------------------------------------------------------
(* The promises.                                                           *)

\* A mistake is reviewed in one monthly attempt at most.
THEOREM ReviewedOnceHolds == Spec => []ReviewedOnce
<1>1. ReviewInv => ReviewedOnce
  BY DEF ReviewInv
<1> QED BY <1>1, ReviewInvariant, PTL

\* A question comes back only because the learner got it wrong in a submitted weekly
\* attempt for the same exam, and no more of them than the cap.
THEOREM TailIsOwedHolds == Spec => []TailIsOwed
<1>1. ReviewInv => TailIsOwed
  BY DEF ReviewInv, CapInv, ServedInv, Recorded, TailIsOwed
<1> QED BY <1>1, ReviewInvariant, PTL

\* A queued mistake keeps its row until a newer one takes it, in whatever order the
\* attempts are submitted, and a row is consumed only by an attempt that shows it.
THEOREM NewestMistakeKeptHolds == Spec => []NewestMistakeKept
<1>1. ReviewInv => NewestMistakeKept
  BY DEF ReviewInv, QueuedInv, ConsumedInv, NewestMistakeKept
<1> QED BY <1>1, ReviewInvariant, PTL
=============================================================================
