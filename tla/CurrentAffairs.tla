--------------------------- MODULE CurrentAffairs ---------------------------
(***************************************************************************)
(* The current-affairs attempts of one learner, and the queue that brings  *)
(* the mistakes of the weekly ones back in the monthly ones                *)
(* (app/backend/app/current_affairs, migrations 253, 255 and 258 to 260).  *)
(*                                                                         *)
(* A PL/pgSQL function is one step.  The start of a monthly attempt is     *)
(* two: Python reads the bundle and the queue, then calls the function     *)
(* that checks what was read and freezes it.                               *)
(***************************************************************************)
EXTENDS Naturals, FiniteSets, TLC

CONSTANTS
  Questions,   \* current-event questions of the bank
  Exams,       \* target exams of the learner
  Weeklies,    \* published weekly bundles, one attempt each
  Monthlies,   \* monthly bundles, one attempt each
  Requests,    \* start requests for monthly attempts that may run at once
  Periods,     \* period_end of the weekly bundles
  Cap,         \* _RETRY_TAIL_CAP
  MaxEdits,    \* bound: steps of the editors
  None         \* no exam, no attempt, no bundle

ASSUME CurrentAffairsAssumption ==
  /\ Periods \subseteq Nat \ {0} /\ {Cap, MaxEdits} \subseteq Nat
  /\ IsFiniteSet(Questions) /\ None \notin Exams \cup Weeklies \cup Monthlies

VARIABLES
  relevant,   \* questions for which ca_question_current_relevant holds
  core,       \* current_affairs_bundle_questions of each monthly bundle; {}: not published
  weekly,     \* the attempt at each weekly bundle
  now,        \* counts the weekly starts
  item,       \* current_affairs_retry_items, by question
  monthly,    \* the attempt at each monthly bundle, as frozen
  request,    \* what each start request has read
  queued,     \* history: the mistakes ca_enqueue_weekly_retry_items has seen
  edits       \* steps of the editors so far

vars == <<relevant, core, weekly, now, item, monthly, request, queued, edits>>

\* rows: the response rows, and once submitted the ones answered wrong.
Weekly == [status : {"none", "in_progress", "submitted"}, exam : Exams \cup {None},
           period : Periods \cup {0}, started : Nat, rows : SUBSET Questions]
NoWeekly == [status |-> "none", exam |-> None, period |-> 0, started |-> 0, rows |-> {}]

Item == [status : {"none", "pending", "consumed", "expired"}, due : BOOLEAN,
         exam : Exams \cup {None}, source : Weeklies \cup {None}]
NoItem == [status |-> "none", due |-> FALSE, exam |-> None, source |-> None]

\* tail: the retry questions, with the mistake each came from.
Monthly == [started : BOOLEAN, exam : Exams \cup {None},
            tail : SUBSET (Questions \X Weeklies)]
NoMonthly == [started |-> FALSE, exam |-> None, tail |-> {}]

Request == [at : {"idle", "start"}, bundle : Monthlies \cup {None},
            exam : Exams \cup {None}, core : SUBSET Questions, tail : SUBSET Questions]
Idle == [at |-> "idle", bundle |-> None, exam |-> None, core |-> {}, tail |-> {}]

TypeOK ==
  /\ relevant \subseteq Questions
  /\ core \in [Monthlies -> SUBSET Questions]
  /\ weekly \in [Weeklies -> Weekly]
  /\ now \in Nat
  /\ item \in [Questions -> Item]
  /\ monthly \in [Monthlies -> Monthly]
  /\ request \in [Requests -> Request]
  /\ queued \subseteq Questions \X Weeklies
  /\ edits \in 0 .. MaxEdits

Init ==
  /\ relevant \in SUBSET Questions
  /\ core \in [Monthlies -> SUBSET Questions]
  /\ weekly = [w \in Weeklies |-> NoWeekly] /\ now = 0
  /\ item = [q \in Questions |-> NoItem]
  /\ monthly = [m \in Monthlies |-> NoMonthly]
  /\ request = [r \in Requests |-> Idle]
  /\ queued = {} /\ edits = 0

-----------------------------------------------------------------------------
(* The editors, and time.                                                  *)

Edit == edits < MaxEdits /\ edits' = edits + 1

\* A claim is superseded, an event archived, a source switched off, a window closed.
Degrade(q) ==
  /\ Edit /\ q \in relevant
  /\ relevant' = relevant \ {q}
  /\ UNCHANGED <<core, weekly, now, item, monthly, request, queued>>

Restore(q) ==
  /\ Edit /\ q \notin relevant
  /\ relevant' = relevant \cup {q}
  /\ UNCHANGED <<core, weekly, now, item, monthly, request, queued>>

\* A bundle's members change only while it is not published: S is published, or withdrawn.
Publish(m, S) ==
  /\ Edit
  /\ core[m] = {} \/ S = {}
  /\ core' = [core EXCEPT ![m] = S]
  /\ UNCHANGED <<relevant, weekly, now, item, monthly, request, queued>>

\* Seven days after its mistake an item may be served.
FallDue(q) ==
  /\ item[q].status = "pending" /\ ~item[q].due
  /\ item' = [item EXCEPT ![q].due = TRUE]
  /\ UNCHANGED <<relevant, core, weekly, now, monthly, request, queued, edits>>

-----------------------------------------------------------------------------
(* Weekly attempts.                                                        *)

\* ca_start_current_affairs_attempt freezes a bundle whose members are all relevant.
StartWeekly(w, e, p, S) ==
  /\ weekly[w].status = "none"
  /\ S # {} /\ S \subseteq relevant
  /\ weekly' = [weekly EXCEPT ![w] = [status |-> "in_progress", exam |-> e, period |-> p,
                                      started |-> now, rows |-> S]]
  /\ now' = now + 1
  /\ UNCHANGED <<relevant, core, item, monthly, request, queued, edits>>

\* The order of (source_period_end, source_started_at); starts are never simultaneous.
Older(v, w) ==
  \/ weekly[v].period < weekly[w].period
  \/ weekly[v].period = weekly[w].period /\ weekly[v].started < weekly[w].started

\* Faulty: a row is taken over by any other attempt, as before migration 260.
TakenByOther(q, w) == item[q].source # w

\* Faulty: a row that exists is left alone, as before migration 259.
TakenOnce(q, w) == item[q].status = "none"

\* A question has one row, which belongs to its newest mistake.
Taken(q, w) == item[q].status = "none" \/ Older(item[q].source, w)

\* ca_enqueue_weekly_retry_items, for the wrong answers W of w.
Enqueue(w, W) ==
  /\ item' = [q \in Questions |->
                IF q \in W \cap relevant /\ Taken(q, w)
                THEN [status |-> "pending", due |-> FALSE, exam |-> weekly[w].exam, source |-> w]
                ELSE item[q]]
  /\ queued' = queued \cup ((W \cap relevant) \X {w})

\* ca_submit_current_affairs_attempt scores what ca_save_current_affairs_answer has
\* stored, W of it wrong, and queues the mistakes.
Submit(w, W) ==
  /\ weekly[w].status = "in_progress" /\ W \subseteq weekly[w].rows
  /\ weekly' = [weekly EXCEPT ![w].status = "submitted", ![w].rows = W]
  /\ Enqueue(w, W)
  /\ UNCHANGED <<relevant, core, now, monthly, request, edits>>

\* A submit whose reply was lost is sent again, and an operator may repair the queue.
Resubmit(w) ==
  /\ weekly[w].status = "submitted"
  /\ Enqueue(w, weekly[w].rows)
  /\ UNCHANGED <<relevant, core, weekly, now, monthly, request, edits>>

\* Faulty: the sweep writes the status that ca_sweep_expired_current_events gives events.
SweepArchived ==
  /\ \E q \in Questions : item[q].status = "pending" /\ q \notin relevant
  /\ item' = [q \in Questions |->
                IF item[q].status = "pending" /\ q \notin relevant
                THEN [item[q] EXCEPT !.status = "archived"] ELSE item[q]]
  /\ UNCHANGED <<relevant, core, weekly, now, monthly, request, queued, edits>>

\* ca_sweep_expired_retry_items
Sweep ==
  /\ \E q \in Questions : item[q].status = "pending" /\ q \notin relevant
  /\ item' = [q \in Questions |->
                IF item[q].status = "pending" /\ q \notin relevant
                THEN [item[q] EXCEPT !.status = "expired"] ELSE item[q]]
  /\ UNCHANGED <<relevant, core, weekly, now, monthly, request, queued, edits>>

-----------------------------------------------------------------------------
(* Monthly attempts.                                                       *)

\* Faulty: an item is served to any exam, as before migration 260.
ClaimableByAnyExam(q, e) == item[q].status = "pending" /\ item[q].due

\* What ca_start_monthly_current_affairs_attempt_guarded locks and checks of an item.
Claimable(q, e) == item[q].status = "pending" /\ item[q].due /\ item[q].exam = e

\* resolve_eligible_bundle, eligible_bundle_question_ids (a degraded bundle ends the
\* request) and _eligible_retry_tail_ids: as many eligible items as the cap allows, which
\* of them are the oldest being left open.  StartMonthly checks again all that is read.
BeginMonthly(r, m, e) ==
  /\ request[r].at = "idle"
  /\ core[m] # {} /\ core[m] \subseteq relevant
  /\ LET eligible == {q \in relevant \ core[m] : Claimable(q, e)}
     IN \E S \in SUBSET eligible :
          /\ Cardinality(S) <= Cap
          /\ Cardinality(S) = Cap \/ S = eligible
          /\ request' = [request EXCEPT ![r] = [at |-> "start", bundle |-> m, exam |-> e,
                                                core |-> core[m], tail |-> S]]
  /\ UNCHANGED <<relevant, core, weekly, now, item, monthly, queued, edits>>

\* Faulty: the items a request has read are not locked and checked again.
AdmitsAsRead(r) ==
  LET m == request[r].bundle
  IN /\ core[m] # {} /\ core[m] \subseteq relevant /\ request[r].core = core[m]
     /\ ~monthly[m].started
     /\ request[r].tail \cap core[m] = {}

\* Every check of the guarded start and of the start it calls.
Admits(r) ==
  LET m == request[r].bundle
  IN /\ core[m] # {} /\ core[m] \subseteq relevant /\ request[r].core = core[m]
     /\ ~monthly[m].started
     /\ Cardinality(request[r].tail) <= Cap
     /\ request[r].tail \cap core[m] = {}
     /\ request[r].tail \subseteq relevant
     /\ \A q \in request[r].tail : Claimable(q, request[r].exam)

Ended(r) == [request EXCEPT ![r] = Idle]

\* The attempt is inserted with its frozen questions and the tail's items are consumed.
StartMonthly(r) ==
  /\ request[r].at = "start" /\ Admits(r)
  /\ monthly' = [monthly EXCEPT ![request[r].bundle] =
                   [started |-> TRUE, exam |-> request[r].exam,
                    tail |-> {<<q, item[q].source>> : q \in request[r].tail}]]
  /\ item' = [q \in Questions |->
                IF q \in request[r].tail THEN [item[q] EXCEPT !.status = "consumed"]
                ELSE item[q]]
  /\ request' = Ended(r)
  /\ UNCHANGED <<relevant, core, weekly, now, queued, edits>>

\* A check raises, an existing attempt is returned, a read fails, the process dies.
EndRequest(r) ==
  /\ request[r].at # "idle"
  /\ request' = Ended(r)
  /\ UNCHANGED <<relevant, core, weekly, now, item, monthly, queued, edits>>

-----------------------------------------------------------------------------
Editorial ==
  \/ \E q \in Questions : Degrade(q) \/ Restore(q) \/ FallDue(q)
  \/ \E m \in Monthlies, S \in SUBSET Questions : Publish(m, S)

WeeklyStep ==
  \/ \E w \in Weeklies :
       \/ \E e \in Exams, p \in Periods, S \in SUBSET Questions : StartWeekly(w, e, p, S)
       \/ \E W \in SUBSET Questions : Submit(w, W)
       \/ Resubmit(w)
  \/ Sweep

MonthlyStep ==
  \E r \in Requests :
    \/ \E m \in Monthlies, e \in Exams : BeginMonthly(r, m, e)
    \/ StartMonthly(r) \/ EndRequest(r)

Next == Editorial \/ WeeklyStep \/ MonthlyStep

Spec == Init /\ [][Next]_vars

\* Questions, exams, attempts and requests are interchangeable.
Symmetry ==
  Permutations(Questions) \cup Permutations(Exams) \cup Permutations(Weeklies)
    \cup Permutations(Monthlies) \cup Permutations(Requests)

-----------------------------------------------------------------------------
(* Properties.                                                             *)

\* A mistake is reviewed in one monthly attempt at most, whatever is submitted again,
\* rearmed by a later mistake, swept, or asked for twice at once.
ReviewedOnce ==
  \A m, n \in Monthlies : m # n => monthly[m].tail \cap monthly[n].tail = {}

\* A question comes back only because the learner, preparing for the same exam, got it
\* wrong in a submitted weekly attempt, although the queue may change between its read
\* and the start.
TailIsOwed ==
  \A m \in Monthlies :
    /\ Cardinality(monthly[m].tail) <= Cap
    /\ \A x \in monthly[m].tail :
         /\ weekly[x[2]].status = "submitted" /\ weekly[x[2]].exam = monthly[m].exam
         /\ x[1] \in weekly[x[2]].rows

\* A queued mistake keeps its row until a newer mistake takes it, in whatever order the
\* attempts are submitted, and a row is consumed only by an attempt that shows it.
NewestMistakeKept ==
  /\ \A x \in queued : /\ item[x[1]].status # "none"
                       /\ item[x[1]].source = x[2] \/ Older(x[2], item[x[1]].source)
  /\ \A q \in Questions :
       item[q].status = "consumed" => \E m \in Monthlies : <<q, item[q].source>> \in monthly[m].tail
=============================================================================
