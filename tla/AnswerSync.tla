----------------------------- MODULE AnswerSync -----------------------------
(***************************************************************************)
(* The answers of one mock attempt: the browser that saves them            *)
(* (useAnswerSync.js and MockAttemptShell.jsx under                        *)
(* app/frontend/src/pages/study/mocks), the routes that store and grade    *)
(* them (save_answer, enter_section, submit_attempt in                     *)
(* app/backend/app/study_os/mock_engine.py) and the sweeper that grades an *)
(* attempt its learner left open.                                          *)
(*                                                                         *)
(* A route is an `async def` that calls the database synchronously, so one *)
(* server process serves one request at a time and only its sweeper thread *)
(* runs beside it; Servers is the set of processes.                        *)
(***************************************************************************)
EXTENDS Naturals, FiniteSets

CONSTANTS
  Questions,      \* the questions of the attempt
  Later,          \* those of its second section; with any, sections are locked
  Numeric,        \* those answered with a number and not with an option
  Options,        \* what a question may be answered with
  Unanswered,     \* no answer: the initial one, and what clearing stores
  NotGraded,      \* the grade of an attempt that is still in progress
  NoQuestion,     \* the question of a call that is not about one
  Servers,        \* server processes
  MaxRetries,     \* automatic retries of one save (3 in the code)
  MaxManual,      \* bound: presses of Retry per page load
  MaxSeq,         \* bound: saves minted per page load
  MaxLoads,       \* bound: times the page is loaded
  MaxSubmits,     \* bound: submit requests per page load
  MaxLate,        \* bound: abandoned requests that are still on their way
  Faults,         \* "lost": a request or its reply; "read", "write": a database
                  \* call; "crash": a server process
  Patient,        \* the learner leaves alone a question whose save is on its way
  GraceHolds      \* no save takes longer than the 60 seconds of grace

ASSUME SyncAssumption ==
  /\ IsFiniteSet(Questions) /\ Later \subseteq Questions /\ Numeric \subseteq Questions
  /\ Unanswered \notin Options /\ NoQuestion \notin Questions
  /\ NotGraded \notin [Questions -> Options \cup {Unanswered}]
  /\ {MaxRetries, MaxManual, MaxSeq, MaxLoads, MaxSubmits, MaxLate} \subseteq Nat
  /\ Faults \subseteq {"lost", "read", "write", "crash"}
  /\ {Patient, GraceHolds} \subseteq BOOLEAN

VARIABLES
  rows,      \* mock_attempt_responses: the answer of each question, its client_seq
  grade,     \* mock_attempts: NotGraded while in_progress, else what was scored
  section,   \* mock_attempts.current_section_index
  clock,     \* the attempt's window: "open", "expired", "overdue" (60 s later)
  handler,   \* server process -> the request it serves
  sweeper,   \* the auto_submit job in progress
  calls,     \* the requests between the browser and the servers
  shown,     \* the answer on the page for each question
  sync,      \* the sync state on the page for each question
  timer,     \* the questions whose debounce timer runs
  fired,     \* the client_seq of each question's payload, 0 before it is minted
  retries,   \* the retry timers that run
  page       \* the rest of the page: see Page

serverVars == <<rows, grade, section, clock, handler, sweeper>>
pageVars == <<shown, sync, timer, fired, retries, page>>
vars == <<rows, grade, section, clock, handler, sweeper, calls,
          shown, sync, timer, fired, retries, page>>

Answers == Options \cup {Unanswered}
Grades == [Questions -> Answers]
SectionOf(q) == IF q \in Later THEN 1 ELSE 0
Locked == Later # {}

\* A request, or the retry timer that will repeat one. seq is the client_seq of a
\* save, the claimed_answered_count of a submit, the section_index of an enter;
\* open: the page waits for the reply, or can still cancel the timer.
Call == [kind : {"answer", "enter", "submit"}, question : Questions \cup {NoQuestion},
         answer : Answers, seq : Nat, load : Nat, manual : Nat, retry : Nat,
         at : {"wire", "server", "ok", "refused", "conflict", "failed"}, open : BOOLEAN]

Idle == [phase |-> "idle"]
At(phase, c, g) == [phase |-> phase, call |-> c, graded |-> g]
Handlers == {Idle} \cup
  [phase : {"seq", "write", "count", "grade", "flip"}, call : Call, graded : {NotGraded} \cup Grades]

\* load: the page load; seq: the counter of nextSeq; here: the section on the
\* page; mode: what the page is doing; awaiting: the questions whose flush has not
\* resolved; submits, manual: how often it submitted and Retry was pressed.
Page == [load : Nat, seq : Nat, here : {0, 1},
         mode : {"answering", "leaving", "flushing", "submitting", "result"},
         awaiting : SUBSET Questions, submits : Nat, manual : Nat]

SyncStates == {"none", "unsaved", "saving", "saved", "retrying", "failed"}

TypeOK ==
  /\ rows \in [Questions -> [answer : Answers, seq : Nat]]
  /\ grade \in {NotGraded} \cup Grades
  /\ section \in {0, 1}
  /\ clock \in {"open", "expired", "overdue"}
  /\ handler \in [Servers -> Handlers]
  /\ sweeper \in {Idle} \cup [phase : {"flip"}, graded : Grades]
  /\ calls \subseteq Call
  /\ shown \in Grades
  /\ sync \in [Questions -> SyncStates]
  /\ timer \subseteq Questions
  /\ fired \in [Questions -> Nat]
  /\ retries \subseteq Call
  /\ page \in Page

Init ==
  /\ rows = [q \in Questions |-> [answer |-> Unanswered, seq |-> 0]]
  /\ grade = NotGraded /\ section = 0 /\ clock = "open"
  /\ handler = [s \in Servers |-> Idle] /\ sweeper = Idle
  /\ calls = {}
  /\ shown = [q \in Questions |-> Unanswered]
  /\ sync = [q \in Questions |-> "none"]
  /\ timer = {} /\ retries = {}
  /\ fired = [q \in Questions |-> 0]
  /\ page = [load |-> 1, seq |-> 0, here |-> 0, mode |-> "answering",
             awaiting |-> {}, submits |-> 0, manual |-> 0]

-----------------------------------------------------------------------------
(* The page.                                                                 *)

Terminal == {"none", "saved", "failed"}
Pending == {q \in Questions : sync[q] \notin Terminal}
Failed == {q \in Questions : sync[q] = "failed"}

Request(kind, q, a, n, retry) ==
  [kind |-> kind, question |-> q, answer |-> a, seq |-> n, load |-> page.load,
   manual |-> page.manual, retry |-> retry, at |-> "wire", open |-> TRUE]

OnItsWay(q) == \/ \E c \in calls : c.question = q /\ c.open
               \/ \E r \in retries : r.question = q
LeftAlone(q) == Patient => ~OnItsWay(q)

\* clearRetry: only the timer armed last can still be cancelled.
Cancelled(q) == {r \in retries : ~(r.question = q /\ r.open)}
Released(R, q) == {IF r.question = q THEN [r EXCEPT !.open = FALSE] ELSE r : r \in R}

\* An answer chosen, cleared, marked, or left for another question: queueSave.
Change(q, a) ==
  /\ page.mode # "result" /\ (Patient => page.mode = "answering")
  /\ Locked => SectionOf(q) = page.here
  /\ LeftAlone(q)
  /\ page.seq + Cardinality(timer \cup {q}) <= MaxSeq
  /\ shown' = [shown EXCEPT ![q] = a]
  /\ sync' = [sync EXCEPT ![q] = "unsaved"]
  /\ timer' = timer \cup {q}
  /\ fired' = [fired EXCEPT ![q] = 0]
  /\ retries' = Cancelled(q)
  /\ UNCHANGED <<page, calls, serverVars>>

\* The debounce timer fires: the payload gets its client_seq and is posted.
Fire(q) ==
  /\ q \in timer
  /\ timer' = timer \ {q}
  /\ page' = [page EXCEPT !.seq = @ + 1]
  /\ fired' = [fired EXCEPT ![q] = page.seq + 1]
  /\ sync' = [sync EXCEPT ![q] = "saving"]
  /\ calls' = calls \cup {Request("answer", q, shown[q], page.seq + 1, 0)}
  /\ UNCHANGED <<shown, retries, serverVars>>

\* A retry timer fires: the same payload is posted again.
RetryFires(r) ==
  /\ sync' = [sync EXCEPT ![r.question] = "saving"]
  /\ calls' = calls \cup {[r EXCEPT !.open = TRUE]}
  /\ retries' = Released(retries \ {r}, r.question)
  /\ UNCHANGED <<shown, timer, fired, page, serverVars>>

\* retryNow: the learner presses Retry on a failed save.
RetryNow(q) ==
  /\ page.mode \in {"answering", "leaving"}
  /\ sync[q] = "failed"
  /\ page.manual < MaxManual
  /\ page' = [page EXCEPT !.manual = @ + 1]
  /\ sync' = [sync EXCEPT ![q] = "saving"]
  /\ calls' = calls \cup
       {[Request("answer", q, shown[q], fired[q], 0) EXCEPT !.manual = page.manual + 1]}
  /\ retries' = Cancelled(q)
  /\ UNCHANGED <<shown, timer, fired, serverVars>>

\* flushDwellForCurrent and then flush: the current question is queued once more
\* and every debounce timer among those flushed fires at once.
Flush(cur, flushed, mode) ==
  LET late == (timer \cap flushed) \cup {cur}
  IN /\ page.seq + Cardinality(late) <= MaxSeq
     /\ \E mint \in [late -> (page.seq + 1) .. (page.seq + Cardinality(late))] :
          /\ \A p, q \in late : p # q => mint[p] # mint[q]
          /\ fired' = [q \in Questions |-> IF q \in late THEN mint[q] ELSE fired[q]]
          /\ calls' = calls \cup {Request("answer", q, shown[q], mint[q], 0) : q \in late}
     /\ timer' = timer \ late
     /\ sync' = [q \in Questions |-> IF q \in late THEN "saving" ELSE sync[q]]
     /\ retries' = Cancelled(cur)
     /\ page' = [page EXCEPT !.seq = @ + Cardinality(late), !.mode = mode,
                             !.awaiting = (Pending \cap flushed) \cup late]
     /\ UNCHANGED <<shown, serverVars>>

\* "Save & Next" on the last question of a section drains the section first.
BeginLeave(cur) ==
  /\ page.mode = "answering" /\ Locked
  /\ page.here = 0 /\ SectionOf(cur) = 0
  /\ LeftAlone(cur)
  /\ Flush(cur, Questions \ Later, "leaving")

\* Mutant: the section is entered while its saves are under way.
LeaveAtOnce ==
  /\ page.mode = "leaving"
  /\ page' = [page EXCEPT !.mode = "answering", !.here = 1, !.awaiting = {}]
  /\ calls' = calls \cup {Request("enter", NoQuestion, Unanswered, 1, 0)}
  /\ UNCHANGED <<shown, sync, timer, fired, retries, serverVars>>

Leave ==
  /\ page.mode = "leaving" /\ page.awaiting = {}
  /\ page' = [page EXCEPT !.mode = "answering", !.here = 1]
  /\ calls' = calls \cup {Request("enter", NoQuestion, Unanswered, 1, 0)}
  /\ UNCHANGED <<shown, sync, timer, fired, retries, serverVars>>

\* doSubmit: by the button, which waits for the saves, or by the countdown.
BeginSubmit(cur, pressed) ==
  /\ page.mode = "answering"
  /\ pressed => Pending = {} /\ Failed = {}
  /\ page.submits < MaxSubmits
  /\ Locked => SectionOf(cur) = page.here
  /\ Flush(cur, Questions, "flushing")

SavedWithAnswer == {q \in Questions : sync[q] = "saved" /\ shown[q] # Unanswered}

\* flushAll resolves: a failed save stops the submit, else it is posted with the
\* number of questions saved with an answer.
EndFlush ==
  /\ page.mode = "flushing" /\ page.awaiting = {}
  /\ IF Failed # {}
       THEN /\ page' = [page EXCEPT !.mode = "answering", !.submits = @ + 1]
            /\ UNCHANGED calls
       ELSE /\ page' = [page EXCEPT !.mode = "submitting", !.submits = @ + 1]
            /\ calls' = calls \cup
                 {Request("submit", NoQuestion, Unanswered, Cardinality(SavedWithAnswer),
                          page.submits)}
  /\ UNCHANGED <<shown, sync, timer, fired, retries, serverVars>>

-----------------------------------------------------------------------------
(* Replies.                                                                  *)

\* Mutant: only a save that succeeded resolves the flushes that wait for it.
SettlesOnSaved(c, outcome) ==
  LET q == c.question
      again == outcome = "failed" /\ c.retry < MaxRetries
  IN /\ sync' = [sync EXCEPT ![q] = IF outcome = "ok" THEN "saved"
                                    ELSE IF again THEN "retrying" ELSE "failed"]
     /\ retries' = IF again
                     THEN Released(retries, q) \cup
                            {[c EXCEPT !.at = "wire", !.open = TRUE, !.retry = @ + 1]}
                     ELSE retries
     /\ page' = IF outcome = "ok" THEN [page EXCEPT !.awaiting = @ \ {q}] ELSE page
     /\ UNCHANGED <<shown, timer, fired, serverVars>>

\* Mutant: a refusal counts as an acknowledgement.
SettlesRefusedAsSaved(c, outcome) ==
  LET q == c.question
      again == outcome = "failed" /\ c.retry < MaxRetries
  IN /\ sync' = [sync EXCEPT ![q] = IF outcome # "failed" THEN "saved"
                                    ELSE IF again THEN "retrying" ELSE "failed"]
     /\ retries' = IF again
                     THEN Released(retries, q) \cup
                            {[c EXCEPT !.at = "wire", !.open = TRUE, !.retry = @ + 1]}
                     ELSE retries
     /\ page' = IF again THEN page ELSE [page EXCEPT !.awaiting = @ \ {q}]
     /\ UNCHANGED <<shown, timer, fired, serverVars>>

\* doSave after its POST: saved, failed, or another try after the backoff.
Settles(c, outcome) ==
  LET q == c.question
      again == outcome = "failed" /\ c.retry < MaxRetries
  IN /\ sync' = [sync EXCEPT ![q] = IF outcome = "ok" THEN "saved"
                                    ELSE IF again THEN "retrying" ELSE "failed"]
     /\ retries' = IF again
                     THEN Released(retries, q) \cup
                            {[c EXCEPT !.at = "wire", !.open = TRUE, !.retry = @ + 1]}
                     ELSE retries
     /\ page' = IF again THEN page ELSE [page EXCEPT !.awaiting = @ \ {q}]
     /\ UNCHANGED <<shown, timer, fired, serverVars>>

SaveReply(c) ==
  /\ c.kind = "answer" /\ c.open /\ c.at \notin {"wire", "server"}
  /\ calls' = calls \ {c}
  /\ Settles(c, c.at)

\* The page stops waiting for the calls of C: what a server works on goes on, what
\* is on the wire is lost or comes later, and replies find nobody.
Abandoned(C) ==
  LET late == {[c EXCEPT !.open = FALSE] : c \in {d \in C : d.at \in {"wire", "server"}}}
  IN {L \in SUBSET late : /\ {c \in late : c.at = "server"} \subseteq L
                          /\ Cardinality({c \in L : c.at = "wire"}) <= MaxLate}

Closed == {c \in calls : ~c.open}

\* A page load: the answers and the section come from the server, the counter of
\* client_seq starts again, and what the old page waited for is forgotten.
Loaded ==
  /\ page.load < MaxLoads
  /\ shown' = [q \in Questions |-> rows[q].answer]
  /\ sync' = [q \in Questions |-> "none"]
  /\ timer' = {} /\ retries' = {}
  /\ fired' = [q \in Questions |-> 0]
  /\ page' = [load |-> page.load + 1, seq |-> 0, here |-> section,
              mode |-> IF grade = NotGraded THEN "answering" ELSE "result",
              awaiting |-> {}, submits |-> 0, manual |-> 0]
  /\ calls' \in Abandoned(calls)
  /\ UNCHANGED serverVars

Reload == page.mode # "result" /\ Loaded

\* A refused count reloads the page; any other failure lets the learner try again.
SubmitReply(c) ==
  /\ c.kind = "submit" /\ c.open /\ c.at \notin {"wire", "server"}
  /\ IF c.at = "conflict"
       THEN Loaded
       ELSE /\ page' = [page EXCEPT !.mode = IF c.at = "ok" THEN "result" ELSE "answering"]
            /\ calls' = calls \ {c}
            /\ UNCHANGED <<shown, sync, timer, fired, retries, serverVars>>

\* saveAndNext ignores how its enter-section request ended.
EnterReply(c) ==
  /\ c.kind = "enter" /\ c.open /\ c.at \notin {"wire", "server"}
  /\ calls' = calls \ {c}
  /\ UNCHANGED <<pageVars, serverVars>>

\* The request or its reply is lost, or the page gives up waiting; what a server
\* already has, or the network still holds, may take effect later.
Lost(c) ==
  /\ "lost" \in Faults /\ c.open
  /\ calls' \in {(calls \ (Closed \cup {c})) \cup L : L \in Abandoned(Closed \cup {c})}
  /\ CASE c.kind = "answer" -> Settles(c, "failed")
       [] c.kind = "submit" -> /\ page' = [page EXCEPT !.mode = "answering"]
                               /\ UNCHANGED <<shown, sync, timer, fired, retries, serverVars>>
       [] c.kind = "enter" -> UNCHANGED <<pageVars, serverVars>>

-----------------------------------------------------------------------------
(* The servers.                                                              *)

Key(c) == [c EXCEPT !.at = "wire", !.open = TRUE]

\* The call c gets to `where`; a reply nobody waits for is gone.
Moved(c, where) ==
  {IF Key(d) = Key(c) THEN [d EXCEPT !.at = where] ELSE d :
     d \in {e \in calls : Key(e) = Key(c) => e.open \/ where = "server"}}

Hands(s, phase, c, g) ==
  /\ handler' = [handler EXCEPT ![s] = At(phase, Key(c), g)]
  /\ calls' = Moved(c, "server")

Replies(s, c, outcome) ==
  /\ handler' = [handler EXCEPT ![s] = Idle]
  /\ calls' = Moved(c, outcome)

\* Mutant: save_answer forgets to ask whether the attempt is in progress.
ServeAnswerAnyStatus(s, c) ==
  /\ c.kind = "answer" /\ c.at = "wire" /\ handler[s] = Idle
  /\ \/ /\ c.seq > 0 /\ clock = "open"
        /\ Locked => SectionOf(c.question) = section
        /\ Hands(s, "seq", c, NotGraded)
     \/ /\ \/ c.seq = 0 \/ clock # "open" \/ "read" \in Faults
           \/ Locked /\ SectionOf(c.question) # section
        /\ Replies(s, c, "refused")
  /\ UNCHANGED <<rows, grade, section, clock, sweeper, pageVars>>

\* save_answer up to its first read: no client_seq, a closed attempt, an expired
\* window or another section are refused, and so is an attempt it failed to read.
ServeAnswer(s, c) ==
  /\ c.kind = "answer" /\ c.at = "wire" /\ handler[s] = Idle
  /\ \/ /\ c.seq > 0 /\ grade = NotGraded /\ clock = "open"
        /\ Locked => SectionOf(c.question) = section
        /\ Hands(s, "seq", c, NotGraded)
     \/ /\ \/ c.seq = 0 \/ grade # NotGraded \/ clock # "open" \/ "read" \in Faults
           \/ Locked /\ SectionOf(c.question) # section
        /\ Replies(s, c, "refused")
  /\ UNCHANGED <<rows, grade, section, clock, sweeper, pageVars>>

\* Mutant: an off-by-one takes the next save for a duplicate.
ReadSeqOffByOne(s) ==
  /\ handler[s].phase = "seq"
  /\ LET c == handler[s].call
     IN \/ c.seq <= rows[c.question].seq + 1 /\ Replies(s, c, "ok")
        \/ /\ c.seq > rows[c.question].seq + 1 \/ "read" \in Faults
           /\ Hands(s, "write", c, NotGraded)
  /\ UNCHANGED <<rows, grade, section, clock, sweeper, pageVars>>

\* What is not newer than the row is acknowledged as recorded; a read that fails
\* counts as no row.
ReadSeq(s) ==
  /\ handler[s].phase = "seq"
  /\ LET c == handler[s].call
     IN \/ c.seq <= rows[c.question].seq /\ Replies(s, c, "ok")
        \/ /\ c.seq > rows[c.question].seq \/ "read" \in Faults
           /\ Hands(s, "write", c, NotGraded)
  /\ UNCHANGED <<rows, grade, section, clock, sweeper, pageVars>>

\* The update asks neither for the client_seq it compared nor for the status.
WriteAnswer(s) ==
  /\ handler[s].phase = "write"
  /\ LET c == handler[s].call
         written == [rows EXCEPT ![c.question] = [answer |-> c.answer, seq |-> c.seq]]
     IN \/ rows' = written /\ Replies(s, c, "ok")
        \/ /\ "write" \in Faults
           /\ rows' \in {rows, written} /\ Replies(s, c, "failed")
  /\ UNCHANGED <<grade, section, clock, sweeper, pageVars>>

\* enter_section: both of its writes are allowed to fail.
ServeEnter(s, c) ==
  /\ c.kind = "enter" /\ c.at = "wire" /\ handler[s] = Idle
  /\ \/ section' = c.seq /\ Replies(s, c, "ok")
     \/ "write" \in Faults /\ section' = section /\ Replies(s, c, "ok")
     \/ "read" \in Faults /\ section' = section /\ Replies(s, c, "refused")
  /\ UNCHANGED <<rows, grade, clock, sweeper, pageVars>>

\* submit_attempt up to its check of the status.
ServeSubmit(s, c) ==
  /\ c.kind = "submit" /\ c.at = "wire" /\ handler[s] = Idle
  /\ \/ grade # NotGraded /\ Replies(s, c, "ok")
     \/ grade = NotGraded /\ Hands(s, IF c.seq > 0 THEN "count" ELSE "grade", c, NotGraded)
     \/ "read" \in Faults /\ Replies(s, c, "refused")
  /\ UNCHANGED <<rows, grade, section, clock, sweeper, pageVars>>

StoredOptions == {q \in Questions \ Numeric : rows[q].answer # Unanswered}

\* The claimed count is compared with the rows that hold an option.
CountAnswers(s) ==
  /\ handler[s].phase = "count"
  /\ LET c == handler[s].call
     IN \/ c.seq <= Cardinality(StoredOptions) /\ Hands(s, "grade", c, NotGraded)
        \/ /\ c.seq > Cardinality(StoredOptions) \/ "read" \in Faults
           /\ Replies(s, c, "conflict")
  /\ UNCHANGED <<rows, grade, section, clock, sweeper, pageVars>>

\* Mutant: the questions left unanswered are not scored.
ScoredAnsweredOnly == {[q \in {p \in Questions : rows[p].answer # Unanswered} |-> rows[q].answer]}

\* What _finalize_submission scores: the rows, or none of them if the read fails.
Scored ==
  {[q \in Questions |-> rows[q].answer]} \cup
  (IF "read" \in Faults THEN {[q \in Questions |-> Unanswered]} ELSE {})

ReadAnswers(s) ==
  /\ handler[s].phase = "grade"
  /\ LET c == handler[s].call
     IN \/ \E g \in Scored : Hands(s, "flip", c, g)
        \/ "write" \in Faults /\ Replies(s, c, "failed")
  /\ UNCHANGED <<rows, grade, section, clock, sweeper, pageVars>>

\* The attempt becomes submitted, whatever became of it since it was read.
Flip(s) ==
  /\ handler[s].phase = "flip"
  /\ LET c == handler[s].call
     IN \/ grade' = handler[s].graded /\ Replies(s, c, "ok")
        \/ /\ "write" \in Faults
           /\ grade' \in {grade, handler[s].graded} /\ Replies(s, c, "failed")
  /\ UNCHANGED <<rows, section, clock, sweeper, pageVars>>

\* Mutant: the sweeper does not wait for the grace.
SweepNoGrace ==
  /\ clock \in {"expired", "overdue"} /\ sweeper = Idle /\ grade = NotGraded
  /\ \E g \in Scored : sweeper' = [phase |-> "flip", graded |-> g]
  /\ UNCHANGED <<rows, grade, section, clock, handler, calls, pageVars>>

\* auto_submit_attempt: 60 seconds after the window closed.
Sweep ==
  /\ clock = "overdue" /\ sweeper = Idle /\ grade = NotGraded
  /\ \E g \in Scored : sweeper' = [phase |-> "flip", graded |-> g]
  /\ UNCHANGED <<rows, grade, section, clock, handler, calls, pageVars>>

SweepFlip ==
  /\ sweeper # Idle
  /\ sweeper' = Idle
  /\ \/ grade' = sweeper.graded
     \/ "write" \in Faults /\ grade' = grade
  /\ UNCHANGED <<rows, section, clock, handler, calls, pageVars>>

\* A server process dies; its caller sees the connection close.
Crash(s) ==
  /\ "crash" \in Faults
  /\ handler[s] # Idle
  /\ Replies(s, handler[s].call, "failed")
  /\ UNCHANGED <<rows, grade, section, clock, sweeper, pageVars>>

Saving(s) == handler[s].phase \in {"seq", "write"}

Tick ==
  /\ \/ clock = "open" /\ clock' = "expired"
     \/ /\ clock = "expired" /\ clock' = "overdue"
        /\ GraceHolds => \A s \in Servers : ~Saving(s)
  /\ UNCHANGED <<rows, grade, section, handler, sweeper, calls, pageVars>>

-----------------------------------------------------------------------------

PageStep ==
  \/ \E q \in Questions : Fire(q) \/ RetryNow(q) \/ BeginLeave(q)
  \/ \E q \in Questions, a \in Answers : Change(q, a)
  \/ \E q \in Questions, pressed \in BOOLEAN : BeginSubmit(q, pressed)
  \/ \E r \in retries : RetryFires(r)
  \/ Leave \/ EndFlush \/ Reload

NetworkStep == \E c \in calls : SaveReply(c) \/ SubmitReply(c) \/ EnterReply(c) \/ Lost(c)

ServerStep ==
  \/ \E s \in Servers, c \in calls : ServeAnswer(s, c) \/ ServeEnter(s, c) \/ ServeSubmit(s, c)
  \/ \E s \in Servers : \/ ReadSeq(s) \/ WriteAnswer(s) \/ CountAnswers(s)
                        \/ ReadAnswers(s) \/ Flip(s) \/ Crash(s)
  \/ Sweep \/ SweepFlip \/ Tick

Next == PageStep \/ NetworkStep \/ ServerStep

Spec == Init /\ [][Next]_vars

\* Timers fire, promises resolve and a fetch ends, by its reply or by its timeout
\* (api.js). Nothing is assumed of the servers or of the learner.
FairSpec ==
  /\ Spec
  /\ WF_vars(\E q \in Questions : Fire(q))
  /\ WF_vars(\E r \in retries : RetryFires(r))
  /\ WF_vars(Leave) /\ WF_vars(EndFlush)
  /\ WF_vars(\E c \in calls : c.kind = "answer" /\ (SaveReply(c) \/ Lost(c)))
  /\ WF_vars(\E c \in calls : SubmitReply(c) \/ (c.kind = "submit" /\ Lost(c)))

-----------------------------------------------------------------------------
(* Properties.                                                               *)

\* docs/mock_engine/attempt_save_semantics.md:4: an answer the page marks as saved
\* is the one the server holds.
SavedIsStored == \A q \in Questions : sync[q] = "saved" => rows[q].answer = shown[q]

\* The score counts every answer the page marked as saved, as it marked it.
GradedAsShown ==
  grade # NotGraded => \A q \in Questions : sync[q] = "saved" => grade[q] = shown[q]

\* A learner all of whose answers are saved is never told that some are missing.
NoFalseConflict == \A c \in calls : c.at # "conflict"

\* Past the section change nothing of the first section is still to be saved, as long
\* as the page never posted a save beside another of the same question: since it was
\* loaded Retry was not pressed and no submit ended its flush.
SectionIsDrained ==
  page.here = 1 /\ page.manual = 0 /\ page.submits = 0 =>
    /\ timer \subseteq Later
    /\ \A c \in calls \cup retries : c.kind = "answer" /\ c.open => c.question \in Later

\* MockAttemptShell.jsx:430: the saves of a section land before it is left.
SectionLandsCleanly ==
  page.here = 1 /\ clock = "open" =>
    \A q \in Questions \ Later : sync[q] \in {"none", "saved"}

\* flush, flushMany and doSubmit never leave the page waiting: leaving a section
\* and submitting both end, whatever the servers and the network do.
PageMovesOn ==
  page.mode \in {"leaving", "flushing", "submitting"} ~> page.mode \in {"answering", "result"}

\* The answers are replaced in the order they were minted and graded once.
Sheet == INSTANCE AnswerSheet WITH
  Questions <- Questions, Answers <- Answers, NotGraded <- NotGraded,
  sheet <- [q \in Questions |-> rows[q].answer],
  minted <- [q \in Questions |-> rows[q].seq],
  grade <- grade

ImplementsSheet == Sheet!Spec
=============================================================================
