-------------------------- MODULE AnswerSyncProofs --------------------------
(***************************************************************************)
(* Proofs about AnswerSync, for any questions, sections, options, faults   *)
(* and bounds: it is type correct; one server process whose reads do not   *)
(* fail implements AnswerSheet; what one page without a second load of it  *)
(* shows as saved is stored, and what it submitted is graded as shown; and *)
(* a section is left drained.                                              *)
(***************************************************************************)
EXTENDS AnswerSync, FiniteSetTheorems, TLAPS

Positions == {"wire", "server", "ok", "refused", "conflict", "failed"}

\* The type invariant by who owns the state, with what a call is about: a save is
\* about a question, and only saves are retried.
ServerTyped ==
  /\ rows \in [Questions -> [answer : Answers, seq : Nat]]
  /\ grade \in {NotGraded} \cup Grades
  /\ section \in {0, 1}
  /\ clock \in {"open", "expired", "overdue"}
  /\ handler \in [Servers -> Handlers]
  /\ sweeper \in {Idle} \cup [phase : {"flip"}, graded : Grades]
  /\ \A s \in Servers : Saving(s) => handler[s].call.question \in Questions

CallsTyped ==
  /\ calls \subseteq Call
  /\ \A c \in calls : c.kind = "answer" => c.question \in Questions
  /\ \A c \in calls : c.kind = "enter" => c.seq = 1

PageTyped ==
  /\ shown \in Grades
  /\ sync \in [Questions -> SyncStates]
  /\ timer \subseteq Questions
  /\ fired \in [Questions -> Nat]
  /\ retries \subseteq Call
  /\ page \in Page
  /\ \A r \in retries : r.kind = "answer" /\ r.question \in Questions

TypeInv == ServerTyped /\ CallsTyped /\ PageTyped

-----------------------------------------------------------------------------
(* Operators.                                                                *)

\* A request of the page is a call.
LEMMA RequestType ==
  ASSUME PageTyped, NEW kind \in {"answer", "enter", "submit"},
         NEW q \in Questions \cup {NoQuestion}, NEW a \in Answers, NEW n \in Nat, NEW r \in Nat
  PROVE  Request(kind, q, a, n, r) \in Call
BY DEF PageTyped, Page, Request, Call

\* A call that got somewhere, or was abandoned or taken up, is still a call.
LEMMA CallType ==
  ASSUME NEW c \in Call
  PROVE  /\ Key(c) \in Call
         /\ [c EXCEPT !.open = FALSE] \in Call
         /\ [c EXCEPT !.open = TRUE] \in Call
         /\ [c EXCEPT !.at = "wire", !.open = TRUE, !.retry = @ + 1] \in Call
         /\ \A w \in Positions :
              [c EXCEPT !.at = w] \in Call
<1>1. \A w \in Positions :
         [c EXCEPT !.at = w] \in Call
  BY DEF Call, Positions
<1>2. \A d \in Call : \A o \in BOOLEAN : [d EXCEPT !.open = o] \in Call
  BY DEF Call
<1>3. \A d \in Call : [d EXCEPT !.retry = @ + 1] \in Call
  BY DEF Call
<1>4. [c EXCEPT !.at = "wire"] \in Call
  BY <1>1 DEF Positions
<1>5. [[c EXCEPT !.at = "wire"] EXCEPT !.open = TRUE] \in Call
  BY <1>2, <1>4
<1>6. [[[c EXCEPT !.at = "wire"] EXCEPT !.open = TRUE] EXCEPT !.retry = @ + 1] \in Call
  BY <1>3, <1>5
<1>7. Key(c) \in Call
  BY <1>5 DEF Key
<1>8. [c EXCEPT !.at = "wire", !.open = TRUE, !.retry = @ + 1] \in Call
  BY <1>6
<1> QED
  BY <1>1, <1>2, <1>7, <1>8

\* The handler takes a call up and keeps what it is about.
LEMMA HandlerType ==
  ASSUME NEW c \in Call, NEW g \in {NotGraded} \cup Grades,
         NEW phase \in {"seq", "write", "count", "grade", "flip"}
  PROVE  /\ At(phase, Key(c), g) \in Handlers
         /\ At(phase, Key(c), g).phase = phase
         /\ At(phase, Key(c), g).call = Key(c)
         /\ At(phase, Key(c), g).graded = g
         /\ Key(c).kind = c.kind /\ Key(c).question = c.question
         /\ Key(c).seq = c.seq /\ Key(c).answer = c.answer
<1>1. Key(c) \in Call
  BY CallType
<1>2. Key(c).kind = c.kind /\ Key(c).question = c.question /\ Key(c).seq = c.seq /\ Key(c).answer = c.answer
  BY DEF Key, Call
<1> QED
  BY <1>1, <1>2 DEF At, Handlers

\* Moving a call keeps the calls calls, and what they are about.
LEMMA MovedType ==
  ASSUME CallsTyped, NEW c, NEW w \in Positions
  PROVE  /\ Moved(c, w) \subseteq Call
         /\ \A d \in Moved(c, w) : /\ d.kind = "answer" => d.question \in Questions
                                   /\ d.kind = "enter" => d.seq = 1
<1> SUFFICES ASSUME NEW d \in Moved(c, w)
             PROVE  d \in Call /\ (d.kind = "answer" => d.question \in Questions) /\ (d.kind = "enter" => d.seq = 1)
  OBVIOUS
<1>1. PICK e \in calls : d = e \/ d = [e EXCEPT !.at = w]
  BY DEF Moved
<1>2. e \in Call /\ (e.kind = "answer" => e.question \in Questions) /\ (e.kind = "enter" => e.seq = 1)
  BY DEF CallsTyped
<1>3. CASE d = e
  BY <1>2, <1>3
<1>4. CASE d = [e EXCEPT !.at = w]
  BY <1>2, <1>4 DEF Call, Positions
<1> QED
  BY <1>1, <1>3, <1>4

\* So does abandoning them.
LEMMA AbandonedType ==
  ASSUME CallsTyped, NEW C \in SUBSET calls, NEW L \in Abandoned(C)
  PROVE  /\ L \subseteq Call
         /\ \A d \in L : /\ d.kind = "answer" => d.question \in Questions
                         /\ d.kind = "enter" => d.seq = 1
<1> SUFFICES ASSUME NEW d \in L
             PROVE  d \in Call /\ (d.kind = "answer" => d.question \in Questions) /\ (d.kind = "enter" => d.seq = 1)
  OBVIOUS
<1>1. PICK e \in calls : d = [e EXCEPT !.open = FALSE]
  BY DEF Abandoned
<1>2. e \in Call /\ (e.kind = "answer" => e.question \in Questions) /\ (e.kind = "enter" => e.seq = 1)
  BY DEF CallsTyped
<1> QED
  BY <1>1, <1>2 DEF Call
-----------------------------------------------------------------------------
(* The page keeps its types.                                                 *)

\* A reply of a save, or its loss.
LEMMA SettlesType ==
  ASSUME PageTyped, NEW c \in Call, c.kind = "answer", c.question \in Questions,
         NEW outcome, Settles(c, outcome)
  PROVE  PageTyped'
<1> DEFINE q == c.question
           again == outcome = "failed" /\ c.retry < MaxRetries
           next == [c EXCEPT !.at = "wire", !.open = TRUE, !.retry = @ + 1]
<1>1. sync' \in [Questions -> SyncStates]
  BY DEF PageTyped, Settles, SyncStates
<1>2. next \in Call
  BY CallType
<1>3. next.kind = "answer" /\ next.question \in Questions
  BY DEF Call
<1>4. \A r \in Released(retries, q) : r \in Call /\ r.kind = "answer" /\ r.question \in Questions
  <2> SUFFICES ASSUME NEW r \in Released(retries, q)
               PROVE  r \in Call /\ r.kind = "answer" /\ r.question \in Questions
    OBVIOUS
  <2>1. PICK o \in retries : r = o \/ r = [o EXCEPT !.open = FALSE]
    BY DEF Released
  <2>2. o \in Call /\ o.kind = "answer" /\ o.question \in Questions
    BY DEF PageTyped
  <2> QED
    BY <2>1, <2>2 DEF Call
<1>5. retries' = retries \/ retries' = Released(retries, q) \cup {next}
  BY DEF Settles
<1>6. retries' \subseteq Call /\ \A r \in retries' : r.kind = "answer" /\ r.question \in Questions
  BY <1>2, <1>3, <1>4, <1>5 DEF PageTyped
<1>7. page' = page \/ page' = [page EXCEPT !.awaiting = @ \ {q}]
  BY DEF Settles
<1>8. page' \in Page
  BY <1>7 DEF PageTyped, Page
<1>9. UNCHANGED <<shown, timer, fired>>
  BY DEF Settles
<1> QED
  BY <1>1, <1>6, <1>8, <1>9 DEF PageTyped

\* A page load.
LEMMA LoadedType ==
  ASSUME TypeInv, Loaded
  PROVE  TypeInv'
<1>1. ServerTyped'
  BY DEF TypeInv, ServerTyped, Loaded, serverVars, Saving
<1>2. CallsTyped'
  <2>1. PICK L \in Abandoned(calls) : calls' = L
    BY DEF Loaded
  <2>2. CallsTyped
    BY DEF TypeInv
  <2>3. calls \in SUBSET calls
    OBVIOUS
  <2>4. /\ L \subseteq Call
        /\ \A d \in L : /\ d.kind = "answer" => d.question \in Questions
                        /\ d.kind = "enter" => d.seq = 1
    BY <2>2, <2>3, AbandonedType
  <2> QED
    BY <2>1, <2>4 DEF CallsTyped
<1>3. shown' \in Grades
  BY DEF Loaded, Grades, TypeInv, ServerTyped
<1>4. sync' \in [Questions -> SyncStates] /\ fired' \in [Questions -> Nat]
  BY DEF Loaded, SyncStates
<1>5. page' \in Page
  BY DEF Loaded, Page, TypeInv, ServerTyped, PageTyped
<1>6. timer' = {} /\ retries' = {}
  BY DEF Loaded
<1>7. PageTyped'
  BY <1>3, <1>4, <1>5, <1>6 DEF PageTyped
<1> QED
  BY <1>1, <1>2, <1>7 DEF TypeInv

\* The flush of a section change and of a submit.
LEMMA FlushType ==
  ASSUME TypeInv, NEW cur \in Questions, NEW flushed \in SUBSET Questions,
         NEW mode \in {"leaving", "flushing"}, Flush(cur, flushed, mode)
  PROVE  TypeInv'
<1> DEFINE late == (timer \cap flushed) \cup {cur}
           n == Cardinality(late)
<1>1. late \subseteq Questions /\ n \in Nat
  <2>1. late \subseteq Questions
    OBVIOUS
  <2>2. IsFiniteSet(late)
    BY <2>1, FS_Subset, SyncAssumption DEF SyncAssumption
  <2> QED
    BY <2>1, <2>2, FS_CardinalityType
<1>2. PICK mint \in [late -> (page.seq + 1) .. (page.seq + n)] :
         /\ fired' = [q \in Questions |-> IF q \in late THEN mint[q] ELSE fired[q]]
         /\ calls' = calls \cup {Request("answer", q, shown[q], mint[q], 0) : q \in late}
  BY DEF Flush
<1>3. page.seq \in Nat
  BY DEF TypeInv, PageTyped, Page
<1>4. \A q \in late : mint[q] \in Nat
  BY <1>1, <1>3
<1>5. fired' \in [Questions -> Nat]
  BY <1>2, <1>4 DEF TypeInv, PageTyped
<1>6. \A q \in late : Request("answer", q, shown[q], mint[q], 0) \in Call
  BY <1>1, <1>4, RequestType DEF TypeInv, PageTyped, Grades
<1>7. \A q \in late : /\ Request("answer", q, shown[q], mint[q], 0).kind = "answer"
                     /\ Request("answer", q, shown[q], mint[q], 0).question = q
  BY DEF Request
<1>8. CallsTyped'
  BY <1>1, <1>2, <1>6, <1>7 DEF TypeInv, CallsTyped
<1>9. sync' \in [Questions -> SyncStates]
  BY DEF Flush, TypeInv, PageTyped, SyncStates
<1>10. page' \in Page
  <2>1. page' = [page EXCEPT !.seq = @ + n, !.mode = mode,
                             !.awaiting = (Pending \cap flushed) \cup late]
    BY DEF Flush
  <2>2. [page EXCEPT !.seq = @ + n] \in Page
    BY <1>1 DEF TypeInv, PageTyped, Page
  <2>3. [[page EXCEPT !.seq = @ + n] EXCEPT !.mode = mode] \in Page
    BY <2>2 DEF Page
  <2>4. (Pending \cap flushed) \cup late \in SUBSET Questions
    BY <1>1
  <2>5. [[[page EXCEPT !.seq = @ + n] EXCEPT !.mode = mode]
            EXCEPT !.awaiting = (Pending \cap flushed) \cup late] \in Page
    BY <2>3, <2>4 DEF Page
  <2> QED
    BY <2>1, <2>5
<1>11. UNCHANGED <<shown, serverVars>> /\ timer' \subseteq Questions /\ retries' \subseteq retries
  BY DEF Flush, TypeInv, PageTyped, Cancelled
<1>12. PageTyped'
  BY <1>5, <1>9, <1>10, <1>11 DEF TypeInv, PageTyped
<1>13. ServerTyped'
  BY <1>11 DEF TypeInv, ServerTyped, serverVars, Saving
<1> QED
  BY <1>8, <1>12, <1>13 DEF TypeInv

\* Everything else the page does by itself.
LEMMA PageStepType ==
  ASSUME TypeInv, PageStep
  PROVE  TypeInv'
<1>1. ASSUME NEW q \in Questions, Fire(q)
      PROVE  TypeInv'
  <2>1. page.seq + 1 \in Nat /\ shown[q] \in Answers
    BY DEF TypeInv, PageTyped, Page, Grades
  <2>2. Request("answer", q, shown[q], page.seq + 1, 0) \in Call
    BY <2>1, RequestType DEF TypeInv
  <2> DEFINE c == Request("answer", q, shown[q], page.seq + 1, 0)
  <2>7. c.kind = "answer" /\ c.question = q
    BY DEF Request
  <2>8. calls' = calls \cup {c}
    BY <1>1 DEF Fire
  <2>3. CallsTyped'
    BY <2>2, <2>7, <2>8 DEF TypeInv, CallsTyped
  <2>4. page' \in Page
    BY <1>1 DEF Fire, TypeInv, PageTyped, Page
  <2>5. PageTyped'
    BY <1>1, <2>1, <2>4 DEF Fire, TypeInv, PageTyped, SyncStates
  <2>6. ServerTyped'
    BY <1>1 DEF Fire, TypeInv, ServerTyped, serverVars, Saving
  <2> QED
    BY <2>3, <2>5, <2>6 DEF TypeInv
<1>2. ASSUME NEW q \in Questions, RetryNow(q)
      PROVE  TypeInv'
  <2> DEFINE c == Request("answer", q, shown[q], fired[q], 0)
  <2>1. fired[q] \in Nat /\ shown[q] \in Answers
    BY DEF TypeInv, PageTyped, Grades
  <2>2. c \in Call
    BY <2>1, RequestType DEF TypeInv
  <2>3. [c EXCEPT !.manual = page.manual + 1] \in Call
    BY <2>2 DEF Call, TypeInv, PageTyped, Page
  <2>4. /\ [c EXCEPT !.manual = page.manual + 1].kind = "answer"
        /\ [c EXCEPT !.manual = page.manual + 1].question = q
    BY DEF Request
  <2>5. CallsTyped'
    BY <1>2, <2>3, <2>4 DEF RetryNow, TypeInv, CallsTyped
  <2>6. page' \in Page
    BY <1>2 DEF RetryNow, TypeInv, PageTyped, Page
  <2>7. PageTyped'
    BY <1>2, <2>6 DEF RetryNow, TypeInv, PageTyped, SyncStates, Cancelled
  <2>8. ServerTyped'
    BY <1>2 DEF RetryNow, TypeInv, ServerTyped, serverVars, Saving
  <2> QED
    BY <2>5, <2>7, <2>8 DEF TypeInv
<1>3. ASSUME NEW q \in Questions, BeginLeave(q)
      PROVE  TypeInv'
  <2>1. Questions \ Later \in SUBSET Questions
    OBVIOUS
  <2> QED
    BY <1>3, <2>1, FlushType DEF BeginLeave
<1>4. ASSUME NEW q \in Questions, NEW a \in Answers, Change(q, a)
      PROVE  TypeInv'
  <2>1. PageTyped'
    BY <1>4 DEF Change, TypeInv, PageTyped, SyncStates, Cancelled, Grades
  <2>2. CallsTyped' /\ ServerTyped'
    BY <1>4 DEF Change, TypeInv, CallsTyped, ServerTyped, serverVars, Saving
  <2> QED
    BY <2>1, <2>2 DEF TypeInv
<1>5. ASSUME NEW q \in Questions, NEW pressed \in BOOLEAN, BeginSubmit(q, pressed)
      PROVE  TypeInv'
  <2>1. Questions \in SUBSET Questions
    OBVIOUS
  <2> QED
    BY <1>5, <2>1, FlushType DEF BeginSubmit
<1>6. ASSUME NEW r \in retries, RetryFires(r)
      PROVE  TypeInv'
  <2>1. r \in Call /\ r.kind = "answer" /\ r.question \in Questions
    BY DEF TypeInv, PageTyped
  <2>2. /\ [r EXCEPT !.open = TRUE] \in Call
        /\ [r EXCEPT !.open = TRUE].kind = "answer"
        /\ [r EXCEPT !.open = TRUE].question \in Questions
    BY <2>1, CallType DEF Call
  <2>3. CallsTyped'
    BY <1>6, <2>2 DEF RetryFires, TypeInv, CallsTyped
  <2>4. \A t \in retries' : t \in Call /\ t.kind = "answer" /\ t.question \in Questions
    <3> SUFFICES ASSUME NEW t \in retries'
                 PROVE  t \in Call /\ t.kind = "answer" /\ t.question \in Questions
      OBVIOUS
    <3>1. PICK o \in retries : t = o \/ t = [o EXCEPT !.open = FALSE]
      BY <1>6 DEF RetryFires, Released
    <3>2. o \in Call /\ o.kind = "answer" /\ o.question \in Questions
      BY DEF TypeInv, PageTyped
    <3> QED
      BY <3>1, <3>2 DEF Call
  <2>5. sync' \in [Questions -> SyncStates]
    BY <1>6, <2>1 DEF RetryFires, TypeInv, PageTyped, SyncStates
  <2>6. PageTyped'
    BY <1>6, <2>4, <2>5 DEF RetryFires, TypeInv, PageTyped
  <2>7. ServerTyped'
    BY <1>6 DEF RetryFires, TypeInv, ServerTyped, serverVars, Saving
  <2> QED
    BY <2>3, <2>6, <2>7 DEF TypeInv
<1>7. CASE Leave
  <2>1. Request("enter", NoQuestion, Unanswered, 1, 0) \in Call
    BY RequestType DEF TypeInv, Answers
  <2> DEFINE c == Request("enter", NoQuestion, Unanswered, 1, 0)
  <2>6. c.kind = "enter" /\ c.seq = 1
    BY DEF Request
  <2>7. calls' = calls \cup {c}
    BY <1>7 DEF Leave
  <2>2. CallsTyped'
    BY <2>1, <2>6, <2>7 DEF TypeInv, CallsTyped
  <2>3. page' \in Page
    <3>1. page' = [page EXCEPT !.mode = "answering", !.here = 1]
      BY <1>7 DEF Leave
    <3>2. [page EXCEPT !.mode = "answering"] \in Page
      BY DEF TypeInv, PageTyped, Page
    <3>3. [[page EXCEPT !.mode = "answering"] EXCEPT !.here = 1] \in Page
      BY <3>2 DEF Page
    <3> QED
      BY <3>1, <3>3
  <2>4. PageTyped'
    BY <1>7, <2>3 DEF Leave, TypeInv, PageTyped
  <2>5. ServerTyped'
    BY <1>7 DEF Leave, TypeInv, ServerTyped, serverVars, Saving
  <2> QED
    BY <2>2, <2>4, <2>5 DEF TypeInv
<1>8. CASE EndFlush
  <2> DEFINE c == Request("submit", NoQuestion, Unanswered, Cardinality(SavedWithAnswer), page.submits)
  <2>1. Cardinality(SavedWithAnswer) \in Nat
    <3>1. SavedWithAnswer \subseteq Questions
      BY DEF SavedWithAnswer
    <3>2. IsFiniteSet(SavedWithAnswer)
      BY <3>1, FS_Subset, SyncAssumption DEF SyncAssumption
    <3> QED
      BY <3>2, FS_CardinalityType
  <2>2. page.submits \in Nat
    BY DEF TypeInv, PageTyped, Page
  <2>3. c \in Call
    BY <2>1, <2>2, RequestType DEF TypeInv, Answers
  <2>4. c.kind = "submit"
    BY DEF Request
  <2>5. calls' = calls \/ calls' = calls \cup {c}
    BY <1>8 DEF EndFlush
  <2>6. CallsTyped'
    BY <2>3, <2>4, <2>5 DEF TypeInv, CallsTyped
  <2>7. page' \in Page
    <3>1. PICK m \in {"answering", "submitting"} : page' = [page EXCEPT !.mode = m, !.submits = @ + 1]
      BY <1>8 DEF EndFlush
    <3>2. [page EXCEPT !.mode = m] \in Page
      BY DEF TypeInv, PageTyped, Page
    <3>4. \A d \in Page : [d EXCEPT !.submits = @ + 1] \in Page
      BY DEF Page
    <3>3. [[page EXCEPT !.mode = m] EXCEPT !.submits = @ + 1] \in Page
      BY <3>2, <3>4
    <3> QED
      BY <3>1, <3>3
  <2>8. PageTyped'
    BY <1>8, <2>7 DEF EndFlush, TypeInv, PageTyped
  <2>9. ServerTyped'
    BY <1>8 DEF EndFlush, TypeInv, ServerTyped, serverVars, Saving
  <2> QED
    BY <2>6, <2>8, <2>9 DEF TypeInv
<1>9. CASE Reload
  BY <1>9, LoadedType DEF Reload
<1> QED
  BY <1>1, <1>2, <1>3, <1>4, <1>5, <1>6, <1>7, <1>8, <1>9 DEF PageStep

\* A reply reaches the page, or a request or its reply does not.
LEMMA NetworkStepType ==
  ASSUME TypeInv, NetworkStep
  PROVE  TypeInv'
<1>1. PICK c \in calls : SaveReply(c) \/ SubmitReply(c) \/ EnterReply(c) \/ Lost(c)
  BY DEF NetworkStep
<1>2. c \in Call /\ (c.kind = "answer" => c.question \in Questions)
  BY DEF TypeInv, CallsTyped
<1>3. CASE SaveReply(c)
  <2>1. c.kind = "answer" /\ Settles(c, c.at) /\ calls' = calls \ {c}
    BY <1>3 DEF SaveReply
  <2>2. PageTyped'
    BY <1>2, <2>1, SettlesType DEF TypeInv
  <2>3. UNCHANGED serverVars
    BY <2>1 DEF Settles
  <2>4. CallsTyped' /\ ServerTyped'
    BY <2>1, <2>3 DEF TypeInv, CallsTyped, ServerTyped, serverVars, Saving
  <2> QED
    BY <2>2, <2>4 DEF TypeInv
<1>4. CASE SubmitReply(c)
  <2>1. CASE c.at = "conflict"
    BY <1>4, <2>1, LoadedType DEF SubmitReply
  <2>2. CASE c.at # "conflict"
    <3>1. /\ page' = [page EXCEPT !.mode = IF c.at = "ok" THEN "result" ELSE "answering"]
          /\ calls' = calls \ {c}
          /\ UNCHANGED <<shown, sync, timer, fired, retries, serverVars>>
      BY <1>4, <2>2 DEF SubmitReply
    <3>2. page' \in Page
      BY <3>1 DEF TypeInv, PageTyped, Page
    <3>3. PageTyped'
      BY <3>1, <3>2 DEF TypeInv, PageTyped
    <3>4. CallsTyped' /\ ServerTyped'
      BY <3>1 DEF TypeInv, CallsTyped, ServerTyped, serverVars, Saving
    <3> QED
      BY <3>3, <3>4 DEF TypeInv
  <2> QED
    BY <2>1, <2>2
<1>5. CASE EnterReply(c)
  BY <1>5 DEF EnterReply, TypeInv, CallsTyped, PageTyped, ServerTyped, pageVars, serverVars, Saving
<1>6. CASE Lost(c)
  <2>1. CallsTyped'
    <3>1. PICK L \in Abandoned(Closed \cup {c}) : calls' = (calls \ (Closed \cup {c})) \cup L
      BY <1>6 DEF Lost
    <3>2. Closed \cup {c} \in SUBSET calls
      BY DEF Closed
    <3>3. /\ L \subseteq Call
          /\ \A d \in L : /\ d.kind = "answer" => d.question \in Questions
                          /\ d.kind = "enter" => d.seq = 1
      BY <3>2, AbandonedType DEF TypeInv
    <3>4. \A d \in calls' : d \in calls \/ d \in L
      BY <3>1
    <3>5. CallsTyped
      BY DEF TypeInv
    <3> QED
      BY <3>3, <3>4, <3>5 DEF CallsTyped, Call
  <2>2. CASE c.kind = "answer"
    <3>1. Settles(c, "failed")
      BY <1>6, <2>2 DEF Lost
    <3>2. PageTyped'
      BY <1>2, <2>2, <3>1, SettlesType DEF TypeInv
    <3>3. UNCHANGED serverVars
      BY <3>1 DEF Settles
    <3>4. ServerTyped'
      BY <3>3 DEF TypeInv, ServerTyped, serverVars, Saving
    <3> QED
      BY <2>1, <3>2, <3>4 DEF TypeInv
  <2>3. CASE c.kind = "submit"
    <3>1. /\ page' = [page EXCEPT !.mode = "answering"]
          /\ UNCHANGED <<shown, sync, timer, fired, retries, serverVars>>
      BY <1>6, <2>3 DEF Lost
    <3>2. page' \in Page
      BY <3>1 DEF TypeInv, PageTyped, Page
    <3>3. PageTyped' /\ ServerTyped'
      BY <3>1, <3>2 DEF TypeInv, PageTyped, ServerTyped, serverVars, Saving
    <3> QED
      BY <2>1, <3>3 DEF TypeInv
  <2>4. CASE c.kind = "enter"
    <3>1. UNCHANGED <<pageVars, serverVars>>
      BY <1>6, <2>4 DEF Lost
    <3>2. PageTyped' /\ ServerTyped'
      BY <3>1 DEF TypeInv, PageTyped, ServerTyped, pageVars, serverVars, Saving
    <3> QED
      BY <2>1, <3>2 DEF TypeInv
  <2> QED
    BY <1>2, <2>2, <2>3, <2>4 DEF Call
<1> QED
  BY <1>1, <1>3, <1>4, <1>5, <1>6

-----------------------------------------------------------------------------
(* The servers keep their types.                                             *)

Phases == {"seq", "write", "count", "grade", "flip"}

\* What a busy server holds.
LEMMA BusyType ==
  ASSUME ServerTyped, NEW s \in Servers, handler[s] # Idle
  PROVE  /\ handler[s].phase \in Phases
         /\ handler[s].call \in Call
         /\ handler[s].graded \in {NotGraded} \cup Grades
BY DEF ServerTyped, Handlers, Phases

\* A server takes a call up, or goes on with it.
LEMMA HandsType ==
  ASSUME TypeInv, NEW s \in Servers, NEW phase \in Phases, NEW c \in Call,
         NEW g \in {NotGraded} \cup Grades,
         phase \in {"seq", "write"} => c.question \in Questions,
         Hands(s, phase, c, g), UNCHANGED <<rows, grade, section, clock, sweeper, pageVars>>
  PROVE  TypeInv'
<1>1. handler' = [handler EXCEPT ![s] = At(phase, Key(c), g)]
  BY DEF Hands
<1>2. /\ At(phase, Key(c), g) \in Handlers
      /\ At(phase, Key(c), g).phase = phase
      /\ At(phase, Key(c), g).call.question = c.question
  BY HandlerType DEF Phases
<1>3. handler' \in [Servers -> Handlers]
  BY <1>1, <1>2 DEF TypeInv, ServerTyped
<1>4. \A t \in Servers : Saving(t)' => handler'[t].call.question \in Questions
  BY <1>1, <1>2 DEF TypeInv, ServerTyped, Saving
<1>5. ServerTyped'
  BY <1>3, <1>4 DEF TypeInv, ServerTyped
<1>6. calls' = Moved(c, "server")
  BY DEF Hands
<1>7. CallsTyped
  BY DEF TypeInv
<1>8. CallsTyped'
  BY <1>6, <1>7, MovedType DEF CallsTyped, Positions
<1>9. PageTyped'
  BY DEF TypeInv, PageTyped, pageVars
<1> QED
  BY <1>5, <1>8, <1>9 DEF TypeInv

\* A server is done with a call, whatever else of the attempt it wrote.
LEMMA RepliesType ==
  ASSUME TypeInv, NEW s \in Servers, NEW c, NEW outcome \in Positions, Replies(s, c, outcome),
         rows' \in [Questions -> [answer : Answers, seq : Nat]],
         grade' \in {NotGraded} \cup Grades, section' \in {0, 1},
         UNCHANGED <<clock, sweeper, pageVars>>
  PROVE  TypeInv'
<1>1. handler' = [handler EXCEPT ![s] = Idle] /\ calls' = Moved(c, outcome)
  BY DEF Replies
<1>2. ServerTyped'
  BY <1>1 DEF TypeInv, ServerTyped, Saving, Idle, Handlers
<1>3. CallsTyped
  BY DEF TypeInv
<1>4. CallsTyped'
  BY <1>1, <1>3, MovedType DEF CallsTyped
<1>5. PageTyped'
  BY DEF TypeInv, PageTyped, pageVars
<1> QED
  BY <1>2, <1>4, <1>5 DEF TypeInv

\* What is scored is a grade.
LEMMA ScoredType ==
  ASSUME TypeInv
  PROVE  Scored \subseteq Grades
BY DEF TypeInv, ServerTyped, Scored, Grades, Answers

LEMMA ServerStepType ==
  ASSUME TypeInv, ServerStep
  PROVE  TypeInv'
<1> USE DEF Phases, Positions
<1>0. /\ rows \in [Questions -> [answer : Answers, seq : Nat]]
      /\ grade \in {NotGraded} \cup Grades /\ section \in {0, 1}
  BY DEF TypeInv, ServerTyped
<1>1. \A c \in calls : c \in Call /\ (c.kind = "answer" => c.question \in Questions)
                       /\ (c.kind = "enter" => c.seq = 1)
  BY DEF TypeInv, CallsTyped
<1>2. ASSUME NEW s \in Servers, NEW p \in Phases, handler[s].phase = p
      PROVE  /\ handler[s].call \in Call /\ handler[s].graded \in {NotGraded} \cup Grades
             /\ p \in {"seq", "write"} => handler[s].call.question \in Questions
  BY <1>2, BusyType DEF TypeInv, ServerTyped, Idle, Saving
<1>3. ASSUME NEW s \in Servers, NEW c \in calls, ServeAnswer(s, c)
      PROVE  TypeInv'
  <2>1. CASE Hands(s, "seq", c, NotGraded)
    BY <1>1, <1>3, <2>1, HandsType DEF ServeAnswer
  <2>2. CASE Replies(s, c, "refused")
    BY <1>0, <1>3, <2>2, RepliesType DEF ServeAnswer
  <2> QED
    BY <1>3, <2>1, <2>2 DEF ServeAnswer
<1>4. ASSUME NEW s \in Servers, NEW c \in calls, ServeEnter(s, c)
      PROVE  TypeInv'
  <2>1. PICK outcome \in {"ok", "refused"} : Replies(s, c, outcome)
    BY <1>4 DEF ServeEnter
  <2>2. section' \in {0, 1}
    BY <1>0, <1>1, <1>4 DEF ServeEnter
  <2> QED
    BY <1>0, <1>4, <2>1, <2>2, RepliesType DEF ServeEnter
<1>5. ASSUME NEW s \in Servers, NEW c \in calls, ServeSubmit(s, c)
      PROVE  TypeInv'
  <2>1. CASE \E outcome \in {"ok", "refused"} : Replies(s, c, outcome)
    BY <1>0, <1>5, <2>1, RepliesType DEF ServeSubmit
  <2>2. CASE \E phase \in {"count", "grade"} : Hands(s, phase, c, NotGraded)
    BY <1>1, <1>5, <2>2, HandsType DEF ServeSubmit
  <2> QED
    BY <1>5, <2>1, <2>2 DEF ServeSubmit
<1>6. ASSUME NEW s \in Servers, ReadSeq(s)
      PROVE  TypeInv'
  <2> DEFINE c == handler[s].call
  <2>1. c \in Call /\ c.question \in Questions
    BY <1>2, <1>6 DEF ReadSeq
  <2>2. CASE Hands(s, "write", c, NotGraded)
    BY <1>6, <2>1, <2>2, HandsType DEF ReadSeq
  <2>3. CASE Replies(s, c, "ok")
    BY <1>0, <1>6, <2>3, RepliesType DEF ReadSeq
  <2> QED
    BY <1>6, <2>2, <2>3 DEF ReadSeq
<1>7. ASSUME NEW s \in Servers, WriteAnswer(s)
      PROVE  TypeInv'
  <2> DEFINE c == handler[s].call
             written == [rows EXCEPT ![c.question] = [answer |-> c.answer, seq |-> c.seq]]
  <2>1. c \in Call /\ c.question \in Questions
    BY <1>2, <1>7 DEF WriteAnswer
  <2>2. written \in [Questions -> [answer : Answers, seq : Nat]]
    BY <1>0, <2>1 DEF Call
  <2>3. rows' \in {rows, written}
    BY <1>7 DEF WriteAnswer
  <2>4. \E outcome \in {"ok", "failed"} : Replies(s, c, outcome)
    BY <1>7 DEF WriteAnswer
  <2> QED
    BY <1>0, <1>7, <2>2, <2>3, <2>4, RepliesType DEF WriteAnswer
<1>8. ASSUME NEW s \in Servers, CountAnswers(s)
      PROVE  TypeInv'
  <2> DEFINE c == handler[s].call
  <2>1. c \in Call
    BY <1>2, <1>8 DEF CountAnswers
  <2>2. CASE Hands(s, "grade", c, NotGraded)
    BY <1>8, <2>1, <2>2, HandsType DEF CountAnswers
  <2>3. CASE Replies(s, c, "conflict")
    BY <1>0, <1>8, <2>3, RepliesType DEF CountAnswers
  <2> QED
    BY <1>8, <2>2, <2>3 DEF CountAnswers
<1>9. ASSUME NEW s \in Servers, ReadAnswers(s)
      PROVE  TypeInv'
  <2> DEFINE c == handler[s].call
  <2>1. c \in Call
    BY <1>2, <1>9 DEF ReadAnswers
  <2>2. CASE \E g \in Scored : Hands(s, "flip", c, g)
    BY <1>9, <2>1, <2>2, ScoredType, HandsType DEF ReadAnswers
  <2>3. CASE Replies(s, c, "failed")
    BY <1>0, <1>9, <2>3, RepliesType DEF ReadAnswers
  <2> QED
    BY <1>9, <2>2, <2>3 DEF ReadAnswers
<1>10. ASSUME NEW s \in Servers, Flip(s)
       PROVE  TypeInv'
  <2> DEFINE c == handler[s].call
  <2>1. grade' \in {NotGraded} \cup Grades
    BY <1>0, <1>2, <1>10 DEF Flip
  <2>2. \E outcome \in {"ok", "failed"} : Replies(s, c, outcome)
    BY <1>10 DEF Flip
  <2> QED
    BY <1>0, <1>10, <2>1, <2>2, RepliesType DEF Flip
<1>11. ASSUME NEW s \in Servers, Crash(s)
       PROVE  TypeInv'
  BY <1>0, <1>11, RepliesType DEF Crash
<1>12. CASE Sweep \/ SweepFlip \/ Tick
  <2>1. ServerTyped'
    BY <1>12, ScoredType DEF Sweep, SweepFlip, Tick, TypeInv, ServerTyped, Saving, Idle
  <2>2. CallsTyped' /\ PageTyped'
    BY <1>12 DEF Sweep, SweepFlip, Tick, TypeInv, CallsTyped, PageTyped, pageVars
  <2> QED
    BY <2>1, <2>2 DEF TypeInv
<1> QED
  BY <1>3, <1>4, <1>5, <1>6, <1>7, <1>8, <1>9, <1>10, <1>11, <1>12 DEF ServerStep

LEMMA TypesHold == Spec => []TypeInv
<1>1. Init => TypeInv
  BY DEF Init, TypeInv, ServerTyped, CallsTyped, PageTyped, Page, Grades, Answers, SyncStates,
         Handlers, Idle, Saving
<1>2. TypeInv /\ [Next]_vars => TypeInv'
  <2> SUFFICES ASSUME TypeInv, [Next]_vars
               PROVE  TypeInv'
    OBVIOUS
  <2>1. CASE UNCHANGED vars
    BY <2>1 DEF vars, TypeInv, ServerTyped, CallsTyped, PageTyped, Saving
  <2> QED
    BY <2>1, PageStepType, NetworkStepType, ServerStepType DEF Next
<1> QED
  BY <1>1, <1>2, PTL DEF Spec

\* The types are kept whatever the page, the network and the servers do.
THEOREM SyncTypeCorrect == Spec => []TypeOK
<1>1. TypeInv => TypeOK
  BY DEF TypeInv, ServerTyped, CallsTyped, PageTyped, TypeOK
<1> QED
  BY <1>1, TypesHold, PTL

-----------------------------------------------------------------------------
(* One server process whose reads do not fail implements AnswerSheet.        *)

\* The deployment (WEB_CONCURRENCY=1) without the faults that break the promise.
OneServer ==
  /\ \A s, t \in Servers : s = t
  /\ "read" \notin Faults
  /\ GraceHolds

Stored == [q \in Questions |-> rows[q].answer]

\* What is being scored is what is stored, and it stays so: nothing is saved once
\* the sweeper may grade, nor once the attempt is graded. A save about to be
\* written is newer than its row.
SheetInv ==
  /\ \A s \in Servers : Saving(s) => grade = NotGraded /\ clock # "overdue"
  /\ \A s \in Servers : handler[s].phase = "write" =>
                          handler[s].call.seq > rows[handler[s].call.question].seq
  /\ \A s \in Servers : handler[s].phase = "flip" => handler[s].graded = Stored
  /\ sweeper # Idle => clock = "overdue" /\ sweeper.graded = Stored
  /\ grade # NotGraded => grade = Stored

\* Taking a call up, or going on with it, keeps SheetInv.
LEMMA HandsSheet ==
  ASSUME TypeInv, SheetInv, NEW s \in Servers, NEW phase \in Phases, NEW c \in Call,
         NEW g \in {NotGraded} \cup Grades,
         phase \in {"seq", "write"} => grade = NotGraded /\ clock # "overdue",
         phase = "write" => c.seq > rows[c.question].seq,
         phase = "flip" => g = Stored,
         Hands(s, phase, c, g), UNCHANGED <<rows, grade, section, clock, sweeper, pageVars>>
  PROVE  SheetInv'
<1>1. handler' = [handler EXCEPT ![s] = At(phase, Key(c), g)]
  BY DEF Hands
<1>2. /\ At(phase, Key(c), g).phase = phase
      /\ At(phase, Key(c), g).call.question = c.question
      /\ At(phase, Key(c), g).call.seq = c.seq
      /\ At(phase, Key(c), g).graded = g
  BY HandlerType DEF Phases
<1>3. \A t \in Servers : t # s => handler'[t] = handler[t]
  BY <1>1 DEF TypeInv, ServerTyped
<1>4. handler'[s] = At(phase, Key(c), g)
  BY <1>1 DEF TypeInv, ServerTyped
<1>5. Stored' = Stored
  BY DEF Stored
<1> QED
  BY <1>2, <1>3, <1>4, <1>5 DEF SheetInv, Saving

\* So does being done with one, as long as the rows and the grade stay.
LEMMA RepliesSheet ==
  ASSUME TypeInv, SheetInv, NEW s \in Servers, NEW c, NEW outcome \in Positions,
         Replies(s, c, outcome), UNCHANGED <<rows, grade, clock, sweeper>>
  PROVE  SheetInv'
<1>1. handler' = [handler EXCEPT ![s] = Idle]
  BY DEF Replies
<1>2. \A t \in Servers : handler'[t] = handler[t] \/ handler'[t] = Idle
  BY <1>1 DEF TypeInv, ServerTyped
<1>3. Idle.phase = "idle"
  BY DEF Idle
<1>4. Stored' = Stored
  BY DEF Stored
<1> QED
  BY <1>2, <1>3, <1>4 DEF SheetInv, Saving

\* Without faults of reading, what is scored is what is stored.
LEMMA ScoredIsStored ==
  ASSUME OneServer
  PROVE  Scored = {Stored}
BY DEF OneServer, Scored, Stored

\* The steps of the sheet.
LEMMA FlipStep ==
  ASSUME OneServer, TypeInv, SheetInv, NEW s \in Servers, Flip(s)
  PROVE  SheetInv' /\ (Sheet!Grade \/ UNCHANGED Sheet!sheetVars)
<1>1. handler[s].graded = Stored /\ grade' \in {grade, Stored}
  BY DEF Flip, SheetInv
<1>2. PICK outcome \in {"ok", "failed"} : Replies(s, handler[s].call, outcome)
  BY DEF Flip
<1>3. UNCHANGED <<rows, clock, sweeper>> /\ Stored' = Stored
  BY DEF Flip, Stored
<1>4. handler' = [handler EXCEPT ![s] = Idle]
  BY <1>2 DEF Replies
<1>5. \A t \in Servers : t = s /\ handler'[t] = Idle
  BY <1>4 DEF OneServer, TypeInv, ServerTyped
<1>6. SheetInv'
  BY <1>1, <1>3, <1>5 DEF SheetInv, Saving, Idle
<1>7. Sheet!Grade \/ UNCHANGED Sheet!sheetVars
  BY <1>1, <1>3 DEF Sheet!Grade, Sheet!sheetVars, SheetInv, Stored
<1> QED
  BY <1>6, <1>7

LEMMA SweepFlipStep ==
  ASSUME OneServer, TypeInv, SheetInv, SweepFlip
  PROVE  SheetInv' /\ (Sheet!Grade \/ UNCHANGED Sheet!sheetVars)
<1>1. sweeper.graded = Stored /\ clock = "overdue" /\ grade' \in {grade, Stored}
  BY DEF SweepFlip, SheetInv
<1>2. UNCHANGED <<rows, clock, handler>> /\ Stored' = Stored /\ sweeper' = Idle
  BY DEF SweepFlip, Stored
<1>3. SheetInv'
  BY <1>1, <1>2 DEF SheetInv, Saving
<1>4. Sheet!Grade \/ UNCHANGED Sheet!sheetVars
  BY <1>1, <1>2 DEF Sheet!Grade, Sheet!sheetVars, SheetInv, Stored
<1> QED
  BY <1>3, <1>4

LEMMA WriteStep ==
  ASSUME OneServer, TypeInv, SheetInv, NEW s \in Servers, WriteAnswer(s)
  PROVE  SheetInv' /\ (\/ \E q \in Questions : Sheet!Record(q)
                       \/ UNCHANGED Sheet!sheetVars)
<1> DEFINE c == handler[s].call
           q == c.question
           written == [rows EXCEPT ![q] = [answer |-> c.answer, seq |-> c.seq]]
<1>1. handler[s].phase = "write" /\ rows' \in {rows, written}
  BY DEF WriteAnswer
<1>2. /\ grade = NotGraded /\ clock # "overdue" /\ sweeper = Idle
      /\ c.seq > rows[q].seq /\ q \in Questions
  BY <1>1 DEF SheetInv, Saving, TypeInv, ServerTyped
<1>3. \A t \in Servers : handler'[t] = Idle
  BY DEF WriteAnswer, Replies, OneServer, TypeInv, ServerTyped
<1>4. UNCHANGED <<grade, clock, sweeper>>
  BY DEF WriteAnswer
<1>5. SheetInv'
  BY <1>2, <1>3, <1>4 DEF SheetInv, Saving, Idle
<1>6. CASE rows' = rows
  BY <1>4, <1>5, <1>6 DEF Sheet!sheetVars
<1>7. CASE rows' = written
  <2>1. \A p \in Questions : rows'[p] = IF p = q THEN [answer |-> c.answer, seq |-> c.seq] ELSE rows[p]
    BY <1>2, <1>7 DEF TypeInv, ServerTyped
  <2> DEFINE sheet == [p \in Questions |-> rows[p].answer]
             minted == [p \in Questions |-> rows[p].seq]
  <2>2. /\ sheet'[q] = rows'[q].answer /\ minted'[q] = rows'[q].seq
        /\ minted[q] = rows[q].seq /\ rows'[q].seq > rows[q].seq
    BY <1>2, <2>1
  <2>3. sheet' = [sheet EXCEPT ![q] = sheet'[q]]
    BY <2>1
  <2>4. minted' = [minted EXCEPT ![q] = minted'[q]]
    BY <2>1
  <2>6. minted'[q] > minted[q]
    BY <2>2
  <2>5. Sheet!Record(q)
    BY <1>2, <1>4, <2>3, <2>4, <2>6 DEF Sheet!Record
  <2>7. q \in Questions
    BY <1>2
  <2> HIDE DEF q
  <2>8. \E p \in Questions : Sheet!Record(p)
    BY <2>5, <2>7 DEF Sheet!Record
  <2> QED
    BY <1>5, <2>8
<1> QED
  BY <1>1, <1>5, <1>6, <1>7

LEMMA SheetStep ==
  ASSUME OneServer, TypeInv, SheetInv, [Next]_vars
  PROVE  SheetInv' /\ [Sheet!Next]_(Sheet!sheetVars)
<1> USE DEF Phases, Positions
<1>1. CASE UNCHANGED serverVars
  BY <1>1 DEF serverVars, SheetInv, Saving, Stored, Sheet!sheetVars
<1>2. CASE PageStep \/ NetworkStep \/ UNCHANGED vars
  <2>1. UNCHANGED serverVars
    BY <1>2 DEF PageStep, NetworkStep, Fire, RetryNow, BeginLeave, Change, BeginSubmit, RetryFires,
                Leave, EndFlush, Reload, Loaded, Flush, SaveReply, SubmitReply, EnterReply, Lost,
                Settles, vars, serverVars, pageVars, TypeInv, CallsTyped, Call
  <2> QED
    BY <1>1, <2>1
<1>3. ASSUME NEW s \in Servers, NEW c \in Call, NEW outcome \in Positions, Replies(s, c, outcome),
             UNCHANGED <<rows, grade, clock, sweeper>>
      PROVE  SheetInv' /\ UNCHANGED Sheet!sheetVars
  BY <1>3, RepliesSheet DEF Sheet!sheetVars
<1>4. \A c \in calls : c \in Call
  BY DEF TypeInv, CallsTyped
<1>5. ASSUME NEW s \in Servers, NEW p \in Phases, handler[s].phase = p
      PROVE  handler[s].call \in Call
  BY <1>5, BusyType DEF TypeInv, Idle
<1>6. ASSUME NEW s \in Servers, NEW c \in calls, ServeAnswer(s, c)
      PROVE  SheetInv' /\ UNCHANGED Sheet!sheetVars
  <2>1. CASE Replies(s, c, "refused")
    BY <1>3, <1>4, <1>6, <2>1 DEF ServeAnswer
  <2>2. CASE grade = NotGraded /\ clock = "open" /\ Hands(s, "seq", c, NotGraded)
    BY <1>4, <1>6, <2>2, HandsSheet DEF ServeAnswer, Sheet!sheetVars
  <2> QED
    BY <1>6, <2>1, <2>2 DEF ServeAnswer
<1>7. ASSUME NEW s \in Servers, NEW c \in calls, ServeEnter(s, c)
      PROVE  SheetInv' /\ UNCHANGED Sheet!sheetVars
  BY <1>3, <1>4, <1>7 DEF ServeEnter
<1>8. ASSUME NEW s \in Servers, NEW c \in calls, ServeSubmit(s, c)
      PROVE  SheetInv' /\ UNCHANGED Sheet!sheetVars
  <2>1. CASE \E outcome \in {"ok", "refused"} : Replies(s, c, outcome)
    BY <1>3, <1>4, <1>8, <2>1 DEF ServeSubmit
  <2>2. CASE \E phase \in {"count", "grade"} : Hands(s, phase, c, NotGraded)
    BY <1>4, <1>8, <2>2, HandsSheet DEF ServeSubmit, Sheet!sheetVars
  <2> QED
    BY <1>8, <2>1, <2>2 DEF ServeSubmit
<1>9. ASSUME NEW s \in Servers, ReadSeq(s)
      PROVE  SheetInv' /\ UNCHANGED Sheet!sheetVars
  <2> DEFINE c == handler[s].call
  <2>1. /\ c \in Call /\ c.seq \in Nat /\ rows[c.question].seq \in Nat
        /\ grade = NotGraded /\ clock # "overdue"
    BY <1>5, <1>9 DEF ReadSeq, Call, SheetInv, Saving, TypeInv, ServerTyped
  <2>2. CASE Replies(s, c, "ok")
    BY <1>3, <1>9, <2>1, <2>2 DEF ReadSeq
  <2>3. CASE c.seq > rows[c.question].seq /\ Hands(s, "write", c, NotGraded)
    BY <1>9, <2>1, <2>3, HandsSheet DEF ReadSeq, Sheet!sheetVars
  <2> QED
    BY <1>9, <2>2, <2>3 DEF ReadSeq, OneServer
<1>10. ASSUME NEW s \in Servers, CountAnswers(s)
       PROVE  SheetInv' /\ UNCHANGED Sheet!sheetVars
  <2> DEFINE c == handler[s].call
  <2>1. c \in Call
    BY <1>5, <1>10 DEF CountAnswers
  <2>2. CASE Replies(s, c, "conflict")
    BY <1>3, <1>10, <2>1, <2>2 DEF CountAnswers
  <2>3. CASE Hands(s, "grade", c, NotGraded)
    BY <1>10, <2>1, <2>3, HandsSheet DEF CountAnswers, Sheet!sheetVars
  <2> QED
    BY <1>10, <2>2, <2>3 DEF CountAnswers
<1>11. ASSUME NEW s \in Servers, ReadAnswers(s)
       PROVE  SheetInv' /\ UNCHANGED Sheet!sheetVars
  <2> DEFINE c == handler[s].call
  <2>1. c \in Call
    BY <1>5, <1>11 DEF ReadAnswers
  <2>2. CASE Replies(s, c, "failed")
    BY <1>3, <1>11, <2>1, <2>2 DEF ReadAnswers
  <2>3. CASE Hands(s, "flip", c, Stored)
    <3>1. Stored \in Grades
      BY ScoredIsStored, ScoredType
    <3> QED
      BY <1>11, <2>1, <2>3, <3>1, HandsSheet DEF ReadAnswers, Sheet!sheetVars
  <2> QED
    BY <1>11, <2>2, <2>3, ScoredIsStored DEF ReadAnswers
<1>12. ASSUME NEW s \in Servers, Crash(s)
       PROVE  SheetInv' /\ UNCHANGED Sheet!sheetVars
  BY <1>12, RepliesSheet DEF Crash, Sheet!sheetVars
<1>13. ASSUME Sweep
       PROVE  SheetInv' /\ UNCHANGED Sheet!sheetVars
  <2>1. sweeper' = [phase |-> "flip", graded |-> Stored] /\ clock = "overdue"
    BY <1>13, ScoredIsStored DEF Sweep
  <2>2. UNCHANGED <<rows, grade, clock, handler>> /\ Stored' = Stored
    BY <1>13 DEF Sweep, Stored
  <2> QED
    BY <2>1, <2>2 DEF SheetInv, Saving, Sheet!sheetVars
<1>14. ASSUME Tick
       PROVE  SheetInv' /\ UNCHANGED Sheet!sheetVars
  <2>1. UNCHANGED <<rows, grade, handler, sweeper>> /\ Stored' = Stored
    BY <1>14 DEF Tick, Stored
  <2>2. clock' = "overdue" => \A s \in Servers : ~Saving(s)
    BY <1>14 DEF Tick, OneServer
  <2>3. clock # "overdue"
    BY <1>14 DEF Tick
  <2> QED
    BY <2>1, <2>2, <2>3 DEF SheetInv, Saving, Sheet!sheetVars
<1> QED
  BY <1>2, <1>6, <1>7, <1>8, <1>9, <1>10, <1>11, <1>12, <1>13, <1>14,
     FlipStep, SweepFlipStep, WriteStep DEF Next, ServerStep, Sheet!Next

\* One server process, its sweeper beside it, loses no answer: a row is replaced
\* only by a save minted later, and the attempt is graded once, on the rows as they
\* stand, whatever is lost, late, retried, or dies.
THEOREM OneServerImplementsSheet ==
  ASSUME OneServer
  PROVE  Spec => ImplementsSheet
<1>1. Init => Sheet!Init /\ SheetInv
  BY SyncAssumption DEF Init, Sheet!Init, SheetInv, Saving, Idle, Answers, SyncAssumption
<1>2. TypeInv /\ SheetInv /\ [Next]_vars => SheetInv' /\ [Sheet!Next]_(Sheet!sheetVars)
  BY SheetStep
<1> QED
  BY <1>1, <1>2, TypesHold, PTL DEF Spec, ImplementsSheet, Sheet!Spec

\* In the same deployment a graded attempt keeps its grade.
THEOREM GradeIsStored ==
  ASSUME OneServer
  PROVE  Spec => [](grade # NotGraded => grade = Stored)
<1>1. Init => SheetInv
  BY DEF Init, SheetInv, Saving, Idle
<1>2. TypeInv /\ SheetInv /\ [Next]_vars => SheetInv'
  BY SheetStep
<1>3. SheetInv => (grade # NotGraded => grade = Stored)
  BY DEF SheetInv
<1> QED
  BY <1>1, <1>2, <1>3, TypesHold, PTL DEF Spec
-----------------------------------------------------------------------------
(* What the page shows as saved is what is stored.                           *)

\* The learner leaves a question alone while its save is on its way, and the page
\* is not loaded again, so that no client_seq is minted twice.
OnePage == Patient /\ MaxLoads = 1

\* A save of q numbered n that holds answer a is on its way, waits for its retry, is
\* being served, or is the row.
Carries(q, n, a) ==
  \/ \E c \in calls : c.kind = "answer" /\ c.question = q /\ c.seq = n /\ c.answer = a
  \/ \E r \in retries : r.question = q /\ r.seq = n /\ r.answer = a
  \/ \E s \in Servers : /\ Saving(s) /\ handler[s].call.question = q
                        /\ handler[s].call.seq = n /\ handler[s].call.answer = a
  \/ rows[q].seq = n /\ rows[q].answer = a

\* From number n on, every save of q holds what the page shows.
Fresh(q, n) == \A m \in Nat, a \in Answers : Carries(q, m, a) /\ m >= n => a = shown[q]

OpenSave(c) == c.kind = "answer" /\ c.open

\* No number is beyond the page's counter; what the page still waits for, the last
\* payload it minted and the row behind a "saved" are fresh, so whatever overwrites
\* such a row writes the same answer.
FreshInv ==
  /\ page.load >= 1
  /\ \A q \in Questions, m \in Nat, a \in Answers : Carries(q, m, a) => m <= page.seq
  /\ \A q \in Questions : fired[q] <= page.seq /\ (fired[q] > 0 => Fresh(q, fired[q]))
  /\ \A q \in Questions : sync[q] = "failed" => fired[q] > 0
  /\ \A q \in Questions : sync[q] = "saved" => Fresh(q, rows[q].seq)
  /\ \A c \in calls : OpenSave(c) =>
       /\ fired[c.question] > 0 /\ Fresh(c.question, c.seq)
       /\ c.at = "ok" => rows[c.question].seq >= c.seq
  /\ \A r \in retries : fired[r.question] > 0 /\ Fresh(r.question, r.seq) /\ r.at = "wire"
  /\ \A s \in Servers : handler[s] # Idle =>
       handler[s].call.kind = IF Saving(s) THEN "answer" ELSE "submit"

\* A step that keeps FreshInv: it changes no answer on the page, carries no answer
\* that was not carried or is not shown, and lets no row go back.
Quietly ==
  /\ shown' = shown /\ page'.load = page.load /\ page'.seq >= page.seq
  /\ \A q \in Questions, m \in Nat, a \in Answers :
       Carries(q, m, a)' => Carries(q, m, a) \/ (a = shown[q] /\ m <= page'.seq)
  /\ \A q \in Questions : rows'[q].seq >= rows[q].seq
  /\ \A q \in Questions : \/ fired'[q] = fired[q]
                          \/ fired'[q] > page.seq /\ fired'[q] <= page'.seq
  /\ \A q \in Questions : \/ sync'[q] = sync[q] \/ sync'[q] \notin {"saved", "failed"}
                          \/ sync'[q] = "failed" /\ fired[q] > 0
                          \/ sync'[q] = "saved" /\ Fresh(q, rows[q].seq)
  /\ \A c \in calls' : OpenSave(c) =>
       /\ fired'[c.question] > 0 /\ Fresh(c.question, c.seq)
       /\ c.at = "ok" => rows'[c.question].seq >= c.seq
  /\ \A r \in retries' : fired'[r.question] > 0 /\ Fresh(r.question, r.seq) /\ r.at = "wire"
  /\ \A s \in Servers : handler'[s] # Idle =>
       handler'[s].call.kind = IF Saving(s)' THEN "answer" ELSE "submit"

LEMMA QuietFresh ==
  ASSUME TypeInv, TypeInv', FreshInv, Quietly
  PROVE  /\ FreshInv'
         /\ \A q \in Questions : Fresh(q, rows[q].seq) => Fresh(q, rows[q].seq)'
<1>1. /\ page.seq \in Nat /\ page'.seq \in Nat
      /\ \A q \in Questions : /\ rows[q].seq \in Nat /\ rows'[q].seq \in Nat
                              /\ fired[q] \in Nat /\ fired'[q] \in Nat
      /\ \A c \in calls' : OpenSave(c) => c.question \in Questions /\ c.seq \in Nat
      /\ \A r \in retries' : r.question \in Questions /\ r.seq \in Nat
  BY DEF TypeInv, ServerTyped, CallsTyped, PageTyped, Page, Call, OpenSave
<1>2. \A q \in Questions, m \in Nat, a \in Answers : Carries(q, m, a)' => m <= page'.seq
  BY <1>1 DEF FreshInv, Quietly
<1>3. \A q \in Questions, n, k \in Nat : Fresh(q, n) /\ k >= n =>
        \A m \in Nat, a \in Answers : Carries(q, m, a)' /\ m >= k => a = shown'[q]
  BY DEF Fresh, Quietly
<1>4. \A q \in Questions, k \in Nat : k > page.seq =>
        \A m \in Nat, a \in Answers : Carries(q, m, a)' /\ m >= k => a = shown'[q]
  <2> SUFFICES ASSUME NEW q \in Questions, NEW k \in Nat, k > page.seq,
                      NEW m \in Nat, NEW a \in Answers, Carries(q, m, a)', m >= k
               PROVE  a = shown'[q]
    OBVIOUS
  <2>1. Carries(q, m, a) \/ a = shown[q]
    BY DEF Quietly
  <2>2. Carries(q, m, a) => m <= page.seq
    BY DEF FreshInv
  <2>3. ~Carries(q, m, a)
    BY <1>1, <2>2
  <2> QED
    BY <2>1, <2>3 DEF Quietly
<1>5. \A q \in Questions : Fresh(q, rows[q].seq) => Fresh(q, rows[q].seq)'
  <2> SUFFICES ASSUME NEW q \in Questions, Fresh(q, rows[q].seq)
               PROVE  \A m \in Nat, a \in Answers : Carries(q, m, a)' /\ m >= rows'[q].seq => a = shown'[q]
    BY DEF Fresh
  <2>1. rows'[q].seq >= rows[q].seq
    BY DEF Quietly
  <2> QED
    BY <1>1, <1>3, <2>1
<1>6. ASSUME NEW q \in Questions, fired'[q] > 0
      PROVE  Fresh(q, fired[q])'
  <2> SUFFICES \A m \in Nat, a \in Answers : Carries(q, m, a)' /\ m >= fired'[q] => a = shown'[q]
    BY DEF Fresh
  <2>1. CASE fired'[q] = fired[q]
    <3>1. Fresh(q, fired[q]) /\ fired[q] \in Nat
      BY <1>1, <1>6, <2>1 DEF FreshInv
    <3> QED
      BY <1>3, <2>1, <3>1
  <2>2. CASE fired'[q] > page.seq
    BY <1>1, <1>4, <2>2
  <2> QED
    BY <2>1, <2>2 DEF Quietly
<1>12. \A q \in Questions : fired'[q] <= page'.seq
  BY <1>1 DEF FreshInv, Quietly
<1>7. ASSUME NEW q \in Questions, sync'[q] = "failed"
      PROVE  fired'[q] > 0
  BY <1>1, <1>7 DEF FreshInv, Quietly
<1>8. ASSUME NEW q \in Questions, sync'[q] = "saved"
      PROVE  Fresh(q, rows[q].seq)'
  <2>1. Fresh(q, rows[q].seq)
    BY <1>8 DEF FreshInv, Quietly
  <2> QED
    BY <1>5, <2>1
<1>9. ASSUME NEW c \in calls', OpenSave(c)
      PROVE  /\ fired'[c.question] > 0
             /\ \A m \in Nat, a \in Answers :
                  Carries(c.question, m, a)' /\ m >= c.seq => a = shown'[c.question]
             /\ c.at = "ok" => rows'[c.question].seq >= c.seq
  <2>1. c.question \in Questions /\ c.seq \in Nat
    BY <1>1, <1>9
  <2>2. /\ fired'[c.question] > 0 /\ Fresh(c.question, c.seq)
        /\ c.at = "ok" => rows'[c.question].seq >= c.seq
    BY <1>9 DEF Quietly
  <2> QED
    BY <1>3, <2>1, <2>2
<1>10. ASSUME NEW r \in retries'
       PROVE  /\ fired'[r.question] > 0 /\ r.at = "wire"
              /\ \A m \in Nat, a \in Answers :
                   Carries(r.question, m, a)' /\ m >= r.seq => a = shown'[r.question]
  <2>1. r.question \in Questions /\ r.seq \in Nat
    BY <1>1, <1>10
  <2>2. fired'[r.question] > 0 /\ Fresh(r.question, r.seq) /\ r.at = "wire"
    BY <1>10 DEF Quietly
  <2> QED
    BY <1>3, <2>1, <2>2
<1>11. page'.load >= 1
  BY DEF FreshInv, Quietly
<1> QED
  BY <1>2, <1>5, <1>6, <1>7, <1>8, <1>9, <1>10, <1>11, <1>12 DEF FreshInv, Quietly, Fresh, OpenSave

\* A call that moves stays what it is; only calls like c change place.
LEMMA MovedFrom ==
  ASSUME CallsTyped, NEW c \in Call, NEW w \in Positions, NEW e \in Moved(c, w)
  PROVE  \E d \in calls : /\ e.kind = d.kind /\ e.question = d.question /\ e.seq = d.seq
                          /\ e.answer = d.answer /\ e.open = d.open
                          /\ \/ e = d
                             \/ /\ e.at = w /\ d.kind = c.kind /\ d.question = c.question
                                /\ d.seq = c.seq /\ (e.open \/ w = "server")
<1>1. PICK d \in calls : /\ e = IF Key(d) = Key(c) THEN [d EXCEPT !.at = w] ELSE d
                         /\ Key(d) = Key(c) => d.open \/ w = "server"
  BY DEF Moved
<1>2. d \in Call
  BY DEF CallsTyped
<1>3. CASE e = d
  BY <1>3
<1>4. CASE e # d
  <2>1. Key(d) = Key(c) /\ e = [d EXCEPT !.at = w] /\ (d.open \/ w = "server")
    BY <1>1, <1>4
  <2>2. /\ Key(d).kind = d.kind /\ Key(d).question = d.question /\ Key(d).seq = d.seq
        /\ Key(c).kind = c.kind /\ Key(c).question = c.question /\ Key(c).seq = c.seq
    BY <1>2, HandlerType
  <2>3. /\ e.kind = d.kind /\ e.question = d.question /\ e.seq = d.seq
        /\ e.answer = d.answer /\ e.open = d.open /\ e.at = w
    BY <1>2, <2>1 DEF Call
  <2> QED
    BY <2>1, <2>2, <2>3
<1> QED
  BY <1>3, <1>4

\* Taking a call up, or going on with it, is quiet.
LEMMA HandsQuiet ==
  ASSUME TypeInv, FreshInv, NEW s \in Servers, NEW phase \in Phases, NEW c \in Call,
         NEW g \in {NotGraded} \cup Grades,
         IF phase \in {"seq", "write"}
           THEN c.kind = "answer" /\ c.question \in Questions /\ Carries(c.question, c.seq, c.answer)
           ELSE c.kind = "submit",
         Hands(s, phase, c, g), UNCHANGED <<rows, pageVars>>
  PROVE  Quietly
<1>1. handler' = [handler EXCEPT ![s] = At(phase, Key(c), g)] /\ calls' = Moved(c, "server")
  BY DEF Hands
<1>2. /\ At(phase, Key(c), g).phase = phase /\ At(phase, Key(c), g).call = Key(c)
      /\ Key(c).kind = c.kind /\ Key(c).question = c.question
      /\ Key(c).seq = c.seq /\ Key(c).answer = c.answer
  BY HandlerType DEF Phases
<1>3. \A t \in Servers : handler'[t] = IF t = s THEN At(phase, Key(c), g) ELSE handler[t]
  BY <1>1 DEF TypeInv, ServerTyped
<1>4. \A e \in calls' : \E d \in calls :
        /\ e.kind = d.kind /\ e.question = d.question /\ e.seq = d.seq
        /\ e.answer = d.answer /\ e.open = d.open /\ (e = d \/ e.at = "server")
  BY <1>1, MovedFrom DEF TypeInv, Positions
<1>5. ASSUME NEW q \in Questions, NEW m \in Nat, NEW a \in Answers, Carries(q, m, a)'
      PROVE  Carries(q, m, a)
  <2>1. CASE \E e \in calls' : e.kind = "answer" /\ e.question = q /\ e.seq = m /\ e.answer = a
    BY <1>4, <2>1 DEF Carries
  <2>2. CASE \E r \in retries' : r.question = q /\ r.seq = m /\ r.answer = a
    BY <2>2 DEF Carries, pageVars
  <2>3. CASE \E t \in Servers : /\ Saving(t)' /\ handler'[t].call.question = q
                                /\ handler'[t].call.seq = m /\ handler'[t].call.answer = a
    BY <1>2, <1>3, <2>3 DEF Carries, Saving
  <2>4. CASE rows'[q].seq = m /\ rows'[q].answer = a
    BY <2>4 DEF Carries
  <2> QED
    BY <1>5, <2>1, <2>2, <2>3, <2>4 DEF Carries
<1>6. \A e \in calls' : OpenSave(e) =>
        /\ fired'[e.question] > 0 /\ Fresh(e.question, e.seq)
        /\ e.at = "ok" => rows'[e.question].seq >= e.seq
  BY <1>4 DEF FreshInv, OpenSave, pageVars
<1>7. \A t \in Servers : handler'[t] # Idle =>
        handler'[t].call.kind = IF Saving(t)' THEN "answer" ELSE "submit"
  BY <1>2, <1>3 DEF FreshInv, Saving
<1>8. /\ \A r \in retries' : fired'[r.question] > 0 /\ Fresh(r.question, r.seq) /\ r.at = "wire"
      /\ \A q \in Questions : sync'[q] = sync[q] /\ fired'[q] = fired[q]
      /\ shown' = shown /\ page' = page /\ rows' = rows
  BY DEF FreshInv, pageVars
<1>9. page.seq \in Nat /\ \A q \in Questions : rows[q].seq \in Nat
  BY DEF TypeInv, PageTyped, Page, ServerTyped
<1>10. page'.seq >= page.seq /\ \A q \in Questions : rows'[q].seq >= rows[q].seq
  BY <1>8, <1>9
<1> QED
  BY <1>5, <1>6, <1>7, <1>8, <1>10 DEF Quietly

\* So is being done with one, when the row it wrote was carried and is newer, and an
\* acknowledged save is not newer than its row.
LEMMA RepliesQuiet ==
  ASSUME TypeInv, TypeInv', FreshInv, NEW s \in Servers, NEW c \in Call, NEW outcome \in Positions,
         Replies(s, c, outcome), UNCHANGED pageVars,
         \A q \in Questions : /\ rows'[q].seq >= rows[q].seq
                              /\ \A m \in Nat, a \in Answers :
                                   rows'[q].seq = m /\ rows'[q].answer = a => Carries(q, m, a),
         outcome = "ok" /\ c.kind = "answer" => rows'[c.question].seq >= c.seq
  PROVE  Quietly
<1>1. handler' = [handler EXCEPT ![s] = Idle] /\ calls' = Moved(c, outcome)
  BY DEF Replies
<1>3. \A t \in Servers : handler'[t] = IF t = s THEN Idle ELSE handler[t]
  BY <1>1 DEF TypeInv, ServerTyped
<1>4. \A e \in calls' : \E d \in calls :
        /\ e.kind = d.kind /\ e.question = d.question /\ e.seq = d.seq
        /\ e.answer = d.answer /\ e.open = d.open
        /\ \/ e = d
           \/ e.at = outcome /\ d.kind = c.kind /\ d.question = c.question /\ d.seq = c.seq
  BY <1>1, MovedFrom DEF TypeInv
<1>5. ASSUME NEW q \in Questions, NEW m \in Nat, NEW a \in Answers, Carries(q, m, a)'
      PROVE  Carries(q, m, a)
  <2>1. CASE \E e \in calls' : e.kind = "answer" /\ e.question = q /\ e.seq = m /\ e.answer = a
    BY <1>4, <2>1 DEF Carries
  <2>2. CASE \E r \in retries' : r.question = q /\ r.seq = m /\ r.answer = a
    BY <2>2 DEF Carries, pageVars
  <2>3. CASE \E t \in Servers : /\ Saving(t)' /\ handler'[t].call.question = q
                                /\ handler'[t].call.seq = m /\ handler'[t].call.answer = a
    BY <1>3, <2>3 DEF Carries, Saving, Idle
  <2>4. CASE rows'[q].seq = m /\ rows'[q].answer = a
    BY <2>4
  <2> QED
    BY <1>5, <2>1, <2>2, <2>3, <2>4 DEF Carries
<1>9. /\ page.seq \in Nat
      /\ \A q \in Questions : rows[q].seq \in Nat /\ rows'[q].seq \in Nat
                              /\ rows'[q].seq >= rows[q].seq
      /\ \A e \in calls : e.kind = "answer" => e.question \in Questions /\ e.seq \in Nat
  BY DEF TypeInv, PageTyped, Page, ServerTyped, CallsTyped, Call
<1>6. ASSUME NEW e \in calls', OpenSave(e)
      PROVE  /\ fired'[e.question] > 0 /\ Fresh(e.question, e.seq)
             /\ e.at = "ok" => rows'[e.question].seq >= e.seq
  <2>1. PICK d \in calls :
          /\ e.kind = d.kind /\ e.question = d.question /\ e.seq = d.seq
          /\ e.answer = d.answer /\ e.open = d.open
          /\ \/ e = d
             \/ e.at = outcome /\ d.kind = c.kind /\ d.question = c.question /\ d.seq = c.seq
    BY <1>4
  <2>2. fired[d.question] > 0 /\ Fresh(d.question, d.seq)
    BY <1>6, <2>1 DEF FreshInv, OpenSave
  <2>3. CASE e = d
    <3>1. e.at = "ok" => rows[e.question].seq >= e.seq
      BY <1>6, <2>1, <2>3 DEF FreshInv, OpenSave
    <3>2. e.question \in Questions /\ e.seq \in Nat
      BY <1>6, <1>9, <2>1 DEF OpenSave
    <3>3. e.at = "ok" => rows'[e.question].seq >= e.seq
      BY <1>9, <3>1, <3>2
    <3> QED
      BY <2>1, <2>2, <3>3 DEF pageVars
  <2>4. CASE e.at = outcome /\ d.kind = c.kind /\ d.question = c.question /\ d.seq = c.seq
    BY <1>6, <2>1, <2>2, <2>4 DEF OpenSave, pageVars
  <2> QED
    BY <2>1, <2>3, <2>4
<1>7. \A t \in Servers : handler'[t] # Idle =>
        handler'[t].call.kind = IF Saving(t)' THEN "answer" ELSE "submit"
  BY <1>3 DEF FreshInv, Saving
<1>8. /\ \A r \in retries' : fired'[r.question] > 0 /\ Fresh(r.question, r.seq) /\ r.at = "wire"
      /\ \A q \in Questions : sync'[q] = sync[q] /\ fired'[q] = fired[q]
      /\ shown' = shown /\ page' = page
  BY DEF FreshInv, pageVars
<1>10. page'.seq >= page.seq
  BY <1>8, <1>9
<1> QED
  BY <1>5, <1>6, <1>7, <1>8, <1>9, <1>10 DEF Quietly

\* Nothing a server does is loud: a save that is written was newer than its row.
LEMMA ServerQuiet ==
  ASSUME OneServer, TypeInv, TypeInv', SheetInv, FreshInv, ServerStep
  PROVE  Quietly
<1> USE DEF Phases, Positions
<1>1. \A c \in calls : /\ c \in Call
                       /\ c.kind = "answer" =>
                            c.question \in Questions /\ Carries(c.question, c.seq, c.answer)
  BY DEF TypeInv, CallsTyped, Carries
<1>2. ASSUME NEW s \in Servers, NEW p \in Phases, handler[s].phase = p
      PROVE  /\ handler[s].call \in Call
             /\ p \in {"seq", "write"} =>
                  /\ handler[s].call.kind = "answer" /\ handler[s].call.question \in Questions
                  /\ Carries(handler[s].call.question, handler[s].call.seq, handler[s].call.answer)
             /\ p \notin {"seq", "write"} => handler[s].call.kind = "submit"
  <2>1. handler[s] # Idle
    BY <1>2 DEF Idle
  <2>2. handler[s].call \in Call
    BY <2>1, BusyType DEF TypeInv
  <2> QED
    BY <1>2, <2>1, <2>2 DEF FreshInv, TypeInv, ServerTyped, Saving, Carries
<1>3. \A q \in Questions : rows[q].seq \in Nat /\ rows[q].seq >= rows[q].seq
  BY DEF TypeInv, ServerTyped
<1>4. ASSUME NEW s \in Servers, NEW c \in Call, NEW outcome \in Positions, Replies(s, c, outcome),
             outcome = "ok" => c.kind # "answer", UNCHANGED <<rows, pageVars>>
      PROVE  Quietly
  <2>1. \A q \in Questions : /\ rows'[q].seq >= rows[q].seq
                             /\ \A m \in Nat, a \in Answers :
                                  rows'[q].seq = m /\ rows'[q].answer = a => Carries(q, m, a)
    BY <1>3, <1>4 DEF Carries
  <2> QED
    BY <1>4, <2>1, RepliesQuiet
<1>5. ASSUME NEW s \in Servers, NEW c \in calls, ServeAnswer(s, c)
      PROVE  Quietly
  <2>1. CASE Replies(s, c, "refused")
    BY <1>1, <1>4, <1>5, <2>1 DEF ServeAnswer
  <2>2. CASE Hands(s, "seq", c, NotGraded)
    BY <1>1, <1>5, <2>2, HandsQuiet DEF ServeAnswer
  <2> QED
    BY <1>5, <2>1, <2>2 DEF ServeAnswer
<1>6. ASSUME NEW s \in Servers, NEW c \in calls, ServeEnter(s, c)
      PROVE  Quietly
  BY <1>1, <1>4, <1>6 DEF ServeEnter
<1>7. ASSUME NEW s \in Servers, NEW c \in calls, ServeSubmit(s, c)
      PROVE  Quietly
  <2>1. CASE \E outcome \in {"ok", "refused"} : Replies(s, c, outcome)
    BY <1>1, <1>4, <1>7, <2>1 DEF ServeSubmit
  <2>2. CASE \E phase \in {"count", "grade"} : Hands(s, phase, c, NotGraded)
    BY <1>1, <1>7, <2>2, HandsQuiet DEF ServeSubmit
  <2> QED
    BY <1>7, <2>1, <2>2 DEF ServeSubmit
<1>8. ASSUME NEW s \in Servers, ReadSeq(s)
      PROVE  Quietly
  <2> DEFINE c == handler[s].call
  <2>1. /\ c \in Call /\ c.kind = "answer" /\ c.question \in Questions
        /\ Carries(c.question, c.seq, c.answer)
    BY <1>2, <1>8 DEF ReadSeq
  <2>2. CASE Hands(s, "write", c, NotGraded)
    BY <1>8, <2>1, <2>2, HandsQuiet DEF ReadSeq
  <2>3. CASE c.seq <= rows[c.question].seq /\ Replies(s, c, "ok")
    <3>1. rows' = rows /\ c.seq \in Nat /\ UNCHANGED pageVars
      BY <1>8, <2>1 DEF ReadSeq, Call
    <3>2. \A q \in Questions : /\ rows'[q].seq >= rows[q].seq
                               /\ \A m \in Nat, a \in Answers :
                                    rows'[q].seq = m /\ rows'[q].answer = a => Carries(q, m, a)
      BY <1>3, <3>1 DEF Carries
    <3>3. rows'[c.question].seq >= c.seq
      BY <1>3, <2>1, <2>3, <3>1
    <3> HIDE DEF c
    <3> QED
      BY <2>1, <2>3, <3>1, <3>2, <3>3, RepliesQuiet
  <2> QED
    BY <1>8, <2>2, <2>3 DEF ReadSeq, OneServer
<1>9. ASSUME NEW s \in Servers, WriteAnswer(s)
      PROVE  Quietly
  <2> DEFINE c == handler[s].call
             written == [rows EXCEPT ![c.question] = [answer |-> c.answer, seq |-> c.seq]]
  <2>1. /\ c \in Call /\ c.kind = "answer" /\ c.question \in Questions
        /\ Carries(c.question, c.seq, c.answer)
        /\ c.seq > rows[c.question].seq /\ c.seq \in Nat
    BY <1>2, <1>9 DEF WriteAnswer, SheetInv, Call
  <2>2. UNCHANGED pageVars
    BY <1>9 DEF WriteAnswer
  <2>3. CASE rows' = written /\ \E outcome \in {"ok", "failed"} : Replies(s, c, outcome)
    <3>1. \A q \in Questions :
            rows'[q] = IF q = c.question THEN [answer |-> c.answer, seq |-> c.seq] ELSE rows[q]
      BY <2>1, <2>3 DEF TypeInv, ServerTyped
    <3>2. rows'[c.question].seq = c.seq /\ rows'[c.question].answer = c.answer
      BY <2>1, <3>1
    <3>3. \A q \in Questions : /\ rows'[q].seq >= rows[q].seq
                               /\ \A m \in Nat, a \in Answers :
                                    rows'[q].seq = m /\ rows'[q].answer = a => Carries(q, m, a)
      <4> SUFFICES ASSUME NEW q \in Questions
                   PROVE  /\ rows'[q].seq >= rows[q].seq
                          /\ \A m \in Nat, a \in Answers :
                               rows'[q].seq = m /\ rows'[q].answer = a => Carries(q, m, a)
        OBVIOUS
      <4>1. CASE q = c.question
        BY <1>3, <2>1, <3>2, <4>1
      <4>2. CASE q # c.question
        <5>1. rows'[q] = rows[q] /\ rows[q].seq >= rows[q].seq
          BY <1>3, <3>1, <4>2
        <5> QED
          BY <5>1 DEF Carries
      <4> QED
        BY <4>1, <4>2
    <3>4. rows'[c.question].seq >= c.seq
      BY <2>1, <3>2
    <3>5. PICK outcome \in {"ok", "failed"} : Replies(s, c, outcome)
      BY <2>3
    <3> HIDE DEF c
    <3> QED
      BY <2>1, <2>2, <3>3, <3>4, <3>5, RepliesQuiet
  <2>4. CASE rows' = rows /\ Replies(s, c, "failed")
    BY <1>4, <2>1, <2>2, <2>4
  <2> QED
    BY <1>9, <2>3, <2>4 DEF WriteAnswer
<1>10. ASSUME NEW s \in Servers, CountAnswers(s)
       PROVE  Quietly
  <2>1. handler[s].call \in Call /\ handler[s].call.kind = "submit"
    BY <1>2, <1>10 DEF CountAnswers
  <2>2. CASE Hands(s, "grade", handler[s].call, NotGraded)
    BY <1>10, <2>1, <2>2, HandsQuiet DEF CountAnswers
  <2>3. CASE Replies(s, handler[s].call, "conflict")
    BY <1>4, <1>10, <2>1, <2>3 DEF CountAnswers
  <2> QED
    BY <1>10, <2>2, <2>3 DEF CountAnswers
<1>11. ASSUME NEW s \in Servers, ReadAnswers(s)
       PROVE  Quietly
  <2>1. handler[s].call \in Call /\ handler[s].call.kind = "submit"
    BY <1>2, <1>11 DEF ReadAnswers
  <2>2. CASE \E g \in Scored : Hands(s, "flip", handler[s].call, g)
    BY <1>11, <2>1, <2>2, ScoredType, HandsQuiet DEF ReadAnswers
  <2>3. CASE Replies(s, handler[s].call, "failed")
    BY <1>4, <1>11, <2>1, <2>3 DEF ReadAnswers
  <2> QED
    BY <1>11, <2>2, <2>3 DEF ReadAnswers
<1>12. ASSUME NEW s \in Servers, Flip(s)
       PROVE  Quietly
  <2>1. handler[s].call \in Call /\ handler[s].call.kind = "submit"
    BY <1>2, <1>12 DEF Flip
  <2>2. \E outcome \in {"ok", "failed"} : Replies(s, handler[s].call, outcome)
    BY <1>12 DEF Flip
  <2> QED
    BY <1>4, <1>12, <2>1, <2>2 DEF Flip
<1>13. ASSUME NEW s \in Servers, Crash(s)
       PROVE  Quietly
  <2>1. handler[s].call \in Call
    BY <1>13, BusyType DEF Crash, TypeInv
  <2> QED
    BY <1>4, <1>13, <2>1 DEF Crash
<1>14. CASE Sweep \/ SweepFlip \/ Tick
  <2>1. UNCHANGED <<rows, handler, calls, pageVars>>
    BY <1>14 DEF Sweep, SweepFlip, Tick
  <2>2. \A q \in Questions, m \in Nat, a \in Answers : Carries(q, m, a)' => Carries(q, m, a)
    BY <2>1 DEF Carries, Saving, pageVars
  <2>3. page.seq \in Nat
    BY DEF TypeInv, PageTyped, Page
  <2> QED
    BY <1>3, <2>1, <2>2, <2>3 DEF Quietly, FreshInv, Saving, pageVars
<1> QED
  BY <1>5, <1>6, <1>7, <1>8, <1>9, <1>10, <1>11, <1>12, <1>13, <1>14 DEF ServerStep

\* The end of a save's request is quiet: an acknowledgement vouches for the row, a
\* failure leaves the same payload to be posted again.
LEMMA SettlesQuiet ==
  ASSUME TypeInv, FreshInv, NEW c \in calls, OpenSave(c), NEW outcome,
         outcome = "ok" => c.at = "ok", Settles(c, outcome),
         \A e \in calls' : e \in calls \/ \E d \in calls : e = [d EXCEPT !.open = FALSE]
  PROVE  Quietly
<1> DEFINE q == c.question
           again == outcome = "failed" /\ c.retry < MaxRetries
           next == [c EXCEPT !.at = "wire", !.open = TRUE, !.retry = @ + 1]
<1>1. /\ c \in Call /\ q \in Questions /\ c.kind = "answer" /\ c.seq \in Nat
      /\ fired[q] > 0 /\ Fresh(q, c.seq)
  BY DEF TypeInv, CallsTyped, FreshInv, OpenSave, Call
<1>2. UNCHANGED <<shown, timer, fired, rows, handler>> /\ page'.load = page.load /\ page'.seq = page.seq
  BY DEF Settles, serverVars, TypeInv, PageTyped, Page
<1>3. next.question = q /\ next.seq = c.seq /\ next.answer = c.answer /\ next.at = "wire"
  BY <1>1 DEF Call
<1>4. \A r \in retries' :
        \/ \E t \in retries : r.question = t.question /\ r.seq = t.seq /\ r.answer = t.answer /\ r.at = t.at
        \/ r = next
  <2> SUFFICES ASSUME NEW r \in retries', r # next
               PROVE  \E t \in retries : r.question = t.question /\ r.seq = t.seq
                                         /\ r.answer = t.answer /\ r.at = t.at
    OBVIOUS
  <2>1. r \in retries \/ r \in Released(retries, q)
    BY DEF Settles
  <2>2. PICK t \in retries : r = t \/ r = [t EXCEPT !.open = FALSE]
    BY <2>1 DEF Released
  <2>3. t \in Call
    BY DEF TypeInv, PageTyped
  <2> QED
    BY <2>2, <2>3 DEF Call
<1>5. \A e \in calls' : \E d \in calls :
        /\ e.kind = d.kind /\ e.question = d.question /\ e.seq = d.seq
        /\ e.answer = d.answer /\ (e = d \/ ~e.open)
  <2> SUFFICES ASSUME NEW e \in calls'
               PROVE  \E d \in calls : /\ e.kind = d.kind /\ e.question = d.question /\ e.seq = d.seq
                                       /\ e.answer = d.answer /\ (e = d \/ ~e.open)
    OBVIOUS
  <2>1. PICK d \in calls : e = d \/ e = [d EXCEPT !.open = FALSE]
    OBVIOUS
  <2>2. d \in Call
    BY DEF TypeInv, CallsTyped
  <2> QED
    BY <2>1, <2>2 DEF Call
<1>6. ASSUME NEW p \in Questions, NEW m \in Nat, NEW a \in Answers, Carries(p, m, a)'
      PROVE  Carries(p, m, a)
  <2>1. CASE \E e \in calls' : e.kind = "answer" /\ e.question = p /\ e.seq = m /\ e.answer = a
    BY <1>5, <2>1 DEF Carries
  <2>2. CASE \E r \in retries' : r.question = p /\ r.seq = m /\ r.answer = a
    <3>1. PICK r \in retries' : r.question = p /\ r.seq = m /\ r.answer = a
      BY <2>2
    <3>2. CASE r = next
      BY <1>1, <1>3, <3>1, <3>2 DEF Carries
    <3>3. CASE r # next
      BY <1>4, <3>1, <3>3 DEF Carries
    <3> QED
      BY <3>2, <3>3
  <2>3. CASE \E t \in Servers : /\ Saving(t)' /\ handler'[t].call.question = p
                                /\ handler'[t].call.seq = m /\ handler'[t].call.answer = a
    BY <1>2, <2>3 DEF Carries, Saving
  <2>4. CASE rows'[p].seq = m /\ rows'[p].answer = a
    BY <1>2, <2>4 DEF Carries
  <2> QED
    BY <1>6, <2>1, <2>2, <2>3, <2>4 DEF Carries
<1>7. \A e \in calls' : OpenSave(e) =>
        /\ fired'[e.question] > 0 /\ Fresh(e.question, e.seq)
        /\ e.at = "ok" => rows'[e.question].seq >= e.seq
  BY <1>2, <1>5 DEF FreshInv, OpenSave
<1>8. \A r \in retries' : fired'[r.question] > 0 /\ Fresh(r.question, r.seq) /\ r.at = "wire"
  BY <1>1, <1>2, <1>3, <1>4 DEF FreshInv
<1>9. /\ page.seq \in Nat
      /\ \A p \in Questions : rows[p].seq \in Nat /\ rows[p].seq >= rows[p].seq
  BY DEF TypeInv, PageTyped, Page, ServerTyped
<1>10. outcome = "ok" => Fresh(q, rows[q].seq)
  BY <1>1, <1>9 DEF FreshInv, Fresh
<1>11. \A p \in Questions : \/ sync'[p] = sync[p] \/ sync'[p] \notin {"saved", "failed"}
                            \/ sync'[p] = "failed" /\ fired[p] > 0
                            \/ sync'[p] = "saved" /\ Fresh(p, rows[p].seq)
  <2>1. sync' = [sync EXCEPT ![q] = IF outcome = "ok" THEN "saved"
                                    ELSE IF again THEN "retrying" ELSE "failed"]
    BY DEF Settles
  <2>2. \A p \in Questions : p # q => sync'[p] = sync[p]
    BY <2>1 DEF TypeInv, PageTyped
  <2>3. sync'[q] = IF outcome = "ok" THEN "saved" ELSE IF again THEN "retrying" ELSE "failed"
    BY <1>1, <2>1 DEF TypeInv, PageTyped
  <2> HIDE DEF q, again
  <2> QED
    BY <1>1, <1>10, <2>2, <2>3
<1>12. \A s \in Servers : handler'[s] # Idle =>
         handler'[s].call.kind = IF Saving(s)' THEN "answer" ELSE "submit"
  BY <1>2 DEF FreshInv, Saving
<1>13. page'.seq >= page.seq /\ \A p \in Questions : rows'[p].seq >= rows[p].seq
  BY <1>2, <1>9
<1> QED
  BY <1>2, <1>6, <1>7, <1>8, <1>11, <1>12, <1>13 DEF Quietly

\* A step that leaves the saves alone is quiet.
LEMMA IdleQuiet ==
  ASSUME TypeInv, FreshInv, UNCHANGED <<rows, handler, shown, sync, fired, retries>>,
         page'.load = page.load, page'.seq = page.seq,
         \A e \in calls' : e.kind = "answer" =>
           \E d \in calls : /\ d.kind = "answer" /\ e.question = d.question /\ e.seq = d.seq
                            /\ e.answer = d.answer /\ (e = d \/ ~e.open)
  PROVE  Quietly
<1>1. \A q \in Questions, m \in Nat, a \in Answers : Carries(q, m, a)' => Carries(q, m, a)
  BY DEF Carries, Saving
<1>2. \A e \in calls' : OpenSave(e) =>
        /\ fired'[e.question] > 0 /\ Fresh(e.question, e.seq)
        /\ e.at = "ok" => rows'[e.question].seq >= e.seq
  BY DEF FreshInv, OpenSave
<1>3. page.seq \in Nat /\ \A p \in Questions : rows[p].seq \in Nat
  BY DEF TypeInv, PageTyped, Page, ServerTyped
<1>4. page'.seq >= page.seq /\ \A p \in Questions : rows'[p].seq >= rows[p].seq
  BY <1>3
<1> QED
  BY <1>1, <1>2, <1>4 DEF Quietly, FreshInv, Saving

\* The page of OnePage is never loaded again.
LEMMA LoadedOnce ==
  ASSUME OnePage, TypeInv, FreshInv
  PROVE  ~Loaded
BY DEF OnePage, TypeInv, PageTyped, Page, FreshInv, Loaded

LEMMA NetworkQuiet ==
  ASSUME OnePage, TypeInv, FreshInv, NetworkStep
  PROVE  Quietly
<1>1. PICK c \in calls : SaveReply(c) \/ SubmitReply(c) \/ EnterReply(c) \/ Lost(c)
  BY DEF NetworkStep
<1>2. \A d \in calls : d \in Call
  BY DEF TypeInv, CallsTyped
<1>3. CASE SaveReply(c)
  <2>1. OpenSave(c) /\ Settles(c, c.at) /\ calls' = calls \ {c}
    BY <1>3 DEF SaveReply, OpenSave
  <2> QED
    BY <2>1, SettlesQuiet
<1>4. CASE SubmitReply(c) \/ EnterReply(c)
  <2>1. /\ UNCHANGED <<rows, handler, shown, sync, fired, retries>> /\ calls' = calls \ {c}
        /\ page'.load = page.load /\ page'.seq = page.seq
    BY <1>4, LoadedOnce DEF SubmitReply, EnterReply, serverVars, pageVars, TypeInv, PageTyped, Page
  <2> QED
    BY <2>1, IdleQuiet
<1>5. CASE Lost(c)
  <2>1. \A e \in calls' : e \in calls \/ \E d \in calls : e = [d EXCEPT !.open = FALSE]
    BY <1>5 DEF Lost, Abandoned, Closed
  <2>2. CASE c.kind = "answer"
    <3>1. Settles(c, "failed") /\ OpenSave(c)
      BY <1>5, <2>2 DEF Lost, OpenSave
    <3> QED
      BY <2>1, <3>1, SettlesQuiet
  <2>3. CASE c.kind \in {"submit", "enter"}
    <3>1. /\ UNCHANGED <<rows, handler, shown, sync, fired, retries>>
          /\ page'.load = page.load /\ page'.seq = page.seq
      BY <1>5, <2>3 DEF Lost, serverVars, pageVars, TypeInv, PageTyped, Page
    <3>2. \A e \in calls' : e.kind = "answer" =>
            \E d \in calls : /\ d.kind = "answer" /\ e.question = d.question /\ e.seq = d.seq
                             /\ e.answer = d.answer /\ (e = d \/ ~e.open)
      BY <1>2, <2>1 DEF Call
    <3> QED
      BY <3>1, <3>2, IdleQuiet
  <2> QED
    BY <1>2, <2>2, <2>3 DEF Call
<1> QED
  BY <1>1, <1>3, <1>4, <1>5

\* Posting payloads is quiet when they hold what the page shows, and are numbered
\* beyond all others or like a payload that is fresh.
LEMMA PostsQuiet ==
  ASSUME TypeInv, TypeInv', FreshInv, UNCHANGED <<rows, handler, shown>>,
         page'.load = page.load, page'.seq >= page.seq, retries' \subseteq retries,
         \A q \in Questions : \/ fired'[q] = fired[q] /\ sync'[q] = sync[q]
                              \/ fired'[q] > page.seq /\ fired'[q] <= page'.seq /\ sync'[q] = "saving"
                              \/ fired'[q] = fired[q] /\ sync'[q] = "saving" /\ fired[q] > 0,
         \A e \in calls' : e \in calls \/
           /\ e.question \in Questions /\ e.at # "ok" /\ e.answer = shown[e.question]
           /\ e.seq <= page'.seq /\ fired'[e.question] > 0
           /\ e.seq > page.seq \/ Fresh(e.question, e.seq)
  PROVE  Quietly
<1>1. /\ page.seq \in Nat
      /\ \A q \in Questions : rows[q].seq \in Nat /\ fired[q] \in Nat /\ fired'[q] \in Nat
      /\ \A e \in calls' : e.seq \in Nat /\ (e.kind = "answer" => e.question \in Questions)
      /\ \A r \in retries : r.question \in Questions
  BY DEF TypeInv, PageTyped, Page, ServerTyped, CallsTyped, Call
<1>2. ASSUME NEW q \in Questions, NEW m \in Nat, NEW a \in Answers, Carries(q, m, a)'
      PROVE  Carries(q, m, a) \/ (a = shown[q] /\ m <= page'.seq)
  <2>1. CASE \E e \in calls' : e.kind = "answer" /\ e.question = q /\ e.seq = m /\ e.answer = a
    BY <2>1 DEF Carries
  <2>2. CASE \E r \in retries' : r.question = q /\ r.seq = m /\ r.answer = a
    BY <2>2 DEF Carries
  <2>3. CASE \E t \in Servers : /\ Saving(t)' /\ handler'[t].call.question = q
                                /\ handler'[t].call.seq = m /\ handler'[t].call.answer = a
    BY <2>3 DEF Carries, Saving
  <2>4. CASE rows'[q].seq = m /\ rows'[q].answer = a
    BY <2>4 DEF Carries
  <2> QED
    BY <1>2, <2>1, <2>2, <2>3, <2>4 DEF Carries
<1>3. \A q \in Questions, k \in Nat : k > page.seq => Fresh(q, k)
  BY <1>1 DEF FreshInv, Fresh
<1>4. \A q \in Questions : fired[q] > 0 => fired'[q] > 0
  BY <1>1
<1>5. ASSUME NEW e \in calls', OpenSave(e)
      PROVE  /\ fired'[e.question] > 0 /\ Fresh(e.question, e.seq)
             /\ e.at = "ok" => rows'[e.question].seq >= e.seq
  <2>1. e.question \in Questions /\ e.seq \in Nat
    BY <1>1, <1>5 DEF OpenSave
  <2>2. CASE e \in calls
    BY <1>4, <1>5, <2>1, <2>2 DEF FreshInv
  <2>3. CASE e \notin calls
    BY <1>3, <2>1, <2>3
  <2> QED
    BY <2>2, <2>3
<1>6. \A r \in retries' : fired'[r.question] > 0 /\ Fresh(r.question, r.seq) /\ r.at = "wire"
  BY <1>1, <1>4 DEF FreshInv
<1>7. \A q \in Questions : rows'[q].seq >= rows[q].seq
  BY <1>1
<1>8. \A s \in Servers : handler'[s] # Idle =>
        handler'[s].call.kind = IF Saving(s)' THEN "answer" ELSE "submit"
  BY DEF FreshInv, Saving
<1> QED
  BY <1>2, <1>5, <1>6, <1>7, <1>8 DEF Quietly

\* What a request of the page says.
LEMMA RequestSays ==
  ASSUME NEW kind, NEW q, NEW a, NEW n, NEW r
  PROVE  /\ Request(kind, q, a, n, r).kind = kind /\ Request(kind, q, a, n, r).question = q
         /\ Request(kind, q, a, n, r).answer = a /\ Request(kind, q, a, n, r).seq = n
         /\ Request(kind, q, a, n, r).at = "wire" /\ Request(kind, q, a, n, r).open
BY DEF Request

LEMMA FlushQuiet ==
  ASSUME TypeInv, TypeInv', FreshInv, NEW cur \in Questions, NEW flushed \in SUBSET Questions,
         NEW mode \in {"leaving", "flushing"}, Flush(cur, flushed, mode)
  PROVE  Quietly
<1> DEFINE late == (timer \cap flushed) \cup {cur}
           n == Cardinality(late)
<1>1. late \subseteq Questions /\ n \in Nat /\ page.seq \in Nat
  <2>1. IsFiniteSet(late)
    BY FS_Subset, SyncAssumption DEF SyncAssumption
  <2> QED
    BY <2>1, FS_CardinalityType DEF TypeInv, PageTyped, Page
<1>2. PICK mint \in [late -> (page.seq + 1) .. (page.seq + n)] :
         /\ fired' = [q \in Questions |-> IF q \in late THEN mint[q] ELSE fired[q]]
         /\ calls' = calls \cup {Request("answer", q, shown[q], mint[q], 0) : q \in late}
  BY DEF Flush
<1>3. /\ page' = [page EXCEPT !.seq = @ + n, !.mode = mode,
                              !.awaiting = (Pending \cap flushed) \cup late]
      /\ sync' = [q \in Questions |-> IF q \in late THEN "saving" ELSE sync[q]]
      /\ retries' \subseteq retries /\ UNCHANGED <<rows, handler, shown>>
  BY DEF Flush, serverVars, Cancelled
<1> HIDE DEF late, n
<1>4. page'.load = page.load /\ page'.seq = page.seq + n
  BY <1>3 DEF TypeInv, PageTyped, Page
<1>5. \A q \in late : mint[q] \in Nat /\ mint[q] > page.seq /\ mint[q] <= page'.seq
  BY <1>1, <1>2, <1>4
<1>6. \A q \in Questions : \/ fired'[q] = fired[q] /\ sync'[q] = sync[q]
                           \/ fired'[q] > page.seq /\ fired'[q] <= page'.seq /\ sync'[q] = "saving"
  BY <1>1, <1>2, <1>3, <1>5
<1>7. \A e \in calls' : e \in calls \/
        /\ e.question \in Questions /\ e.at # "ok" /\ e.answer = shown[e.question]
        /\ e.seq <= page'.seq /\ fired'[e.question] > 0 /\ e.seq > page.seq
  <2> SUFFICES ASSUME NEW e \in calls', e \notin calls
               PROVE  /\ e.question \in Questions /\ e.at # "ok" /\ e.answer = shown[e.question]
                      /\ e.seq <= page'.seq /\ fired'[e.question] > 0 /\ e.seq > page.seq
    OBVIOUS
  <2>1. PICK q \in late : e = Request("answer", q, shown[q], mint[q], 0)
    BY <1>2
  <2>2. e.question = q /\ e.answer = shown[q] /\ e.seq = mint[q] /\ e.at = "wire"
    BY <2>1, RequestSays
  <2>3. q \in Questions /\ fired'[q] = mint[q]
    BY <1>1, <1>2
  <2> QED
    BY <1>1, <1>5, <2>2, <2>3
<1> QED
  BY <1>1, <1>3, <1>4, <1>6, <1>7, PostsQuiet

\* The answer on the page changes only where no save is on its way.
LEMMA ChangeFresh ==
  ASSUME OnePage, TypeInv, TypeInv', FreshInv, NEW p \in Questions, NEW b \in Answers, Change(p, b)
  PROVE  FreshInv'
<1>1. /\ UNCHANGED <<rows, handler, calls, page>> /\ retries' \subseteq retries
      /\ \A q \in Questions : q # p => /\ shown'[q] = shown[q] /\ sync'[q] = sync[q]
                                       /\ fired'[q] = fired[q]
      /\ sync'[p] = "unsaved" /\ fired'[p] = 0
  BY DEF Change, serverVars, TypeInv, PageTyped, Cancelled
<1>2. /\ \A c \in calls : c.question = p => ~c.open
      /\ \A r \in retries : r.question # p
  BY DEF Change, LeftAlone, OnItsWay, OnePage
<1>3. \A q \in Questions, m \in Nat, a \in Answers : Carries(q, m, a)' => Carries(q, m, a)
  BY <1>1 DEF Carries, Saving
<1>4. \A q \in Questions, n \in Nat : q # p /\ Fresh(q, n) =>
        \A m \in Nat, a \in Answers : Carries(q, m, a)' /\ m >= n => a = shown'[q]
  BY <1>1, <1>3 DEF Fresh
<1>5. /\ \A q \in Questions : rows[q].seq \in Nat /\ fired[q] \in Nat
      /\ \A c \in calls : OpenSave(c) => c.question \in Questions /\ c.seq \in Nat
      /\ \A r \in retries : r.question \in Questions /\ r.seq \in Nat
  BY DEF TypeInv, ServerTyped, CallsTyped, PageTyped, Call, OpenSave
<1>6. ASSUME NEW q \in Questions
      PROVE  /\ \A m \in Nat, a \in Answers : Carries(q, m, a)' => m <= page'.seq
             /\ fired'[q] <= page'.seq /\ (fired'[q] > 0 => Fresh(q, fired[q])')
             /\ sync'[q] = "failed" => fired'[q] > 0
             /\ sync'[q] = "saved" => Fresh(q, rows[q].seq)'
  <2>1. \A m \in Nat, a \in Answers : Carries(q, m, a)' => m <= page'.seq
    BY <1>1, <1>3 DEF FreshInv
  <2>2. CASE q = p
    <3>1. fired'[q] = 0 /\ sync'[q] = "unsaved" /\ page'.seq \in Nat
      BY <1>1, <2>2 DEF TypeInv, PageTyped, Page
    <3>2. ~(fired'[q] > 0) /\ fired'[q] <= page'.seq /\ sync'[q] \notin {"saved", "failed"}
      BY <3>1
    <3> QED
      BY <2>1, <3>2
  <2>3. CASE q # p
    <3>1. /\ shown'[q] = shown[q] /\ sync'[q] = sync[q] /\ fired'[q] = fired[q]
          /\ rows' = rows /\ page' = page /\ fired[q] \in Nat /\ rows[q].seq \in Nat
      BY <1>1, <1>5, <2>3
    <3>2. /\ fired[q] <= page.seq /\ (fired[q] > 0 => Fresh(q, fired[q]))
          /\ sync[q] = "failed" => fired[q] > 0
          /\ sync[q] = "saved" => Fresh(q, rows[q].seq)
      BY DEF FreshInv
    <3>3. fired[q] > 0 => \A m \in Nat, a \in Answers :
                            Carries(q, m, a)' /\ m >= fired'[q] => a = shown'[q]
      BY <1>4, <2>3, <3>1, <3>2
    <3>4. sync[q] = "saved" => \A m \in Nat, a \in Answers :
                                 Carries(q, m, a)' /\ m >= rows'[q].seq => a = shown'[q]
      BY <1>4, <2>3, <3>1, <3>2
    <3>5. (fired'[q] > 0 => Fresh(q, fired[q])') /\ (sync'[q] = "saved" => Fresh(q, rows[q].seq)')
      BY <3>1, <3>3, <3>4 DEF Fresh
    <3> QED
      BY <2>1, <3>1, <3>2, <3>5
  <2> QED
    BY <2>2, <2>3
<1>7. ASSUME NEW c \in calls', OpenSave(c)
      PROVE  /\ fired'[c.question] > 0
             /\ \A m \in Nat, a \in Answers :
                  Carries(c.question, m, a)' /\ m >= c.seq => a = shown'[c.question]
             /\ c.at = "ok" => rows'[c.question].seq >= c.seq
  <2>1. c \in calls /\ c.question # p /\ c.question \in Questions /\ c.seq \in Nat
    BY <1>1, <1>2, <1>5, <1>7 DEF OpenSave
  <2>2. /\ fired[c.question] > 0 /\ Fresh(c.question, c.seq)
        /\ c.at = "ok" => rows[c.question].seq >= c.seq
    BY <1>7, <2>1 DEF FreshInv
  <2> QED
    BY <1>1, <1>4, <2>1, <2>2
<1>8. ASSUME NEW r \in retries'
      PROVE  /\ fired'[r.question] > 0 /\ r.at = "wire"
             /\ \A m \in Nat, a \in Answers :
                  Carries(r.question, m, a)' /\ m >= r.seq => a = shown'[r.question]
  <2>1. r \in retries /\ r.question # p /\ r.question \in Questions /\ r.seq \in Nat
    BY <1>1, <1>2, <1>5
  <2>2. fired[r.question] > 0 /\ Fresh(r.question, r.seq) /\ r.at = "wire"
    BY <2>1 DEF FreshInv
  <2> QED
    BY <1>1, <1>4, <2>1, <2>2
<1>9. page'.load >= 1 /\ \A s \in Servers : handler'[s] # Idle =>
        handler'[s].call.kind = IF Saving(s)' THEN "answer" ELSE "submit"
  BY <1>1 DEF FreshInv, Saving
<1> QED
  BY <1>6, <1>7, <1>8, <1>9 DEF FreshInv, Fresh, OpenSave

LEMMA PageQuiet ==
  ASSUME OnePage, TypeInv, TypeInv', FreshInv, PageStep
  PROVE  Quietly \/ \E q \in Questions, a \in Answers : Change(q, a)
<1>1. /\ page.seq \in Nat /\ \A q \in Questions : fired[q] \in Nat
      /\ \A q, k \in Nat : k >= k
  BY DEF TypeInv, PageTyped, Page
<1>2. ASSUME NEW q \in Questions, Fire(q)
      PROVE  Quietly
  <2> DEFINE c == Request("answer", q, shown[q], page.seq + 1, 0)
  <2>1. /\ c.question = q /\ c.answer = shown[q] /\ c.seq = page.seq + 1 /\ c.at = "wire"
    BY RequestSays
  <2>2. /\ UNCHANGED <<rows, handler, shown, retries>> /\ calls' = calls \cup {c}
        /\ page'.load = page.load /\ page'.seq = page.seq + 1
        /\ fired'[q] = page.seq + 1 /\ sync'[q] = "saving"
        /\ \A p \in Questions : p # q => fired'[p] = fired[p] /\ sync'[p] = sync[p]
    BY <1>2 DEF Fire, serverVars, TypeInv, PageTyped, Page
  <2> HIDE DEF c
  <2>3. \A e \in calls' : e \in calls \/
          /\ e.question \in Questions /\ e.at # "ok" /\ e.answer = shown[e.question]
          /\ e.seq <= page'.seq /\ fired'[e.question] > 0 /\ e.seq > page.seq
    BY <1>1, <2>1, <2>2
  <2>4. \A p \in Questions : \/ fired'[p] = fired[p] /\ sync'[p] = sync[p]
                             \/ fired'[p] > page.seq /\ fired'[p] <= page'.seq /\ sync'[p] = "saving"
    BY <1>1, <2>2
  <2>5. page'.seq >= page.seq
    BY <1>1, <2>2
  <2> QED
    BY <2>2, <2>3, <2>4, <2>5, PostsQuiet
<1>3. ASSUME NEW q \in Questions, RetryNow(q)
      PROVE  Quietly
  <2> DEFINE r == Request("answer", q, shown[q], fired[q], 0)
             c == [r EXCEPT !.manual = page.manual + 1]
  <2>1. /\ c.question = q /\ c.answer = shown[q] /\ c.seq = fired[q] /\ c.at = "wire"
    BY DEF Request
  <2>2. /\ UNCHANGED <<rows, handler, shown, fired>> /\ calls' = calls \cup {c}
        /\ retries' \subseteq retries
        /\ page'.load = page.load /\ page'.seq = page.seq
        /\ sync[q] = "failed" /\ sync'[q] = "saving"
        /\ \A p \in Questions : p # q => sync'[p] = sync[p]
    BY <1>3 DEF RetryNow, serverVars, TypeInv, PageTyped, Page, Cancelled
  <2>3. fired[q] > 0 /\ Fresh(q, fired[q]) /\ fired[q] <= page.seq
    BY <2>2 DEF FreshInv
  <2> HIDE DEF c
  <2>4. \A e \in calls' : e \in calls \/
          /\ e.question \in Questions /\ e.at # "ok" /\ e.answer = shown[e.question]
          /\ e.seq <= page'.seq /\ fired'[e.question] > 0 /\ Fresh(e.question, e.seq)
    BY <2>1, <2>2, <2>3
  <2>5. page'.seq >= page.seq
    BY <1>1, <2>2
  <2> QED
    BY <2>2, <2>3, <2>4, <2>5, PostsQuiet
<1>4. ASSUME NEW q \in Questions, BeginLeave(q)
      PROVE  Quietly
  <2>1. Questions \ Later \in SUBSET Questions
    OBVIOUS
  <2> QED
    BY <1>4, <2>1, FlushQuiet DEF BeginLeave
<1>5. ASSUME NEW q \in Questions, NEW pressed \in BOOLEAN, BeginSubmit(q, pressed)
      PROVE  Quietly
  <2>1. Questions \in SUBSET Questions
    OBVIOUS
  <2> QED
    BY <1>5, <2>1, FlushQuiet DEF BeginSubmit
<1>6. ASSUME NEW r \in retries, RetryFires(r)
      PROVE  Quietly
  <2> DEFINE c == [r EXCEPT !.open = TRUE]
  <2>1. /\ r \in Call /\ r.question \in Questions /\ r.kind = "answer" /\ r.at = "wire"
        /\ fired[r.question] > 0 /\ Fresh(r.question, r.seq) /\ r.seq \in Nat /\ r.answer \in Answers
    BY DEF TypeInv, PageTyped, FreshInv, Call
  <2>2. /\ c.question = r.question /\ c.answer = r.answer /\ c.seq = r.seq /\ c.at = "wire"
    BY <2>1 DEF Call
  <2>3. Carries(r.question, r.seq, r.answer)
    BY DEF Carries
  <2>4. r.answer = shown[r.question] /\ r.seq <= page.seq
    <3>1. r.seq >= r.seq
      BY <2>1
    <3> QED
      BY <2>1, <2>3, <3>1 DEF FreshInv, Fresh
  <2>5. /\ UNCHANGED <<rows, handler, shown, fired, page>> /\ calls' = calls \cup {c}
        /\ sync'[r.question] = "saving"
        /\ \A p \in Questions : p # r.question => sync'[p] = sync[p]
    BY <1>6, <2>1 DEF RetryFires, serverVars, TypeInv, PageTyped
  <2>6. \A t \in retries' : \E o \in retries : t.question = o.question /\ t.seq = o.seq
                                               /\ t.answer = o.answer /\ t.at = o.at
    <3> SUFFICES ASSUME NEW t \in retries'
                 PROVE  \E o \in retries : t.question = o.question /\ t.seq = o.seq
                                           /\ t.answer = o.answer /\ t.at = o.at
      OBVIOUS
    <3>1. PICK o \in retries : t = o \/ t = [o EXCEPT !.open = FALSE]
      BY <1>6 DEF RetryFires, Released
    <3>2. o \in Call
      BY DEF TypeInv, PageTyped
    <3> QED
      BY <3>1, <3>2 DEF Call
  <2> HIDE DEF c
  <2>7. \A q \in Questions, m \in Nat, a \in Answers : Carries(q, m, a)' => Carries(q, m, a)
    <3> SUFFICES ASSUME NEW q \in Questions, NEW m \in Nat, NEW a \in Answers, Carries(q, m, a)'
                 PROVE  Carries(q, m, a)
      OBVIOUS
    <3>1. CASE \E e \in calls' : e.kind = "answer" /\ e.question = q /\ e.seq = m /\ e.answer = a
      BY <2>2, <2>3, <2>5, <3>1 DEF Carries
    <3>2. CASE \E t \in retries' : t.question = q /\ t.seq = m /\ t.answer = a
      BY <2>6, <3>2 DEF Carries
    <3>3. CASE \E s \in Servers : /\ Saving(s)' /\ handler'[s].call.question = q
                                  /\ handler'[s].call.seq = m /\ handler'[s].call.answer = a
      BY <2>5, <3>3 DEF Carries, Saving
    <3>4. CASE rows'[q].seq = m /\ rows'[q].answer = a
      BY <2>5, <3>4 DEF Carries
    <3> QED
      BY <3>1, <3>2, <3>3, <3>4 DEF Carries
  <2>8. \A e \in calls' : OpenSave(e) =>
          /\ fired'[e.question] > 0 /\ Fresh(e.question, e.seq)
          /\ e.at = "ok" => rows'[e.question].seq >= e.seq
    BY <2>1, <2>2, <2>5 DEF FreshInv, OpenSave
  <2>9. \A t \in retries' : fired'[t.question] > 0 /\ Fresh(t.question, t.seq) /\ t.at = "wire"
    BY <2>5, <2>6 DEF FreshInv
  <2>10. page'.seq >= page.seq /\ \A q \in Questions : rows'[q].seq >= rows[q].seq
    BY <1>1, <2>5 DEF TypeInv, ServerTyped
  <2>11. \A s \in Servers : handler'[s] # Idle =>
           handler'[s].call.kind = IF Saving(s)' THEN "answer" ELSE "submit"
    BY <2>5 DEF FreshInv, Saving
  <2> QED
    BY <2>5, <2>7, <2>8, <2>9, <2>10, <2>11 DEF Quietly
<1>7. CASE Leave
  <2> DEFINE c == Request("enter", NoQuestion, Unanswered, 1, 0)
  <2>1. c.kind = "enter"
    BY RequestSays
  <2>2. /\ UNCHANGED <<rows, handler, shown, sync, fired, retries>> /\ calls' = calls \cup {c}
        /\ page'.load = page.load /\ page'.seq = page.seq
    BY <1>7 DEF Leave, serverVars, TypeInv, PageTyped, Page
  <2> HIDE DEF c
  <2> QED
    BY <2>1, <2>2, IdleQuiet
<1>8. CASE EndFlush
  <2> DEFINE c == Request("submit", NoQuestion, Unanswered, Cardinality(SavedWithAnswer), page.submits)
  <2>1. c.kind = "submit"
    BY RequestSays
  <2>2. /\ UNCHANGED <<rows, handler, shown, sync, fired, retries>> /\ calls' \subseteq calls \cup {c}
        /\ page'.load = page.load /\ page'.seq = page.seq
    BY <1>8 DEF EndFlush, serverVars, TypeInv, PageTyped, Page
  <2> HIDE DEF c
  <2> QED
    BY <2>1, <2>2, IdleQuiet
<1> QED
  BY <1>2, <1>3, <1>4, <1>5, <1>6, <1>7, <1>8, LoadedOnce DEF PageStep, Reload

LEMMA FreshStep ==
  ASSUME OneServer, OnePage, TypeInv, SheetInv, FreshInv, [Next]_vars, TypeInv'
  PROVE  FreshInv'
<1>1. CASE Next
  <2>1. CASE \E q \in Questions, a \in Answers : Change(q, a)
    BY <2>1, ChangeFresh
  <2>2. CASE Quietly
    BY <2>2, QuietFresh
  <2> QED
    BY <1>1, <2>1, <2>2, PageQuiet, NetworkQuiet, ServerQuiet DEF Next
<1>2. CASE UNCHANGED vars
  <2>1. UNCHANGED <<rows, handler, shown, sync, fired, retries, calls, page>>
    BY <1>2 DEF vars
  <2> QED
    BY <2>1, IdleQuiet, QuietFresh
<1> QED
  BY <1>1, <1>2

\* With one server process and one page load, everything proved above holds at once.
LEMMA FreshHolds ==
  ASSUME OneServer, OnePage
  PROVE  Spec => [](TypeInv /\ SheetInv /\ FreshInv)
<1>1. Init => SheetInv /\ FreshInv
  BY DEF Init, SheetInv, FreshInv, Fresh, Carries, OpenSave, Saving, Idle
<1>2. TypeInv /\ SheetInv /\ FreshInv /\ [Next]_vars /\ TypeInv' => SheetInv' /\ FreshInv'
  BY SheetStep, FreshStep
<1> QED
  BY <1>1, <1>2, TypesHold, PTL DEF Spec

\* An answer the page marks as saved is the one the server holds, whatever request
\* or reply was lost, late or retried, whatever write failed and whatever process
\* died: with one server process, one page load and a learner who does not change an
\* answer whose save is on its way.
THEOREM SavedIsStoredHolds ==
  ASSUME OneServer, OnePage
  PROVE  Spec => []SavedIsStored
<1>1. TypeInv /\ FreshInv => SavedIsStored
  <2> SUFFICES ASSUME TypeInv, FreshInv, NEW q \in Questions, sync[q] = "saved"
               PROVE  rows[q].answer = shown[q]
    BY DEF SavedIsStored
  <2>1. rows[q].seq \in Nat /\ rows[q].answer \in Answers
    BY DEF TypeInv, ServerTyped
  <2>2. Carries(q, rows[q].seq, rows[q].answer) /\ rows[q].seq >= rows[q].seq
    BY <2>1 DEF Carries
  <2> QED
    BY <2>1, <2>2 DEF FreshInv, Fresh
<1> QED
  BY <1>1, FreshHolds, PTL

\* So the grade counts every answer the page marked as saved, as it marked it: what
\* was scored is what is stored, and stays so.
THEOREM GradedAsShownHolds ==
  ASSUME OneServer, OnePage
  PROVE  Spec => []GradedAsShown
<1>1. SheetInv /\ SavedIsStored => GradedAsShown
  BY DEF SheetInv, SavedIsStored, GradedAsShown, Stored
<1>2. TypeInv /\ SheetInv /\ FreshInv => SheetInv
  OBVIOUS
<1> QED
  BY <1>1, <1>2, FreshHolds, SavedIsStoredHolds, PTL

-----------------------------------------------------------------------------
(* A submit is never told that saved answers are missing.                    *)

LandedWithAnswer == {q \in Questions : Fresh(q, rows[q].seq) /\ shown[q] # Unanswered}

OpenSubmit(c) == c.kind = "submit" /\ c.open

\* While the page waits for its submit, of which there is one, no answer on it
\* changes, and the questions the submit claims stay stored.
CountInv ==
  /\ \A c \in calls : c.at # "conflict"
  /\ \A c \in calls : OpenSubmit(c) =>
       page.mode = "submitting" /\ c.seq <= Cardinality(LandedWithAnswer)
  /\ \A c, d \in calls : OpenSubmit(c) /\ OpenSubmit(d) => c = d

\* What is saved with an answer is stored with one.
LEMMA SavedIsLanded ==
  ASSUME FreshInv
  PROVE  Cardinality(SavedWithAnswer) <= Cardinality(LandedWithAnswer)
         /\ Cardinality(SavedWithAnswer) \in Nat /\ Cardinality(LandedWithAnswer) \in Nat
<1>1. SavedWithAnswer \subseteq LandedWithAnswer /\ LandedWithAnswer \subseteq Questions
  BY DEF SavedWithAnswer, LandedWithAnswer, FreshInv
<1>2. IsFiniteSet(LandedWithAnswer) /\ IsFiniteSet(SavedWithAnswer)
  BY <1>1, FS_Subset, SyncAssumption DEF SyncAssumption
<1> QED
  BY <1>1, <1>2, FS_Subset, FS_CardinalityType

LEMMA LandedIsStored ==
  ASSUME TypeInv, Numeric = {}
  PROVE  Cardinality(LandedWithAnswer) <= Cardinality(StoredOptions)
         /\ Cardinality(LandedWithAnswer) \in Nat /\ Cardinality(StoredOptions) \in Nat
<1>1. LandedWithAnswer \subseteq StoredOptions
  <2> SUFFICES ASSUME NEW q \in LandedWithAnswer
               PROVE  q \in StoredOptions
    OBVIOUS
  <2>1. /\ q \in Questions /\ Fresh(q, rows[q].seq) /\ shown[q] # Unanswered
        /\ rows[q].seq \in Nat /\ rows[q].answer \in Answers
    BY DEF LandedWithAnswer, TypeInv, ServerTyped
  <2>2. Carries(q, rows[q].seq, rows[q].answer) /\ rows[q].seq >= rows[q].seq
    BY <2>1 DEF Carries
  <2>3. rows[q].answer = shown[q]
    BY <2>1, <2>2 DEF Fresh
  <2> QED
    BY <2>1, <2>3 DEF StoredOptions
<1>2. IsFiniteSet(StoredOptions) /\ IsFiniteSet(LandedWithAnswer)
  <2>1. StoredOptions \subseteq Questions /\ LandedWithAnswer \subseteq Questions
    BY DEF StoredOptions, LandedWithAnswer
  <2> QED
    BY <2>1, FS_Subset, SyncAssumption DEF SyncAssumption
<1> QED
  BY <1>1, <1>2, FS_Subset, FS_CardinalityType

\* A quiet step keeps what is stored with an answer stored.
LEMMA LandedStays ==
  ASSUME TypeInv, TypeInv', FreshInv, Quietly
  PROVE  \A n \in Nat : n <= Cardinality(LandedWithAnswer) => n <= Cardinality(LandedWithAnswer')
<1>1. \A q \in Questions : Fresh(q, rows[q].seq) => Fresh(q, rows[q].seq)'
  BY QuietFresh
<1>2. shown' = shown
  BY DEF Quietly
<1>3. LandedWithAnswer \subseteq LandedWithAnswer' /\ LandedWithAnswer' \subseteq Questions
  BY <1>1, <1>2 DEF LandedWithAnswer
<1>4. IsFiniteSet(LandedWithAnswer') /\ IsFiniteSet(LandedWithAnswer)
  BY <1>3, FS_Subset, SyncAssumption DEF SyncAssumption
<1>5. /\ Cardinality(LandedWithAnswer) \in Nat /\ Cardinality(LandedWithAnswer') \in Nat
      /\ Cardinality(LandedWithAnswer) <= Cardinality(LandedWithAnswer')
  BY <1>3, <1>4, FS_Subset, FS_CardinalityType
<1> QED
  BY <1>5

LEMMA CountKept ==
  ASSUME TypeInv, TypeInv', FreshInv, Quietly,
         \A e \in calls' : e.at # "conflict",
         \A e \in calls' : OpenSubmit(e) =>
           page'.mode = "submitting" /\ e.seq <= Cardinality(LandedWithAnswer),
         \A c, d \in calls' : OpenSubmit(c) /\ OpenSubmit(d) => c = d
  PROVE  CountInv'
<1>1. \A e \in calls' : e.seq \in Nat
  BY DEF TypeInv, CallsTyped, Call
<1>2. \A e \in calls' : OpenSubmit(e) => e.seq <= Cardinality(LandedWithAnswer')
  BY <1>1, LandedStays
<1> QED
  BY <1>2 DEF CountInv, OpenSubmit

\* Two calls that moved were two calls before.
LEMMA MovedApart ==
  ASSUME CallsTyped, NEW c \in Call, NEW w \in Positions,
         NEW e \in Moved(c, w), NEW f \in Moved(c, w)
  PROVE  \E d, g \in calls : /\ e.kind = d.kind /\ e.open = d.open /\ e.question = d.question
                             /\ f.kind = g.kind /\ f.open = g.open /\ f.question = g.question
                             /\ d = g => e = f
<1>1. PICK d \in calls : e = IF Key(d) = Key(c) THEN [d EXCEPT !.at = w] ELSE d
  BY DEF Moved
<1>2. PICK g \in calls : f = IF Key(g) = Key(c) THEN [g EXCEPT !.at = w] ELSE g
  BY DEF Moved
<1>3. \A k \in Call : /\ [k EXCEPT !.at = w].kind = k.kind /\ [k EXCEPT !.at = w].open = k.open
                      /\ [k EXCEPT !.at = w].question = k.question
  BY DEF Call
<1>4. d \in Call /\ g \in Call
  BY DEF CallsTyped
<1>5. /\ e.kind = d.kind /\ e.open = d.open /\ e.question = d.question
      /\ f.kind = g.kind /\ f.open = g.open /\ f.question = g.question
  BY <1>1, <1>2, <1>3, <1>4
<1> QED
  BY <1>1, <1>2, <1>5

\* What a server does with a call; only a count that falls short is a conflict.
LEMMA ServerMoves ==
  ASSUME TypeInv, ServerStep
  PROVE  \/ UNCHANGED calls
         \/ \E c \in Call, w \in Positions :
              /\ calls' = Moved(c, w)
              /\ w = "conflict" => \E s \in Servers :
                   /\ handler[s].phase = "count" /\ handler[s].call = c
                   /\ c.seq > Cardinality(StoredOptions) \/ "read" \in Faults
<1> USE DEF Positions
<1>1. ASSUME NEW c \in Call, NEW w \in Positions \ {"conflict"}, calls' = Moved(c, w)
      PROVE  \E d \in Call, v \in Positions :
               /\ calls' = Moved(d, v)
               /\ v = "conflict" => \E s \in Servers :
                    /\ handler[s].phase = "count" /\ handler[s].call = d
                    /\ d.seq > Cardinality(StoredOptions) \/ "read" \in Faults
  BY <1>1
<1>2. \A c \in calls : c \in Call
  BY DEF TypeInv, CallsTyped
<1>3. ASSUME NEW s \in Servers, handler[s].phase \in Phases
      PROVE  handler[s].call \in Call
  <2>1. handler[s] # Idle
    BY <1>3 DEF Idle, Phases
  <2> QED
    BY <2>1, BusyType DEF TypeInv
<1>4. ASSUME NEW s \in Servers, NEW c \in calls,
             ServeAnswer(s, c) \/ ServeEnter(s, c) \/ ServeSubmit(s, c)
      PROVE  \E w \in Positions \ {"conflict"} : calls' = Moved(c, w)
  <2>1. CASE ServeAnswer(s, c)
    BY <2>1 DEF ServeAnswer, Hands, Replies
  <2>2. CASE ServeEnter(s, c)
    BY <2>2 DEF ServeEnter, Hands, Replies
  <2>3. CASE ServeSubmit(s, c)
    BY <2>3 DEF ServeSubmit, Hands, Replies
  <2> QED
    BY <1>4, <2>1, <2>2, <2>3
<1>5. ASSUME NEW s \in Servers,
             ReadSeq(s) \/ WriteAnswer(s) \/ ReadAnswers(s) \/ Flip(s)
      PROVE  handler[s].call \in Call
             /\ \E w \in Positions \ {"conflict"} : calls' = Moved(handler[s].call, w)
  <2>1. handler[s].call \in Call
    BY <1>3, <1>5 DEF ReadSeq, WriteAnswer, ReadAnswers, Flip, Phases
  <2> DEFINE c == handler[s].call
  <2>2. CASE ReadSeq(s)
    <3>1. Replies(s, c, "ok") \/ Hands(s, "write", c, NotGraded)
      BY <2>2 DEF ReadSeq
    <3> QED
      BY <2>1, <3>1 DEF Hands, Replies
  <2>3. CASE WriteAnswer(s)
    <3>1. Replies(s, c, "ok") \/ Replies(s, c, "failed")
      BY <2>3 DEF WriteAnswer
    <3> QED
      BY <2>1, <3>1 DEF Replies
  <2>4. CASE ReadAnswers(s)
    <3>1. (\E g \in Scored : Hands(s, "flip", c, g)) \/ Replies(s, c, "failed")
      BY <2>4 DEF ReadAnswers
    <3> QED
      BY <2>1, <3>1 DEF Hands, Replies
  <2>5. CASE Flip(s)
    <3>1. Replies(s, c, "ok") \/ Replies(s, c, "failed")
      BY <2>5 DEF Flip
    <3> QED
      BY <2>1, <3>1 DEF Replies
  <2> QED
    BY <1>5, <2>1, <2>2, <2>3, <2>4, <2>5
<1>6. ASSUME NEW s \in Servers, CountAnswers(s)
      PROVE  \E c \in Call, w \in Positions :
               /\ calls' = Moved(c, w)
               /\ w = "conflict" => \E t \in Servers :
                    /\ handler[t].phase = "count" /\ handler[t].call = c
                    /\ c.seq > Cardinality(StoredOptions) \/ "read" \in Faults
  <2>1. handler[s].call \in Call /\ handler[s].phase = "count"
    BY <1>3, <1>6 DEF CountAnswers, Phases
  <2>2. \/ calls' = Moved(handler[s].call, "server")
        \/ /\ handler[s].call.seq > Cardinality(StoredOptions) \/ "read" \in Faults
           /\ calls' = Moved(handler[s].call, "conflict")
    BY <1>6 DEF CountAnswers, Hands, Replies
  <2> QED
    BY <2>1, <2>2
<1>7. ASSUME NEW s \in Servers, Crash(s)
      PROVE  handler[s].call \in Call /\ calls' = Moved(handler[s].call, "failed")
  BY <1>7, BusyType DEF Crash, Replies, TypeInv
<1>8. CASE Sweep \/ SweepFlip \/ Tick
  BY <1>8 DEF Sweep, SweepFlip, Tick
<1> QED
  BY <1>1, <1>2, <1>4, <1>5, <1>6, <1>7, <1>8 DEF ServerStep

\* A server leaves the page alone.
LEMMA ServerPage ==
  ASSUME ServerStep
  PROVE  UNCHANGED pageVars
BY DEF ServerStep, ServeAnswer, ServeEnter, ServeSubmit, ReadSeq, WriteAnswer, CountAnswers,
       ReadAnswers, Flip, Crash, Sweep, SweepFlip, Tick

LEMMA ServerCount ==
  ASSUME OneServer, Numeric = {}, TypeInv, TypeInv', SheetInv, FreshInv, CountInv, ServerStep
  PROVE  CountInv'
<1>1. Quietly /\ page' = page
  BY ServerQuiet, ServerPage DEF pageVars
<1>2. CASE UNCHANGED calls
  BY <1>1, <1>2, CountKept DEF CountInv
<1>3. ASSUME NEW c \in Call, NEW w \in Positions, calls' = Moved(c, w),
             w = "conflict" => c.kind = "submit" /\ c.seq > Cardinality(StoredOptions)
      PROVE  CountInv'
  <2>1. ASSUME NEW e \in calls'
        PROVE  /\ e.at # "conflict"
               /\ OpenSubmit(e) => page'.mode = "submitting" /\ e.seq <= Cardinality(LandedWithAnswer)
    <3>1. PICK d \in calls : /\ e.kind = d.kind /\ e.seq = d.seq /\ e.open = d.open
                             /\ \/ e = d
                                \/ /\ e.at = w /\ d.kind = c.kind /\ d.seq = c.seq
                                   /\ (e.open \/ w = "server")
      BY <1>3, MovedFrom DEF TypeInv
    <3>2. OpenSubmit(d) => page.mode = "submitting" /\ d.seq <= Cardinality(LandedWithAnswer)
      BY DEF CountInv
    <3>3. CASE e = d
      BY <1>1, <3>2, <3>3 DEF CountInv
    <3>4. CASE /\ e.at = w /\ d.kind = c.kind /\ d.seq = c.seq
               /\ (e.open \/ w = "server")
      <4>1. e.at # "conflict"
        <5> SUFFICES ASSUME w = "conflict"
                     PROVE  FALSE
          BY <3>4
        <5>1. OpenSubmit(d) /\ d.seq > Cardinality(StoredOptions)
          BY <1>3, <3>1, <3>4 DEF OpenSubmit
        <5>2. d.seq \in Nat
          BY DEF TypeInv, CallsTyped, Call
        <5> QED
          BY <3>2, <5>1, <5>2, LandedIsStored
      <4> QED
        BY <1>1, <3>1, <3>2, <4>1 DEF OpenSubmit
    <3> QED
      BY <3>1, <3>3, <3>4
  <2>2. \A e, f \in calls' : OpenSubmit(e) /\ OpenSubmit(f) => e = f
    <3> SUFFICES ASSUME NEW e \in calls', NEW f \in calls', OpenSubmit(e), OpenSubmit(f)
                 PROVE  e = f
      OBVIOUS
    <3>1. PICK d, g \in calls : /\ e.kind = d.kind /\ e.open = d.open
                                /\ f.kind = g.kind /\ f.open = g.open
                                /\ d = g => e = f
      BY <1>3, MovedApart DEF TypeInv
    <3> QED
      BY <3>1 DEF CountInv, OpenSubmit
  <2> QED
    BY <1>1, <2>1, <2>2, CountKept
<1>4. ASSUME NEW c \in Call, NEW s \in Servers, handler[s].phase = "count", handler[s].call = c,
             c.seq > Cardinality(StoredOptions) \/ "read" \in Faults
      PROVE  c.kind = "submit" /\ c.seq > Cardinality(StoredOptions)
  BY <1>4 DEF FreshInv, Saving, Idle, OneServer
<1> QED
  BY <1>2, <1>3, <1>4, ServerMoves

LEMMA NetworkCount ==
  ASSUME OnePage, TypeInv, TypeInv', FreshInv, CountInv, NetworkStep
  PROVE  CountInv'
<1>1. PICK c \in calls : SaveReply(c) \/ SubmitReply(c) \/ EnterReply(c) \/ Lost(c)
  BY DEF NetworkStep
<1>2. Quietly
  BY NetworkQuiet
<1>3. \A d \in calls : d \in Call
  BY DEF TypeInv, CallsTyped
<1>4. /\ \A e \in calls' : e.at # "conflict"
      /\ \A e \in calls' : OpenSubmit(e) => e \in calls \ {c}
  <2>1. CASE calls' = calls \ {c}
    BY <2>1 DEF CountInv
  <2>2. CASE Lost(c)
    <3> SUFFICES ASSUME NEW e \in calls'
                 PROVE  e.at # "conflict" /\ (OpenSubmit(e) => e \in calls \ {c})
      OBVIOUS
    <3>1. e \in calls \ {c} \/ \E d \in calls : e = [d EXCEPT !.open = FALSE]
      BY <2>2 DEF Lost, Abandoned, Closed
    <3>2. \A d \in Call : [d EXCEPT !.open = FALSE].at = d.at /\ ~[d EXCEPT !.open = FALSE].open
      BY DEF Call
    <3> QED
      BY <1>3, <3>1, <3>2 DEF CountInv, OpenSubmit
  <2> QED
    BY <1>1, <2>1, <2>2, LoadedOnce DEF SaveReply, SubmitReply, EnterReply
<1>5. page'.mode = page.mode \/ OpenSubmit(c)
  BY <1>1, <1>3, LoadedOnce DEF SaveReply, SubmitReply, EnterReply, Lost, Settles, OpenSubmit, pageVars,
     TypeInv, PageTyped, Page, Call
<1>6. \A e \in calls' : OpenSubmit(e) =>
        page'.mode = "submitting" /\ e.seq <= Cardinality(LandedWithAnswer)
  <2> SUFFICES ASSUME NEW e \in calls', OpenSubmit(e)
               PROVE  page'.mode = "submitting" /\ e.seq <= Cardinality(LandedWithAnswer)
    OBVIOUS
  <2>1. e \in calls \ {c}
    BY <1>4
  <2>2. ~OpenSubmit(c)
    BY <2>1 DEF CountInv
  <2> QED
    BY <1>5, <2>1, <2>2 DEF CountInv
<1>7. \A e, f \in calls' : OpenSubmit(e) /\ OpenSubmit(f) => e = f
  BY <1>4 DEF CountInv
<1> QED
  BY <1>2, <1>4, <1>6, <1>7, CountKept

LEMMA PageCount ==
  ASSUME OnePage, TypeInv, TypeInv', FreshInv, CountInv, PageStep
  PROVE  CountInv'
<1>1. CASE \E q \in Questions, a \in Answers : Change(q, a)
  <2>1. calls' = calls /\ page.mode = "answering"
    BY <1>1 DEF Change, OnePage
  <2>2. \A c \in calls : ~OpenSubmit(c)
    BY <2>1 DEF CountInv
  <2> QED
    BY <2>1, <2>2 DEF CountInv, OpenSubmit
<1>2. CASE EndFlush
  <2> DEFINE c == Request("submit", NoQuestion, Unanswered, Cardinality(SavedWithAnswer), page.submits)
  <2>1. c.seq = Cardinality(SavedWithAnswer) /\ c.at = "wire"
    BY RequestSays
  <2>2. \A e \in calls : ~OpenSubmit(e)
    BY <1>2 DEF EndFlush, CountInv
  <2>3. \/ calls' = calls
        \/ /\ calls' = calls \cup {c}
           /\ page' = [page EXCEPT !.mode = "submitting", !.submits = @ + 1]
    BY <1>2 DEF EndFlush
  <2>4. page \in Page
    BY DEF TypeInv, PageTyped
  <2>10. \A p \in Page : [p EXCEPT !.mode = "submitting", !.submits = @ + 1].mode = "submitting"
    BY DEF Page
  <2>6. Quietly
    <3>1. ~\E q \in Questions, a \in Answers : Change(q, a)
      BY <1>2 DEF Change, EndFlush, OnePage
    <3> QED
      BY <3>1, PageQuiet
  <2> HIDE DEF c
  <2>5. c \in calls' /\ c \notin calls => page'.mode = "submitting"
    BY <2>3, <2>4, <2>10
  <2>7. \A e \in calls' : OpenSubmit(e) => e = c /\ e \notin calls
    BY <2>2, <2>3
  <2>8. \A e \in calls' : e.at # "conflict"
    BY <2>1, <2>3 DEF CountInv
  <2>9. \A e \in calls' : OpenSubmit(e) =>
          page'.mode = "submitting" /\ e.seq <= Cardinality(LandedWithAnswer)
    BY <2>1, <2>5, <2>7, SavedIsLanded
  <2> QED
    BY <2>6, <2>7, <2>8, <2>9, CountKept
<1>3. CASE ~EndFlush /\ Quietly
  <2>1. \A e \in calls' : e \in calls \/ (e.kind # "submit" /\ e.at = "wire")
    <3>1. \A r \in retries : r \in Call /\ r.kind = "answer" /\ r.at = "wire"
      BY DEF TypeInv, PageTyped, FreshInv
    <3>2. \A r \in retries : [r EXCEPT !.open = TRUE].kind = "answer" /\ [r EXCEPT !.open = TRUE].at = "wire"
      BY <3>1 DEF Call
    <3>3. \A q, a, n : /\ Request("answer", q, a, n, 0).kind = "answer"
                       /\ Request("answer", q, a, n, 0).at = "wire"
      BY RequestSays
    <3>4. ASSUME NEW cur \in Questions, NEW flushed, NEW mode, Flush(cur, flushed, mode)
          PROVE  \A e \in calls' : e \in calls \/ (e.kind # "submit" /\ e.at = "wire")
      BY <3>3, <3>4 DEF Flush
    <3>5. CASE \E q \in Questions : Fire(q)
      BY <3>3, <3>5 DEF Fire
    <3>6. CASE \E q \in Questions : RetryNow(q)
      <4>1. PICK q \in Questions :
              calls' = calls \cup {[Request("answer", q, shown[q], fired[q], 0)
                                      EXCEPT !.manual = page.manual + 1]}
        BY <3>6 DEF RetryNow
      <4> DEFINE c == [Request("answer", q, shown[q], fired[q], 0) EXCEPT !.manual = page.manual + 1]
      <4>2. c.kind = "answer" /\ c.at = "wire"
        BY DEF Request
      <4>3. calls' = calls \cup {c}
        BY <4>1
      <4> HIDE DEF c
      <4> QED
        BY <4>2, <4>3
    <3>7. CASE \E q \in Questions : BeginLeave(q)
      BY <3>4, <3>7 DEF BeginLeave
    <3>8. CASE \E q \in Questions, pressed \in BOOLEAN : BeginSubmit(q, pressed)
      BY <3>4, <3>8 DEF BeginSubmit
    <3>9. CASE \E r \in retries : RetryFires(r)
      BY <3>2, <3>9 DEF RetryFires
    <3>10. CASE Leave
      <4>1. calls' = calls \cup {Request("enter", NoQuestion, Unanswered, 1, 0)}
        BY <3>10 DEF Leave
      <4> QED
        BY <4>1, RequestSays
    <3>11. CASE \E q \in Questions, a \in Answers : Change(q, a)
      BY <3>11 DEF Change
    <3> QED
      BY <1>3, <3>5, <3>6, <3>7, <3>8, <3>9, <3>10, <3>11, LoadedOnce DEF PageStep, Reload
  <2>2. page.mode = "submitting" => page'.mode = "submitting"
    BY <1>3, LoadedOnce DEF PageStep, Fire, RetryNow, BeginLeave, BeginSubmit, Change, RetryFires,
       Leave, Reload, TypeInv, PageTyped, Page
  <2> QED
    BY <1>3, <2>1, <2>2, CountKept DEF CountInv, OpenSubmit
<1> QED
  BY <1>1, <1>2, <1>3, PageQuiet

\* A learner all of whose answers are saved, each with an option, is never told that
\* some are missing: what the claim counts is stored, and stays so until it is read.
THEOREM NoFalseConflictHolds ==
  ASSUME OneServer, OnePage, Numeric = {}
  PROVE  Spec => []NoFalseConflict
<1>1. Init => CountInv
  BY DEF Init, CountInv
<1>2. TypeInv /\ SheetInv /\ FreshInv /\ CountInv /\ [Next]_vars /\ TypeInv' => CountInv'
  <2> SUFFICES ASSUME TypeInv, SheetInv, FreshInv, CountInv, [Next]_vars, TypeInv'
               PROVE  CountInv'
    OBVIOUS
  <2>1. CASE UNCHANGED vars
    <3>1. calls' = calls /\ page' = page /\ LandedWithAnswer' = LandedWithAnswer
      BY <2>1 DEF vars, LandedWithAnswer, Fresh, Carries, Saving
    <3> QED
      BY <3>1 DEF CountInv, OpenSubmit
  <2> QED
    BY <2>1, PageCount, NetworkCount, ServerCount DEF Next
<1>3. CountInv => NoFalseConflict
  BY DEF CountInv, NoFalseConflict
<1> QED
  BY <1>1, <1>2, <1>3, TypesHold, FreshHolds, PTL DEF Spec

-----------------------------------------------------------------------------
(* A section is left with nothing of it still to be saved.                   *)

Awaited(q) ==
  \/ \E c \in calls : OpenSave(c) /\ c.question = q
  \/ \E r \in retries : r.question = q

\* No save was posted a second time beside the first: since the page was loaded no
\* submit ended its flush and Retry was not pressed.
PostedOnce == page.manual = 0 /\ page.submits = 0

\* A question has one save on its way or one retry timer.
Single ==
  /\ \A c, d \in calls : OpenSave(c) /\ OpenSave(d) /\ c.question = d.question => c = d
  /\ \A r, t \in retries : r.question = t.question => r = t
  /\ \A c \in calls, r \in retries : OpenSave(c) => c.question # r.question

\* While saves are posted once, one that is on its way shows as such, the flush of
\* a section waits for it, and none of the first section is left past the change.
DrainInv ==
  /\ \A c \in calls : c.kind = "enter" => Locked
  /\ section = 1 \/ page.here = 1 \/ page.mode = "leaving" => Locked
  /\ \A c \in calls : OpenSubmit(c) => page.submits > 0
  /\ PostedOnce =>
       /\ page.here = 1 => \A q \in Questions : q \in timer \/ Awaited(q) => q \in Later
       /\ page.mode \in {"answering", "leaving"} =>
            Single /\ \A q \in Questions :
                        Awaited(q) => sync[q] \in {"saving", "retrying"} /\ q \notin timer
       /\ page.mode = "leaving" =>
            page.here = 0 /\ \A q \in Questions \ Later :
                               q \notin timer /\ (Awaited(q) => q \in page.awaiting)

\* The question and the kind of a call survive its closing and its opening.
LEMMA CallSays ==
  ASSUME NEW c \in Call
  PROVE  /\ \A o \in BOOLEAN : /\ [c EXCEPT !.open = o].kind = c.kind
                               /\ [c EXCEPT !.open = o].question = c.question
                               /\ [c EXCEPT !.open = o].open = o
         /\ \A w \in Positions : /\ [c EXCEPT !.at = w].kind = c.kind
                                 /\ [c EXCEPT !.at = w].question = c.question
         /\ [c EXCEPT !.at = "wire", !.open = TRUE, !.retry = @ + 1].question = c.question
BY DEF Call

\* A step of the page or the network that posts nothing: fewer saves are on their
\* way, and fewer timers run.
LEMMA FewerDrain ==
  ASSUME TypeInv, DrainInv, UNCHANGED section, timer' \subseteq timer, retries' \subseteq retries,
         \A e \in calls' : /\ OpenSave(e) => e \in calls
                           /\ e.kind = "enter" => Locked
                           /\ OpenSubmit(e) => page'.submits > 0,
         page'.here = page.here, page'.mode = page.mode,
         page'.manual = page.manual, page'.submits = page.submits,
         \A q \in Questions : (q \in page.awaiting /\ Awaited(q)') => q \in page'.awaiting,
         \A q \in Questions : sync'[q] = sync[q] \/ ~Awaited(q)'
  PROVE  DrainInv'
<1>1. PostedOnce' => PostedOnce
  BY DEF PostedOnce
<1>2. \A q \in Questions : Awaited(q)' => Awaited(q)
  BY DEF Awaited, OpenSave
<1>3. Single => Single'
  BY DEF Single, OpenSave
<1> QED
  BY <1>1, <1>2, <1>3 DEF DrainInv, OpenSubmit

LEMMA FlushDrain ==
  ASSUME TypeInv, TypeInv', DrainInv, NEW cur \in Questions, NEW flushed \in SUBSET Questions,
         NEW mode \in {"leaving", "flushing"}, Flush(cur, flushed, mode),
         page.mode = "answering", Locked => SectionOf(cur) = page.here,
         mode = "leaving" => /\ Locked /\ page.here = 0 /\ LeftAlone(cur) /\ Patient
                             /\ flushed = Questions \ Later
  PROVE  DrainInv'
<1> DEFINE late == (timer \cap flushed) \cup {cur}
           n == Cardinality(late)
<1>1. PICK mint \in [late -> (page.seq + 1) .. (page.seq + n)] :
         calls' = calls \cup {Request("answer", q, shown[q], mint[q], 0) : q \in late}
  BY DEF Flush
<1>2. /\ page' = [page EXCEPT !.seq = @ + n, !.mode = mode,
                              !.awaiting = (Pending \cap flushed) \cup late]
      /\ sync' = [q \in Questions |-> IF q \in late THEN "saving" ELSE sync[q]]
      /\ retries' \subseteq retries /\ timer' = timer \ late /\ section' = section
      /\ \A r \in retries' : ~(r.question = cur /\ r.open)
  BY DEF Flush, serverVars, Cancelled
<1>3. /\ late \subseteq Questions /\ cur \in late /\ (timer \cap flushed) \subseteq late
      /\ \A q \in late : q \in timer \/ q = cur
  OBVIOUS
<1>4. \A p \in Page : \A k, w :
        LET f == [p EXCEPT !.seq = @ + k, !.mode = mode, !.awaiting = w]
        IN /\ f.mode = mode /\ f.awaiting = w /\ f.here = p.here
           /\ f.manual = p.manual /\ f.submits = p.submits
  BY DEF Page
<1>5. /\ page'.mode = mode /\ page'.awaiting = (Pending \cap flushed) \cup late
      /\ page'.here = page.here /\ page'.manual = page.manual /\ page'.submits = page.submits
  BY <1>2, <1>4 DEF TypeInv, PageTyped
<1>6. \A e \in calls' : e \in calls \/ \E q \in late :
        /\ e = Request("answer", q, shown[q], mint[q], 0)
        /\ e.kind = "answer" /\ e.question = q
  BY <1>1, RequestSays
<1> HIDE DEF late, n
<1>7. \A q \in Questions : Awaited(q)' => Awaited(q) \/ q \in late
  BY <1>2, <1>6 DEF Awaited, OpenSave
<1>8. PostedOnce' => PostedOnce
  BY <1>5 DEF PostedOnce
<1>9. page.here = 1 => cur \in Later
  BY DEF DrainInv, SectionOf
<1>10. PostedOnce' /\ page'.here = 1 => \A q \in Questions : q \in timer' \/ Awaited(q)' => q \in Later
  BY <1>2, <1>3, <1>5, <1>7, <1>8, <1>9 DEF DrainInv
<1>11. /\ \A e \in calls' : e.kind = "enter" => Locked
       /\ section' = 1 \/ page'.here = 1 \/ page'.mode = "leaving" => Locked
       /\ \A e \in calls' : OpenSubmit(e) => page'.submits > 0
  BY <1>2, <1>5, <1>6 DEF DrainInv, OpenSubmit
<1>12. CASE mode = "flushing"
  BY <1>5, <1>10, <1>11, <1>12 DEF DrainInv, OpenSubmit
<1>13. CASE mode = "leaving" /\ ~PostedOnce
  BY <1>8, <1>11, <1>13 DEF DrainInv, OpenSubmit
<1>14. CASE mode = "leaving" /\ PostedOnce
  <2>1. /\ Single
        /\ \A q \in Questions : Awaited(q) => sync[q] \in {"saving", "retrying"} /\ q \notin timer
    BY <1>14 DEF DrainInv
  <2>2. ~Awaited(cur)
    BY <1>14 DEF LeftAlone, OnItsWay, Awaited, OpenSave
  <2>3. \A q \in late : ~Awaited(q)
    BY <1>3, <2>1, <2>2
  <2>4. Single'
    <3>1. \A c, d \in calls' : OpenSave(c) /\ OpenSave(d) /\ c.question = d.question => c = d
      BY <1>6, <2>1, <2>3 DEF Single, Awaited, OpenSave
    <3>2. \A c \in calls', r \in retries' : OpenSave(c) => c.question # r.question
      BY <1>2, <1>6, <2>1, <2>3 DEF Single, Awaited, OpenSave
    <3> QED
      BY <1>2, <2>1, <3>1, <3>2 DEF Single, OpenSave
  <2>5. \A q \in Questions : Awaited(q)' => sync'[q] \in {"saving", "retrying"} /\ q \notin timer'
    BY <1>2, <1>7, <2>1
  <2>6. \A q \in Questions \ Later :
          q \notin timer' /\ (Awaited(q)' => q \in page'.awaiting)
    <3> SUFFICES ASSUME NEW q \in Questions \ Later
                 PROVE  q \notin timer' /\ (Awaited(q)' => q \in page'.awaiting)
      OBVIOUS
    <3>1. q \notin timer'
      BY <1>2, <1>3, <1>14
    <3>2. CASE q \in late
      BY <1>5, <3>1, <3>2
    <3>3. CASE q \notin late
      BY <1>5, <1>7, <1>14, <2>1, <3>1, <3>3 DEF Pending, Terminal
    <3> QED
      BY <3>2, <3>3
  <2> QED
    BY <1>5, <1>10, <1>11, <1>14, <2>4, <2>5, <2>6 DEF DrainInv, OpenSubmit
<1> QED
  BY <1>12, <1>13, <1>14

\* A save's request ends.
LEMMA SettlesDrain ==
  ASSUME TypeInv, DrainInv, NEW c \in calls, OpenSave(c), NEW outcome, Settles(c, outcome),
         \A e \in calls' : /\ OpenSave(e) => e \in calls \ {c}
                           /\ e.kind = "enter" => Locked
                           /\ OpenSubmit(e) => page.submits > 0
  PROVE  DrainInv'
<1> DEFINE q == c.question
           again == outcome = "failed" /\ c.retry < MaxRetries
           next == [c EXCEPT !.at = "wire", !.open = TRUE, !.retry = @ + 1]
<1>1. c \in Call /\ q \in Questions /\ next.question = q
  BY CallSays DEF TypeInv, CallsTyped, OpenSave
<1>2. /\ UNCHANGED <<timer, section>>
      /\ sync' = [sync EXCEPT ![q] = IF outcome = "ok" THEN "saved"
                                     ELSE IF again THEN "retrying" ELSE "failed"]
      /\ page' = IF again THEN page ELSE [page EXCEPT !.awaiting = @ \ {q}]
      /\ retries' = IF again THEN Released(retries, q) \cup {next} ELSE retries
  BY DEF Settles, serverVars
<1>3. /\ page'.here = page.here /\ page'.mode = page.mode
      /\ page'.manual = page.manual /\ page'.submits = page.submits
      /\ page'.awaiting = IF again THEN page.awaiting ELSE page.awaiting \ {q}
  BY <1>2 DEF TypeInv, PageTyped, Page
<1>4. /\ \A p \in Questions : p # q => sync'[p] = sync[p]
      /\ again => sync'[q] = "retrying"
  BY <1>1, <1>2 DEF TypeInv, PageTyped
<1>5. \A r \in retries' : r = next \/ \E t \in retries : t.question = r.question /\ (r.question # q => r = t)
  <2> SUFFICES ASSUME NEW r \in retries', r # next
               PROVE  \E t \in retries : t.question = r.question /\ (r.question # q => r = t)
    OBVIOUS
  <2>1. PICK t \in retries : r = t \/ (t.question = q /\ r = [t EXCEPT !.open = FALSE])
    BY <1>2 DEF Released
  <2>2. t \in Call
    BY DEF TypeInv, PageTyped
  <2> QED
    BY <2>1, <2>2, CallSays
<1>6. Awaited(q)
  BY DEF Awaited
<1>7. retries' # retries => again
  BY <1>2
<1> HIDE DEF q, again, next
<1>8. \A p \in Questions : Awaited(p)' => Awaited(p)
  BY <1>1, <1>5, <1>6 DEF Awaited, OpenSave
<1>9. PostedOnce' => PostedOnce
  BY <1>3 DEF PostedOnce
<1>10. /\ \A e \in calls' : e.kind = "enter" => Locked
       /\ section' = 1 \/ page'.here = 1 \/ page'.mode = "leaving" => Locked
       /\ \A e \in calls' : OpenSubmit(e) => page'.submits > 0
       /\ PostedOnce' /\ page'.here = 1 => \A p \in Questions : p \in timer' \/ Awaited(p)' => p \in Later
  BY <1>2, <1>3, <1>8, <1>9 DEF DrainInv
<1>11. CASE ~(PostedOnce /\ page.mode \in {"answering", "leaving"})
  BY <1>3, <1>9, <1>10, <1>11 DEF DrainInv, OpenSubmit
<1>12. CASE PostedOnce /\ page.mode \in {"answering", "leaving"}
  <2>1. /\ Single
        /\ \A p \in Questions : Awaited(p) => sync[p] \in {"saving", "retrying"} /\ p \notin timer
    BY <1>12 DEF DrainInv
  <2>2. \A r \in retries : r.question # q
    BY <2>1 DEF Single, q
  <2>3. \A e \in calls' : OpenSave(e) => e \in calls /\ e.question # q
    BY <2>1 DEF Single, q
  <2>4. \A r \in retries' : r = next \/ r \in retries
    BY <1>5, <2>2
  <2>5. Single'
    <3>1. \A e, d \in calls' : OpenSave(e) /\ OpenSave(d) /\ e.question = d.question => e = d
      BY <2>1, <2>3 DEF Single
    <3>2. \A r, t \in retries' : r.question = t.question => r = t
      BY <1>1, <2>1, <2>2, <2>4 DEF Single
    <3>3. \A e \in calls', r \in retries' : OpenSave(e) => e.question # r.question
      BY <1>1, <2>1, <2>3, <2>4 DEF Single
    <3> QED
      BY <3>1, <3>2, <3>3 DEF Single, OpenSave
  <2>6. ~again => ~Awaited(q)'
    BY <1>7, <2>2, <2>3 DEF Awaited, OpenSave
  <2>7. \A p \in Questions : Awaited(p)' => sync'[p] \in {"saving", "retrying"} /\ p \notin timer'
    BY <1>2, <1>4, <1>8, <2>1, <2>6
  <2>8. page'.mode = "leaving" =>
          page'.here = 0 /\ \A p \in Questions \ Later :
                              p \notin timer' /\ (Awaited(p)' => p \in page'.awaiting)
    BY <1>2, <1>3, <1>8, <1>12, <2>6 DEF DrainInv
  <2> QED
    BY <1>3, <1>10, <2>5, <2>7, <2>8 DEF DrainInv, OpenSubmit
<1> QED
  BY <1>11, <1>12

\* A page load starts over with nothing to save.
LEMMA LoadedDrain ==
  ASSUME TypeInv, DrainInv, Loaded
  PROVE  DrainInv'
<1>1. /\ page'.here = section /\ page'.mode \in {"answering", "result"}
      /\ timer' = {} /\ retries' = {} /\ section' = section
  BY DEF Loaded, serverVars
<1>2. \A e \in calls' : \E d \in calls : e.kind = d.kind /\ ~e.open
  <2> SUFFICES ASSUME NEW e \in calls'
               PROVE  \E d \in calls : e.kind = d.kind /\ ~e.open
    OBVIOUS
  <2>1. PICK d \in calls : e = [d EXCEPT !.open = FALSE]
    BY DEF Loaded, Abandoned
  <2>2. d \in Call
    BY DEF TypeInv, CallsTyped
  <2> QED
    BY <2>1, <2>2, CallSays
<1>3. \A q \in Questions : ~Awaited(q)'
  BY <1>1, <1>2 DEF Awaited, OpenSave
<1>4. Single'
  BY <1>1, <1>2 DEF Single, OpenSave
<1> QED
  BY <1>1, <1>2, <1>3, <1>4 DEF DrainInv, OpenSubmit

LEMMA NetworkDrain ==
  ASSUME TypeInv, DrainInv, NetworkStep
  PROVE  DrainInv'
<1>1. PICK c \in calls : SaveReply(c) \/ SubmitReply(c) \/ EnterReply(c) \/ Lost(c)
  BY DEF NetworkStep
<1>2. \A d \in calls : d \in Call
  BY DEF TypeInv, CallsTyped
<1>3. CASE Loaded
  BY <1>3, LoadedDrain
<1>4. ASSUME ~Loaded
      PROVE  \A e \in calls' : /\ OpenSave(e) => e \in calls \ {c}
                               /\ e.kind = "enter" => Locked
                               /\ OpenSubmit(e) => e \in calls \ {c} /\ page.submits > 0
  <2>1. CASE calls' = calls \ {c}
    BY <2>1 DEF DrainInv
  <2>2. CASE Lost(c)
    <3> SUFFICES ASSUME NEW e \in calls'
                 PROVE  /\ OpenSave(e) => e \in calls \ {c}
                        /\ e.kind = "enter" => Locked
                        /\ OpenSubmit(e) => e \in calls \ {c} /\ page.submits > 0
      OBVIOUS
    <3>1. e \in calls \ {c} \/ \E d \in calls : e = [d EXCEPT !.open = FALSE]
      BY <2>2 DEF Lost, Abandoned, Closed
    <3>2. CASE e \in calls \ {c}
      BY <3>2 DEF DrainInv
    <3>3. ASSUME NEW d \in calls, e = [d EXCEPT !.open = FALSE]
          PROVE  e.kind = d.kind /\ ~e.open
      <4>1. d \in Call
        BY <1>2
      <4> QED
        BY <3>3, <4>1, CallSays
    <3> QED
      BY <3>1, <3>2, <3>3 DEF DrainInv, OpenSave, OpenSubmit
  <2> QED
    BY <1>1, <1>4, <2>1, <2>2 DEF SaveReply, SubmitReply, EnterReply
<1>5. CASE SaveReply(c)
  <2>1. OpenSave(c) /\ Settles(c, c.at) /\ ~Loaded
    <3>1. OpenSave(c) /\ Settles(c, c.at) /\ page'.load = page.load
      BY <1>5 DEF SaveReply, OpenSave, Settles, TypeInv, PageTyped, Page
    <3>2. Loaded => page'.load # page.load
      BY DEF Loaded, TypeInv, PageTyped, Page
    <3> QED
      BY <3>1, <3>2
  <2> QED
    BY <1>4, <2>1, SettlesDrain
<1>6. CASE SubmitReply(c) \/ (Lost(c) /\ c.kind = "submit")
  <2>1. CASE ~Loaded
    <3>1. /\ page'.here = page.here /\ page'.submits = page.submits /\ page.submits > 0
          /\ page'.mode \in {"answering", "result"}
          /\ UNCHANGED <<timer, retries, section>>
      BY <1>6, <2>1 DEF SubmitReply, Lost, serverVars, TypeInv, PageTyped, Page, DrainInv, OpenSubmit
    <3> QED
      BY <1>4, <2>1, <3>1 DEF DrainInv, PostedOnce, OpenSubmit
  <2> QED
    BY <1>3, <2>1
<1>7. CASE Lost(c) /\ c.kind = "answer" /\ ~Loaded
  <2>1. OpenSave(c) /\ Settles(c, "failed")
    BY <1>7 DEF Lost, OpenSave
  <2> QED
    BY <1>4, <1>7, <2>1, SettlesDrain
<1>8. CASE (EnterReply(c) \/ (Lost(c) /\ c.kind = "enter")) /\ ~Loaded
  <2>1. UNCHANGED <<pageVars, serverVars>>
    BY <1>8 DEF EnterReply, Lost
  <2> QED
    BY <1>4, <1>8, <2>1, FewerDrain DEF pageVars, serverVars
<1> QED
  BY <1>1, <1>2, <1>3, <1>5, <1>6, <1>7, <1>8 DEF Call

\* A page step other than a load.
LEMMA PageDrain ==
  ASSUME Patient, TypeInv, TypeInv', DrainInv, PageStep
  PROVE  DrainInv'
<1>1. ASSUME NEW q \in Questions, Fire(q)
      PROVE  DrainInv'
  <2> DEFINE c == Request("answer", q, shown[q], page.seq + 1, 0)
  <2>1. c.kind = "answer" /\ c.question = q /\ calls' = calls \cup {c}
    BY <1>1, RequestSays DEF Fire
  <2> HIDE DEF c
  <2>2. /\ q \in timer /\ timer' = timer \ {q} /\ UNCHANGED <<retries, section>>
        /\ page' = [page EXCEPT !.seq = @ + 1]
        /\ \A p \in Questions : sync'[p] = IF p = q THEN "saving" ELSE sync[p]
    BY <1>1 DEF Fire, serverVars, TypeInv, PageTyped
  <2>3. /\ page'.here = page.here /\ page'.mode = page.mode /\ page'.awaiting = page.awaiting
        /\ page'.manual = page.manual /\ page'.submits = page.submits
    BY <2>2 DEF TypeInv, PageTyped, Page
  <2>4. \A p \in Questions : Awaited(p)' => Awaited(p) \/ p = q
    BY <2>1, <2>2 DEF Awaited, OpenSave
  <2>5. PostedOnce /\ page.mode \in {"answering", "leaving"} => Single'
    <3> SUFFICES ASSUME PostedOnce, page.mode \in {"answering", "leaving"}
                 PROVE  Single'
      OBVIOUS
    <3>1. Single /\ ~Awaited(q)
      BY <2>2 DEF DrainInv
    <3> QED
      BY <2>1, <2>2, <3>1 DEF Single, Awaited, OpenSave
  <2> QED
    BY <2>1, <2>2, <2>3, <2>4, <2>5 DEF DrainInv, PostedOnce, OpenSubmit
<1>2. ASSUME NEW q \in Questions, RetryNow(q)
      PROVE  DrainInv'
  <2> DEFINE r == Request("answer", q, shown[q], fired[q], 0)
             c == [r EXCEPT !.manual = page.manual + 1]
  <2>1. c.kind = "answer"
    BY DEF Request
  <2>2. /\ calls' = calls \cup {c} /\ section' = section
        /\ page' = [page EXCEPT !.manual = @ + 1]
    BY <1>2 DEF RetryNow, serverVars
  <2> HIDE DEF c
  <2>3. page'.manual # 0 /\ page'.here = page.here /\ page'.mode = page.mode /\ page'.submits = page.submits
    BY <2>2 DEF TypeInv, PageTyped, Page
  <2> QED
    BY <2>1, <2>2, <2>3 DEF DrainInv, PostedOnce, OpenSubmit
<1>3. ASSUME NEW q \in Questions, BeginLeave(q)
      PROVE  DrainInv'
  <2>1. Questions \ Later \in SUBSET Questions
    OBVIOUS
  <2> QED
    BY <1>3, <2>1, FlushDrain DEF BeginLeave
<1>4. ASSUME NEW q \in Questions, NEW a \in Answers, Change(q, a)
      PROVE  DrainInv'
  <2>1. /\ UNCHANGED <<page, calls, section>> /\ page.mode = "answering"
        /\ timer' = timer \cup {q} /\ retries' \subseteq retries
        /\ Locked => SectionOf(q) = page.here
        /\ \A p \in Questions : p # q => sync'[p] = sync[p]
    BY <1>4 DEF Change, serverVars, Cancelled, TypeInv, PageTyped
  <2>2. \A p \in Questions : Awaited(p)' => Awaited(p) /\ p # q
    BY <1>4, <2>1 DEF Change, LeftAlone, OnItsWay, Awaited, OpenSave
  <2>3. Single => Single'
    BY <2>1 DEF Single, OpenSave
  <2>4. page.here = 1 => q \in Later
    BY <2>1 DEF DrainInv, SectionOf
  <2> QED
    BY <2>1, <2>2, <2>3, <2>4 DEF DrainInv, PostedOnce, OpenSubmit
<1>5. ASSUME NEW q \in Questions, NEW pressed \in BOOLEAN, BeginSubmit(q, pressed)
      PROVE  DrainInv'
  <2>1. Questions \in SUBSET Questions
    OBVIOUS
  <2> QED
    BY <1>5, <2>1, FlushDrain DEF BeginSubmit
<1>6. ASSUME NEW r \in retries, RetryFires(r)
      PROVE  DrainInv'
  <2> DEFINE c == [r EXCEPT !.open = TRUE]
  <2>1. /\ r \in Call /\ r.kind = "answer" /\ r.question \in Questions
        /\ c.kind = "answer" /\ c.question = r.question
    <3>1. r \in Call /\ r.kind = "answer" /\ r.question \in Questions
      BY DEF TypeInv, PageTyped
    <3>2. c.kind = r.kind /\ c.question = r.question
      BY <3>1, CallSays
    <3> HIDE DEF c
    <3> QED
      BY <3>1, <3>2
  <2>2. /\ calls' = calls \cup {c} /\ UNCHANGED <<timer, page, section>>
        /\ \A p \in Questions : sync'[p] = IF p = r.question THEN "saving" ELSE sync[p]
    BY <1>6 DEF RetryFires, serverVars, TypeInv, PageTyped
  <2>3. \A t \in retries' : \E o \in retries \ {r} :
          o.question = t.question /\ (t.question # r.question => t = o)
    <3> SUFFICES ASSUME NEW t \in retries'
                 PROVE  \E o \in retries \ {r} :
                          o.question = t.question /\ (t.question # r.question => t = o)
      OBVIOUS
    <3>1. PICK o \in retries \ {r} :
            t = o \/ (o.question = r.question /\ t = [o EXCEPT !.open = FALSE])
      BY <1>6 DEF RetryFires, Released
    <3>2. o \in Call
      BY DEF TypeInv, PageTyped
    <3>3. CASE t = o
      BY <3>3
    <3>4. CASE o.question = r.question /\ t = [o EXCEPT !.open = FALSE]
      <4>1. t.question = o.question
        BY <3>2, <3>4, CallSays
      <4> QED
        BY <3>4, <4>1
    <3> QED
      BY <3>1, <3>3, <3>4
  <2>4. Awaited(r.question)
    BY DEF Awaited
  <2> HIDE DEF c
  <2>5. \A p \in Questions : Awaited(p)' => Awaited(p)
    BY <2>1, <2>2, <2>3, <2>4 DEF Awaited, OpenSave
  <2>6. PostedOnce /\ page.mode \in {"answering", "leaving"} => Single'
    <3> SUFFICES ASSUME PostedOnce, page.mode \in {"answering", "leaving"}
                 PROVE  Single'
      OBVIOUS
    <3>1. Single
      BY DEF DrainInv
    <3>2. \A t \in retries' : t.question # r.question /\ t \in retries
      BY <2>3, <3>1 DEF Single
    <3>3. \A e \in calls : OpenSave(e) => e.question # r.question
      BY <3>1 DEF Single
    <3> QED
      BY <2>1, <2>2, <3>1, <3>2, <3>3 DEF Single, OpenSave
  <2> QED
    BY <2>1, <2>2, <2>5, <2>6 DEF DrainInv, PostedOnce, OpenSubmit
<1>7. CASE Leave
  <2> DEFINE c == Request("enter", NoQuestion, Unanswered, 1, 0)
  <2>1. c.kind = "enter" /\ calls' = calls \cup {c}
    BY <1>7, RequestSays DEF Leave
  <2> HIDE DEF c
  <2>2. /\ page.mode = "leaving" /\ page.awaiting = {}
        /\ UNCHANGED <<timer, retries, sync, section>>
    BY <1>7 DEF Leave, serverVars
  <2>3. /\ page'.mode = "answering" /\ page'.here = 1
        /\ page'.manual = page.manual /\ page'.submits = page.submits
    <3>1. \A p \in Page : LET f == [p EXCEPT !.mode = "answering", !.here = 1]
                          IN /\ f.mode = "answering" /\ f.here = 1
                             /\ f.manual = p.manual /\ f.submits = p.submits
      BY DEF Page
    <3> QED
      BY <1>7, <3>1 DEF Leave, TypeInv, PageTyped
  <2>4. \A q \in Questions : Awaited(q)' <=> Awaited(q)
    BY <2>1, <2>2 DEF Awaited, OpenSave
  <2>5. Single => Single'
    BY <2>1, <2>2 DEF Single, OpenSave
  <2> QED
    BY <2>1, <2>2, <2>3, <2>4, <2>5 DEF DrainInv, PostedOnce, OpenSubmit
<1>8. CASE EndFlush
  <2> DEFINE c == Request("submit", NoQuestion, Unanswered, Cardinality(SavedWithAnswer), page.submits)
  <2>1. c.kind = "submit" /\ calls' \subseteq calls \cup {c} /\ section' = section
    BY <1>8, RequestSays DEF EndFlush, serverVars
  <2> HIDE DEF c
  <2>2. page'.submits > 0 /\ page'.here = page.here /\ page'.mode # "leaving"
    <3>1. PICK m \in {"answering", "submitting"} : page' = [page EXCEPT !.mode = m, !.submits = @ + 1]
      BY <1>8 DEF EndFlush
    <3>2. \A p \in Page : LET f == [p EXCEPT !.mode = m, !.submits = @ + 1]
                          IN f.mode = m /\ f.here = p.here /\ f.submits > 0
      BY DEF Page
    <3> QED
      BY <3>1, <3>2 DEF TypeInv, PageTyped
  <2> QED
    BY <2>1, <2>2 DEF DrainInv, PostedOnce, OpenSubmit
<1>9. CASE Reload
  BY <1>9, LoadedDrain DEF Reload
<1> QED
  BY <1>1, <1>2, <1>3, <1>4, <1>5, <1>6, <1>7, <1>8, <1>9 DEF PageStep

LEMMA ServerDrain ==
  ASSUME TypeInv, DrainInv, ServerStep
  PROVE  DrainInv'
<1>1. UNCHANGED pageVars
  BY ServerPage
<1>2. section' = 1 => Locked
  BY DEF ServerStep, ServeAnswer, ServeEnter, ServeSubmit, ReadSeq, WriteAnswer, CountAnswers,
         ReadAnswers, Flip, Crash, Sweep, SweepFlip, Tick, DrainInv
<1>3. \A e \in calls' : \E d \in calls : e.kind = d.kind /\ e.question = d.question /\ e.open = d.open
  BY ServerMoves, MovedFrom DEF TypeInv
<1>4. \A e, f \in calls' : \E d, g \in calls :
        /\ e.kind = d.kind /\ e.open = d.open /\ e.question = d.question
        /\ f.kind = g.kind /\ f.open = g.open /\ f.question = g.question
        /\ d = g => e = f
  BY ServerMoves, MovedApart DEF TypeInv
<1>5. \A q \in Questions : Awaited(q)' => Awaited(q)
  BY <1>1, <1>3 DEF Awaited, OpenSave, pageVars
<1>6. Single => Single'
  <2> SUFFICES ASSUME Single
               PROVE  Single'
    OBVIOUS
  <2>1. \A e, f \in calls' : OpenSave(e) /\ OpenSave(f) /\ e.question = f.question => e = f
    BY <1>4 DEF Single, OpenSave
  <2>2. \A e \in calls', r \in retries' : OpenSave(e) => e.question # r.question
    BY <1>1, <1>3 DEF Single, OpenSave, pageVars
  <2> QED
    BY <1>1, <2>1, <2>2 DEF Single, OpenSave, pageVars
<1> QED
  BY <1>1, <1>2, <1>3, <1>5, <1>6 DEF DrainInv, PostedOnce, OpenSubmit, pageVars

\* Past the section change nothing of the first section is still to be saved,
\* whatever the servers and the network do, for a learner who leaves alone a
\* question whose save is on its way.
THEOREM SectionIsDrainedHolds ==
  ASSUME Patient
  PROVE  Spec => []SectionIsDrained
<1>1. Init => DrainInv
  BY DEF Init, DrainInv, Single, Awaited, OpenSave
<1>2. TypeInv /\ DrainInv /\ [Next]_vars /\ TypeInv' => DrainInv'
  <2> SUFFICES ASSUME TypeInv, DrainInv, [Next]_vars, TypeInv'
               PROVE  DrainInv'
    OBVIOUS
  <2>1. CASE UNCHANGED vars
    BY <2>1, FewerDrain DEF vars, DrainInv
  <2> QED
    BY <2>1, PageDrain, NetworkDrain, ServerDrain DEF Next
<1>3. TypeInv /\ DrainInv => SectionIsDrained
  BY DEF TypeInv, CallsTyped, PageTyped, DrainInv, SectionIsDrained, PostedOnce, Awaited, OpenSave
<1> QED
  BY <1>1, <1>2, <1>3, TypesHold, PTL DEF Spec
=============================================================================
