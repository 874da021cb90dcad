------------------------------- MODULE Verdicts -------------------------------
(***************************************************************************)
(* The verdict of one application for one service: the polling route of    *)
(* app/api/routes/verdicts.py and the generating tasks of                  *)
(* app/workers/tasks/verdicts.py.                                          *)
(*                                                                         *)
(* A GET that finds no verdict enqueues a task and answers 404, so several *)
(* tasks for the same verdict may run at once.  Each reads its subject     *)
(* (the resume, or one interview with its transcript), scores it, has the  *)
(* judge narrate it, and only then selects the row and writes it, in one   *)
(* transaction that locks nothing until the write.                         *)
(***************************************************************************)
EXTENDS Integers

CONSTANTS
  Interviews,   \* the application's interviews, each named by its scheduled_at
  Resume,       \* the application's resume
  Workers,      \* Celery workers of the verdicts queue
  NoVerdict,    \* there is no row
  MaxVersion,   \* bound on the changes of a text
  MaxRetries,   \* OrgScopedTask.max_retries
  MaxFaults,    \* bound on exceptions before the commit, crashes and redeliveries
  MaxQueued     \* bound on the first deliveries that wait for one subject

ASSUME InterviewsAssumption == Interviews \subseteq Nat /\ Resume \notin Interviews
ASSUME BoundsAssumption ==
  MaxVersion \in Nat /\ MaxRetries \in Nat /\ MaxFaults \in Nat /\ MaxQueued \in Nat

Subjects == Interviews \cup {Resume}
Services == {"resume_analysis", "transcript_assignment_review"}

\* The text of a subject (parsed_data or transcripts.text) by its changes: 0 is
\* no text.
Versions == 0 .. MaxVersion
Retries == 0 .. MaxRetries

\* resume_id or interview_id; what deterministic_score and narrative were
\* computed from; the flag stale.
Verdict == [subject : Subjects, scored : Subjects \X Versions,
            told : Subjects \X Versions, stale : BOOLEAN]
Fresh == [subject : Subjects, scored : Subjects \X Versions,
          told : Subjects \X Versions, stale : {FALSE}]

ASSUME SentinelAssumption == NoVerdict \notin Verdict

VARIABLES
  service,     \* the verdict's service_type, which never changes
  status,      \* of each interview, "absent" before it is scheduled
  text,        \* the version of each subject's text
  verdict,     \* the committed row
  queue,       \* how many tasks wait, by subject and retry count
  at,          \* how far each worker is
  task,        \* the subject and retry count of the task each worker runs
  reading,     \* the version each worker has read
  loaded,      \* the row each worker has selected
  overlapped,  \* history: a task has written a row other than the one it selected
  faults       \* exceptions before the commit, crashes and redeliveries so far

inputs == <<service, status, text>>
workerVars == <<at, task, reading, loaded>>
vars == <<inputs, verdict, queue, workerVars, overlapped, faults>>

Tasks == Subjects \X Retries

TypeOK ==
  /\ service \in Services
  /\ status \in [Interviews -> {"absent", "scheduled", "completed", "cancelled"}]
  /\ text \in [Subjects -> Versions]
  /\ verdict \in Verdict \cup {NoVerdict}
  /\ queue \in [Tasks -> Nat]
  /\ at \in [Workers -> {"idle", "delivered", "read", "selected", "committed",
                         "raised", "closing"}]
  /\ task \in [Workers -> Tasks]
  /\ reading \in [Workers -> Versions]
  /\ loaded \in [Workers -> Verdict \cup {NoVerdict}]
  /\ overlapped \in BOOLEAN
  /\ faults \in 0 .. MaxFaults

NoTask == <<Resume, 0>>

Init ==
  /\ service \in Services
  /\ status = [i \in Interviews |-> "absent"]
  /\ text = [s \in Subjects |-> 0]
  /\ verdict = NoVerdict
  /\ queue = [m \in Tasks |-> 0]
  /\ at = [w \in Workers |-> "idle"]
  /\ task = [w \in Workers |-> NoTask]
  /\ reading = [w \in Workers |-> 0]
  /\ loaded = [w \in Workers |-> NoVerdict]
  /\ overlapped = FALSE
  /\ faults = 0

\* The subjects the service can judge: the resume, or the interviews there are.
Current ==
  IF service = "resume_analysis" THEN {Resume}
  ELSE {i \in Interviews : status[i] # "absent"}

\* The task goes on: for an interview only if it is completed (I14).
Eligible(s) == text[s] > 0 /\ (s \in Interviews => status[s] = "completed")

(***************************************************************************)
(* The inputs: interviews are scheduled and end, texts are (re)written by  *)
(* resume parsing and transcript ingestion, which ignores the status.      *)
(***************************************************************************)
SetStatus(i, from, to) ==
  /\ service = "transcript_assignment_review"
  /\ status[i] = from
  /\ status' = [status EXCEPT ![i] = to]
  /\ UNCHANGED <<service, text, verdict, queue, workerVars, overlapped, faults>>

Schedule(i) == SetStatus(i, "absent", "scheduled")
Conclude(i) == \E end \in {"completed", "cancelled"} : SetStatus(i, "scheduled", end)

WriteText(s) ==
  /\ s \in Current
  /\ text[s] < MaxVersion
  /\ text' = [text EXCEPT ![s] = @ + 1]
  /\ UNCHANGED <<service, status, verdict, queue, workerVars, overlapped, faults>>

(***************************************************************************)
(* The route.                                                              *)
(***************************************************************************)
Publish(s, n) == queue' = [queue EXCEPT ![<<s, n>>] = @ + 1]

MostRecent == {s \in Current : \A i \in Current \ {s} : i <= s}

\* Faulty variant: the order by scheduled_at is ascending.
PollEarliest ==
  /\ verdict \notin Fresh
  /\ \E s \in Current :
       /\ \A i \in Current \ {s} : s <= i
       /\ queue[<<s, 0>>] < MaxQueued /\ Publish(s, 0)
  /\ UNCHANGED <<inputs, verdict, workerVars, overlapped, faults>>

\* read_verdict finds no row, or a stale one, and enqueues the regeneration:
\* for transcripts that of the most recent interview, whatever its status;
\* without an interview nothing is enqueued.
Poll ==
  /\ verdict \notin Fresh
  /\ \E s \in MostRecent : queue[<<s, 0>>] < MaxQueued /\ Publish(s, 0)
  /\ UNCHANGED <<inputs, verdict, workerVars, overlapped, faults>>

(***************************************************************************)
(* The tasks.                                                              *)
(***************************************************************************)
GoTo(w, step) == at' = [at EXCEPT ![w] = step]
Forget(w) ==
  /\ reading' = [reading EXCEPT ![w] = 0]
  /\ loaded' = [loaded EXCEPT ![w] = NoVerdict]
Drop(w) == Forget(w) /\ task' = [task EXCEPT ![w] = NoTask]

\* Faulty variant: a message the queue does not hold is delivered.
DeliverTwice(w) ==
  /\ at[w] = "idle"
  /\ \E m \in Tasks :
       /\ queue' = [queue EXCEPT ![m] = @ - 1]
       /\ task' = [task EXCEPT ![w] = m]
  /\ GoTo(w, "delivered")
  /\ UNCHANGED <<inputs, verdict, reading, loaded, overlapped, faults>>

Deliver(w) ==
  /\ at[w] = "idle"
  /\ \E m \in Tasks :
       /\ queue[m] > 0
       /\ queue' = [queue EXCEPT ![m] = @ - 1]
       /\ task' = [task EXCEPT ![w] = m]
  /\ GoTo(w, "delivered")
  /\ UNCHANGED <<inputs, verdict, reading, loaded, overlapped, faults>>

\* Nothing to judge yet, or the interview is not completed: the task returns.
Skip(w) ==
  /\ at[w] = "delivered"
  /\ ~Eligible(task[w][1])
  /\ GoTo(w, "closing")
  /\ UNCHANGED <<inputs, verdict, queue, task, reading, loaded, overlapped, faults>>

\* Faulty variant: the status of the interview is not checked.
ReadUnchecked(w) ==
  /\ at[w] = "delivered"
  /\ text[task[w][1]] > 0
  /\ reading' = [reading EXCEPT ![w] = text[task[w][1]]]
  /\ GoTo(w, "read")
  /\ UNCHANGED <<inputs, verdict, queue, task, loaded, overlapped, faults>>

\* The subject is read, scored and narrated, with the retrieved context.
Read(w) ==
  /\ at[w] = "delivered"
  /\ Eligible(task[w][1])
  /\ reading' = [reading EXCEPT ![w] = text[task[w][1]]]
  /\ GoTo(w, "read")
  /\ UNCHANGED <<inputs, verdict, queue, task, loaded, overlapped, faults>>

\* _upsert_verdict selects the row.
Select(w) ==
  /\ at[w] = "read"
  /\ loaded' = [loaded EXCEPT ![w] = verdict]
  /\ GoTo(w, "selected")
  /\ UNCHANGED <<inputs, verdict, queue, task, reading, overlapped, faults>>

\* The verdict worker w has generated.
Mine(w) ==
  LET basis == <<task[w][1], reading[w]>>
  IN  [subject |-> task[w][1], scored |-> basis, told |-> basis, stale |-> FALSE]

\* No row found: INSERT.
Insert(w) ==
  /\ at[w] = "selected" /\ loaded[w] = NoVerdict
  /\ verdict = NoVerdict
  /\ verdict' = Mine(w)
  /\ GoTo(w, "committed")
  /\ UNCHANGED <<inputs, queue, task, reading, loaded, overlapped, faults>>

\* Another task has inserted it since: the unique constraint is violated.
Conflict(w) ==
  /\ at[w] = "selected" /\ loaded[w] = NoVerdict
  /\ verdict # NoVerdict
  /\ Forget(w)
  /\ GoTo(w, "raised")
  /\ UNCHANGED <<inputs, verdict, queue, task, overlapped, faults>>

\* Faulty variant: interview_id is only set when the row is inserted.
UpdateKeepsSubject(w) ==
  /\ at[w] = "selected" /\ loaded[w] # NoVerdict
  /\ verdict' = [Mine(w) EXCEPT !.subject = verdict.subject]
  /\ overlapped' = (overlapped \/ loaded[w] # verdict)
  /\ GoTo(w, "committed")
  /\ UNCHANGED <<inputs, queue, task, reading, loaded, faults>>

\* UPDATE.  It leaves out the columns that equal what the session loaded, so
\* they stay as another task may have written them; the narrative of the same
\* text may or may not come out the same.
Update(w) ==
  /\ at[w] = "selected" /\ loaded[w] # NoVerdict
  /\ LET mine == Mine(w)
         old == loaded[w]
     IN  \E told \in {mine.told} \cup (IF mine.told = old.told THEN {verdict.told} ELSE {}) :
           verdict' =
             [subject |-> IF mine.subject = old.subject THEN verdict.subject ELSE mine.subject,
              scored |-> IF mine.scored = old.scored THEN verdict.scored ELSE mine.scored,
              told |-> told,
              stale |-> IF mine.stale = old.stale THEN verdict.stale ELSE mine.stale]
  /\ overlapped' = (overlapped \/ loaded[w] # verdict)
  /\ GoTo(w, "committed")
  /\ UNCHANGED <<inputs, queue, task, reading, loaded, faults>>

\* The refresh that follows the commit raises or not.
Finish(w) ==
  /\ at[w] = "committed"
  /\ \E step \in {"closing", "raised"} : GoTo(w, step)
  /\ Forget(w)
  /\ UNCHANGED <<inputs, verdict, queue, task, overlapped, faults>>

\* Anything raises before the commit: a model, Qdrant, Postgres.
Raise(w) ==
  /\ at[w] \in {"delivered", "read", "selected"}
  /\ faults < MaxFaults
  /\ faults' = faults + 1
  /\ Forget(w)
  /\ GoTo(w, "raised")
  /\ UNCHANGED <<inputs, verdict, queue, task, overlapped>>

\* Faulty variant: the retry starts from the count it had.
RetryForEver(w) ==
  /\ at[w] = "raised"
  /\ Publish(task[w][1], task[w][2])
  /\ GoTo(w, "closing")
  /\ UNCHANGED <<inputs, verdict, task, reading, loaded, overlapped, faults>>

Retry(w) ==
  /\ at[w] = "raised"
  /\ task[w][2] < MaxRetries
  /\ Publish(task[w][1], task[w][2] + 1)
  /\ GoTo(w, "closing")
  /\ UNCHANGED <<inputs, verdict, task, reading, loaded, overlapped, faults>>

\* Retries used up, or the broker refused the retry.
GiveUp(w) ==
  /\ at[w] = "raised"
  /\ GoTo(w, "closing")
  /\ UNCHANGED <<inputs, verdict, queue, task, reading, loaded, overlapped, faults>>

Ack(w) ==
  /\ at[w] = "closing"
  /\ GoTo(w, "idle")
  /\ Drop(w)
  /\ UNCHANGED <<inputs, verdict, queue, overlapped, faults>>

\* The worker process is lost and its message goes back to the queue.
Crash(w) ==
  /\ at[w] # "idle"
  /\ faults < MaxFaults
  /\ faults' = faults + 1
  /\ queue' = [queue EXCEPT ![task[w]] = @ + 1]
  /\ GoTo(w, "idle")
  /\ Drop(w)
  /\ UNCHANGED <<inputs, verdict, overlapped>>

\* The task outlives the visibility timeout: the broker delivers it again.
Redeliver(w) ==
  /\ at[w] # "idle"
  /\ faults < MaxFaults
  /\ faults' = faults + 1
  /\ queue' = [queue EXCEPT ![task[w]] = @ + 1]
  /\ UNCHANGED <<inputs, verdict, workerVars, overlapped>>

Input ==
  \/ \E i \in Interviews : Schedule(i) \/ Conclude(i)
  \/ \E s \in Subjects : WriteText(s)

WorkerStep(w) ==
  \/ Deliver(w) \/ Skip(w) \/ Read(w) \/ Select(w) \/ Insert(w) \/ Conflict(w)
  \/ Update(w) \/ Finish(w) \/ Retry(w) \/ GiveUp(w) \/ Ack(w)

Fault(w) == Raise(w) \/ Crash(w) \/ Redeliver(w)

Next ==
  \/ Input
  \/ Poll
  \/ \E w \in Workers : WorkerStep(w) \/ Fault(w)

\* The workers consume their queue, and the client polls as the 404 asks it to.
Spec ==
  /\ Init /\ [][Next]_vars
  /\ WF_vars(Poll)
  /\ \A w \in Workers : WF_vars(WorkerStep(w))

(***************************************************************************)
(* Properties.                                                             *)
(***************************************************************************)
\* I14: however tasks for several interviews interleave, no part of the verdict
\* comes from an interview that was not completed.
OnlyFromCompleted ==
  verdict # NoVerdict =>
    \A s \in {verdict.subject, verdict.scored[1], verdict.told[1]} :
      s \in Interviews => status[s] = "completed"

\* The verdict names the subject whose score and narrative it holds, unless two
\* tasks wrote the row concurrently.
OneSubject ==
  verdict # NoVerdict /\ ~overlapped =>
    verdict.scored[1] = verdict.subject /\ verdict.told = verdict.scored

\* No step flags a row: once there is a verdict the route serves it and never
\* enqueues another generation, whatever happens to the texts.
NeverFlagged == verdict \in Fresh \cup {NoVerdict}

\* A client that polls gets its verdict, if there comes to be something to judge:
\* the most recent interview stays a completed one with a text.  Exceptions,
\* exhausted retries and lost workers only cost another poll.
LatestReady == \E s \in MostRecent : Eligible(s)
VerdictArrives == <>[]LatestReady => <>(verdict # NoVerdict)

Quiet == (\A m \in Tasks : queue[m] = 0) /\ \A w \in Workers : at[w] = "idle"

\* Once there is a verdict the redundant regenerations run dry, although each
\* may fail after its commit and be retried.
Quiesces == verdict # NoVerdict ~> Quiet

\* docs/05-data-model.md on verdicts.stale: flipped true when an input changes
\* after the verdict was generated.
OutdatedIsStale ==
  verdict # NoVerdict /\ Quiet /\ text[verdict.scored[1]] > verdict.scored[2]
    => verdict.stale
=============================================================================
