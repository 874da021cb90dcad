---------------------------- MODULE ResumePipeline ----------------------------
(***************************************************************************)
(* A resume from the commit of its submission to the outcome of its        *)
(* embedding: app/services/ingestion.py (from the commit on),              *)
(* app/workers/base.py, app/workers/celery_app.py,                         *)
(* app/workers/tasks/parsing.py, app/workers/tasks/embedding.py and the    *)
(* Qdrant calls of app/services/vector_store.py.                           *)
(*                                                                         *)
(* Three stores take part and no transaction spans two of them: Postgres   *)
(* (row, lock), the Celery broker (queue) and Qdrant (points).  A worker   *)
(* runs one task at a time.  It reads the resume, flushes the intermediate *)
(* status (an UPDATE, which takes the row lock and stays uncommitted),     *)
(* works, and commits an outcome.  Messages are acknowledged late, so a    *)
(* worker that dies, or outlives the broker's visibility timeout, has its  *)
(* message delivered again.                                                *)
(***************************************************************************)
EXTENDS Integers

CONSTANTS
  Resumes,     \* the resumes that are submitted
  Workers,     \* the Celery worker processes
  NoWorker,    \* no holder of a row lock
  NoMessage,   \* an idle worker has no message
  NoSnapshot,  \* nothing read from the row yet
  Chunks,      \* the chunk indexes of a resume's text
  MaxRetries,  \* OrgScopedTask.max_retries
  MaxFaults    \* bound on crashes and redeliveries

ASSUME SentinelAssumption ==
  /\ NoWorker \notin Workers
ASSUME BoundsAssumption == MaxRetries \in Nat /\ MaxFaults \in Nat

VARIABLES
  request,     \* the HTTP request that submits each resume
  row,         \* the committed row of each resume
  everParsed,  \* history: the resumes once committed as parsed
  lock,        \* the worker whose open transaction has written the row
  points,      \* the chunk indexes of each resume stored in Qdrant
  queue,       \* how many copies of each message the broker holds
  at,          \* how far each worker is in its task
  message,     \* the message each worker is running
  snapshot,    \* the nullable columns each worker's session has loaded
  abandoned,   \* history: the tasks Celery gave up on, with their resume
  faults       \* crashes and redeliveries so far

vars == <<request, row, everParsed, lock, points, queue, at, message,
          snapshot, abandoned, faults>>

\* The committed columns, as ResumeLifecycle promises them: its row is the row
\* here, and everParsed is the history variable of the same name.
Lifecycle == INSTANCE ResumeLifecycle
               WITH Resumes <- Resumes, row <- row, everParsed <- everParsed

Tasks == {"parse_resume", "embed_resume"}
Message == [task : Tasks, resume : Resumes, retries : 0 .. MaxRetries]
Snapshot == [parsed_data : Lifecycle!Data, error : Lifecycle!Error]

\* delivered: taken from the broker; loaded: session.get done; flushed: the
\* intermediate status is written and the row locked; cleared: the points are
\* deleted; indexed: the points are upserted; parsed: the parse is committed
\* and embed_resume not yet sent; raised: the task ended in an exception;
\* closing: nothing left but the acknowledgement.
Steps == {"idle", "delivered", "loaded", "flushed", "cleared", "indexed",
          "parsed", "raised", "closing"}

\* The steps at which the worker's transaction has written the row.
Writing == {"flushed", "cleared", "indexed"}

TypeOK ==
  /\ request \in [Resumes -> {"open", "committed", "accepted", "errored"}]
  /\ row \in [Resumes -> Lifecycle!Row]
  /\ everParsed \subseteq Resumes
  /\ lock \in [Resumes -> Workers \cup {NoWorker}]
  /\ points \in [Resumes -> SUBSET Chunks]
  /\ queue \in [Message -> Nat]
  /\ at \in [Workers -> Steps]
  /\ message \in [Workers -> Message \cup {NoMessage}]
  /\ snapshot \in [Workers -> Snapshot \cup {NoSnapshot}]
  /\ abandoned \subseteq Tasks \X Resumes
  /\ faults \in 0 .. MaxFaults

Init ==
  /\ request = [r \in Resumes |-> "open"]
  /\ row = [r \in Resumes |-> Lifecycle!Absent]
  /\ everParsed = {}
  /\ lock = [r \in Resumes |-> NoWorker]
  /\ points = [r \in Resumes |-> {}]
  /\ queue = [m \in Message |-> 0]
  /\ at = [w \in Workers |-> "idle"]
  /\ message = [w \in Workers |-> NoMessage]
  /\ snapshot = [w \in Workers |-> NoSnapshot]
  /\ abandoned = {}
  /\ faults = 0

(***************************************************************************)
(* Vocabulary.                                                             *)
(***************************************************************************)
ResumeOf(w) == message[w].resume

Running(w, task, steps) == at[w] \in steps /\ message[w].task = task

GoTo(w, step) == at' = [at EXCEPT ![w] = step]

NewTask(task, r) == [task |-> task, resume |-> r, retries |-> 0]

Publish(m) == queue' = [queue EXCEPT ![m] = @ + 1]

\* The session is closed: its transaction is over, its row lock free.
EndSession(w) ==
  /\ lock' = [r \in Resumes |-> IF lock[r] = w THEN NoWorker ELSE lock[r]]
  /\ snapshot' = [snapshot EXCEPT ![w] = NoSnapshot]

\* The values a nullable column may hold after the UPDATE of a session that
\* loaded `loaded` and assigned `assigned`, over the committed value `stored`.
\* SQLAlchemy leaves a column out of the UPDATE when the assigned value equals
\* the loaded one; two texts of one class may or may not be equal.
NetChange(loaded, assigned, stored) ==
  IF assigned # loaded THEN {assigned}
  ELSE IF assigned = "null" THEN {stored} ELSE {assigned, stored}

(***************************************************************************)
(* The request: commit first, then refresh and send_task.                  *)
(***************************************************************************)
SubmitCommit(r) ==
  /\ request[r] = "open"
  /\ request' = [request EXCEPT ![r] = "committed"]
  /\ row' = [row EXCEPT ![r] = Lifecycle!Uploaded]
  /\ UNCHANGED <<everParsed, lock, points, queue, at, message, snapshot,
                 abandoned, faults>>

HandOver(r) ==
  /\ request[r] = "committed"
  /\ request' = [request EXCEPT ![r] = "accepted"]
  /\ Publish(NewTask("parse_resume", r))
  /\ UNCHANGED <<row, everParsed, lock, points, at, message, snapshot,
                 abandoned, faults>>

\* session.refresh or send_task raises, or the API process dies.
HandOverFails(r) ==
  /\ request[r] = "committed"
  /\ request' = [request EXCEPT ![r] = "errored"]
  /\ UNCHANGED <<row, everParsed, lock, points, queue, at, message, snapshot,
                 abandoned, faults>>

(***************************************************************************)
(* What the two tasks share: delivery, session.get, flush.                 *)
(***************************************************************************)
\* Faulty variant: a message the queue does not hold is delivered.
DeliverTwice(w) ==
  /\ at[w] = "idle"
  /\ \E m \in Message :
       /\ queue[m] >= 0
       /\ queue' = [queue EXCEPT ![m] = @ - 1]
       /\ message' = [message EXCEPT ![w] = m]
  /\ GoTo(w, "delivered")
  /\ UNCHANGED <<request, row, everParsed, lock, points, snapshot, abandoned,
                 faults>>

Deliver(w) ==
  /\ at[w] = "idle"
  /\ \E m \in Message :
       /\ queue[m] > 0
       /\ queue' = [queue EXCEPT ![m] = @ - 1]
       /\ message' = [message EXCEPT ![w] = m]
  /\ GoTo(w, "delivered")
  /\ UNCHANGED <<request, row, everParsed, lock, points, snapshot, abandoned,
                 faults>>

Load(w) ==
  /\ at[w] = "delivered"
  /\ LET stored == row[ResumeOf(w)]
     IN  /\ stored.status # "absent"
         /\ snapshot' = [snapshot EXCEPT ![w] =
              [parsed_data |-> stored.parsed_data,
               error |-> IF message[w].task = "parse_resume"
                         THEN stored.parse_error ELSE stored.embedding_error]]
  /\ GoTo(w, "loaded")
  /\ UNCHANGED <<request, row, everParsed, lock, points, queue, message,
                 abandoned, faults>>

\* Faulty variant: the status is assigned but not flushed, so no row lock.
FlushWithoutLock(w) ==
  /\ at[w] = "loaded"
  /\ GoTo(w, "flushed")
  /\ UNCHANGED <<request, row, everParsed, lock, points, queue, message,
                 snapshot, abandoned, faults>>

\* The UPDATE waits for the transaction that has already written the row.
Flush(w) ==
  /\ at[w] = "loaded"
  /\ lock[ResumeOf(w)] = NoWorker
  /\ lock' = [lock EXCEPT ![ResumeOf(w)] = w]
  /\ GoTo(w, "flushed")
  /\ UNCHANGED <<request, row, everParsed, points, queue, message, snapshot,
                 abandoned, faults>>

(***************************************************************************)
(* parse_resume.                                                           *)
(***************************************************************************)
ParseSucceeds(w) ==
  /\ Running(w, "parse_resume", {"flushed"})
  /\ LET r == ResumeOf(w)
     IN  /\ \E extracted \in Lifecycle!Data :
            \E data \in NetChange(snapshot[w].parsed_data, extracted, row[r].parsed_data),
               error \in NetChange(snapshot[w].error, "null", row[r].parse_error) :
              row' = [row EXCEPT ![r] = Lifecycle!ParseOutcome(row[r], "parsed", data, error)]
         /\ everParsed' = everParsed \cup {r}
  /\ EndSession(w)
  /\ GoTo(w, "parsed")
  /\ UNCHANGED <<request, points, queue, message, abandoned, faults>>

\* Faulty variant: the failure branch falls through to send_task.
ParseFailsThenSends(w) ==
  /\ Running(w, "parse_resume", {"flushed"})
  /\ row' = [row EXCEPT ![ResumeOf(w)] =
               Lifecycle!ParseOutcome(@, "parse_failed", @.parsed_data, "text")]
  /\ EndSession(w)
  /\ GoTo(w, "parsed")
  /\ UNCHANGED <<request, everParsed, points, queue, message, abandoned, faults>>

\* Download, text extraction or the Extraction Agent raised: no embedding.
ParseFails(w) ==
  /\ Running(w, "parse_resume", {"flushed"})
  /\ LET r == ResumeOf(w)
     IN  \E error \in NetChange(snapshot[w].error, "text", row[r].parse_error) :
           row' = [row EXCEPT ![r] =
                    Lifecycle!ParseOutcome(row[r], "parse_failed", row[r].parsed_data, error)]
  /\ EndSession(w)
  /\ GoTo(w, "closing")
  /\ UNCHANGED <<request, everParsed, points, queue, message, abandoned, faults>>

SendEmbed(w) ==
  /\ at[w] = "parsed"
  /\ Publish(NewTask("embed_resume", ResumeOf(w)))
  /\ GoTo(w, "closing")
  /\ UNCHANGED <<request, row, everParsed, lock, points, message, snapshot,
                 abandoned, faults>>

(***************************************************************************)
(* embed_resume: delete_points_by_source, then upsert_points, two separate *)
(* calls to Qdrant, both inside the transaction that holds the row.        *)
(***************************************************************************)
DeletePoints(w) ==
  /\ Running(w, "embed_resume", {"flushed"})
  /\ points' = [points EXCEPT ![ResumeOf(w)] = {}]
  /\ GoTo(w, "cleared")
  /\ UNCHANGED <<request, row, everParsed, lock, queue, message, snapshot,
                 abandoned, faults>>

UpsertPoints(w) ==
  /\ at[w] = "cleared"
  /\ points' = [points EXCEPT ![ResumeOf(w)] = @ \cup Chunks]
  /\ GoTo(w, "indexed")
  /\ UNCHANGED <<request, row, everParsed, lock, queue, message, snapshot,
                 abandoned, faults>>

EmbedSucceeds(w) ==
  /\ at[w] = "indexed"
  /\ LET r == ResumeOf(w)
     IN  \E error \in NetChange(snapshot[w].error, "null", row[r].embedding_error) :
           row' = [row EXCEPT ![r] = Lifecycle!EmbedOutcome(row[r], "embedded", error)]
  /\ EndSession(w)
  /\ GoTo(w, "closing")
  /\ UNCHANGED <<request, everParsed, points, queue, message, abandoned, faults>>

\* Faulty variant: the failure branch leaves its transaction open.
EmbedFailsKeepsLock(w) ==
  /\ Running(w, "embed_resume", {"flushed", "cleared"})
  /\ row' = [row EXCEPT ![ResumeOf(w)] = Lifecycle!EmbedOutcome(@, "embed_failed", "text")]
  /\ GoTo(w, "closing")
  /\ UNCHANGED <<request, everParsed, lock, points, queue, message, snapshot,
                 abandoned, faults>>

\* Anything up to the end of upsert_points raised.  A Qdrant call that raises
\* (a timeout) may have been applied all the same.
EmbedFails(w) ==
  /\ Running(w, "embed_resume", {"flushed", "cleared"})
  /\ LET r == ResumeOf(w)
         applied == IF at[w] = "flushed" THEN {} ELSE points[r] \cup Chunks
     IN  /\ \E left \in {points[r], applied} : points' = [points EXCEPT ![r] = left]
         /\ \E error \in NetChange(snapshot[w].error, "text", row[r].embedding_error) :
              row' = [row EXCEPT ![r] = Lifecycle!EmbedOutcome(row[r], "embed_failed", error)]
  /\ EndSession(w)
  /\ GoTo(w, "closing")
  /\ UNCHANGED <<request, everParsed, queue, message, abandoned, faults>>

(***************************************************************************)
(* The end of a task: exceptions, autoretry, late acknowledgement, faults. *)
(***************************************************************************)
\* Faulty variant: an exception after the commit is only logged.
RaiseSwallowed(w) ==
  /\ at[w] \in Steps \ {"idle", "raised", "closing"}
  /\ EndSession(w)
  /\ GoTo(w, IF at[w] = "parsed" THEN "closing" ELSE "raised")
  /\ UNCHANGED <<request, row, everParsed, points, queue, message, abandoned,
                 faults>>

\* An exception outside the tasks' try blocks: any database call (the
\* transaction is rolled back), or send_task.
Raise(w) ==
  /\ at[w] \in Steps \ {"idle", "raised", "closing"}
  /\ EndSession(w)
  /\ GoTo(w, "raised")
  /\ UNCHANGED <<request, row, everParsed, points, queue, message, abandoned,
                 faults>>

Retry(w) ==
  /\ at[w] = "raised"
  /\ message[w].retries < MaxRetries
  /\ Publish([message[w] EXCEPT !.retries = @ + 1])
  /\ GoTo(w, "closing")
  /\ UNCHANGED <<request, row, everParsed, lock, points, message, snapshot,
                 abandoned, faults>>

\* Retries used up, or the broker refused the retry (Reject without requeue).
GiveUp(w) ==
  /\ at[w] = "raised"
  /\ abandoned' = abandoned \cup {<<message[w].task, ResumeOf(w)>>}
  /\ GoTo(w, "closing")
  /\ UNCHANGED <<request, row, everParsed, lock, points, queue, message,
                 snapshot, faults>>

Ack(w) ==
  /\ at[w] = "closing"
  /\ GoTo(w, "idle")
  /\ message' = [message EXCEPT ![w] = NoMessage]
  /\ UNCHANGED <<request, row, everParsed, lock, points, queue, snapshot,
                 abandoned, faults>>

\* Faulty variant: messages are acknowledged when they are received.
CrashAfterEarlyAck(w) ==
  /\ at[w] # "idle"
  /\ faults < MaxFaults
  /\ faults' = faults + 1
  /\ EndSession(w)
  /\ GoTo(w, "idle")
  /\ message' = [message EXCEPT ![w] = NoMessage]
  /\ UNCHANGED <<request, row, everParsed, points, queue, abandoned>>

\* The worker process is lost: rollback, and the unacknowledged message goes
\* back to its queue (task_acks_late, task_reject_on_worker_lost).
Crash(w) ==
  /\ at[w] # "idle"
  /\ faults < MaxFaults
  /\ faults' = faults + 1
  /\ EndSession(w)
  /\ Publish(message[w])
  /\ GoTo(w, "idle")
  /\ message' = [message EXCEPT ![w] = NoMessage]
  /\ UNCHANGED <<request, row, everParsed, points, abandoned>>

\* The task outlives the visibility timeout: the broker delivers it again.
Redeliver(w) ==
  /\ at[w] # "idle"
  /\ faults < MaxFaults
  /\ faults' = faults + 1
  /\ Publish(message[w])
  /\ UNCHANGED <<request, row, everParsed, lock, points, at, message, snapshot,
                 abandoned>>

RequestStep(r) == SubmitCommit(r) \/ HandOver(r) \/ HandOverFails(r)

WorkerStep(w) ==
  \/ Deliver(w) \/ Load(w) \/ Flush(w)
  \/ ParseSucceeds(w) \/ ParseFails(w) \/ SendEmbed(w)
  \/ DeletePoints(w) \/ UpsertPoints(w) \/ EmbedSucceeds(w) \/ EmbedFails(w)
  \/ Retry(w) \/ GiveUp(w) \/ Ack(w)

Fault(w) == Raise(w) \/ Crash(w) \/ Redeliver(w)

Next ==
  \/ \E r \in Resumes : RequestStep(r)
  \/ \E w \in Workers : WorkerStep(w) \/ Fault(w)

Spec == Init /\ [][Next]_vars

\* The worker processes run and consume their queues.  Requests may stop
\* anywhere, no fault has to happen, and nothing times out a worker that waits
\* for a row lock (the code sets no lock_timeout), so Raise is not fair.
FairSpec == Spec /\ \A w \in Workers : WF_vars(WorkerStep(w))

(***************************************************************************)
(* Properties.                                                             *)
(***************************************************************************)
Live == Steps \ {"idle", "parsed", "closing"}

\* A task on r is queued, or at a worker that has not yet had its effect.
Queued(task, r) == \E m \in Message : m.task = task /\ m.resume = r /\ queue[m] > 0
At(task, r, steps) == \E w \in Workers : Running(w, task, steps) /\ ResumeOf(w) = r
Pending(task, r) == Queued(task, r) \/ At(task, r, Live)
Abandoned(r) == \E task \in Tasks : <<task, r>> \in abandoned

\* No task is ever ahead of its row: whatever is queued or running concerns a
\* resume whose submission has been committed (send_task after commit).
TasksFindTheirRow ==
  \A r \in Resumes, task \in Tasks :
    Queued(task, r) \/ At(task, r, Steps \ {"idle"}) => row[r].status # "absent"

\* A submission answered with 202 is not lost between the request and the
\* parsing worker: while it is only uploaded, its parse is still to come,
\* unless Celery has given it up.
AcceptedIsHandedToParsing ==
  \A r \in Resumes :
    request[r] = "accepted" /\ row[r].status = "uploaded"
      => Pending("parse_resume", r) \/ <<"parse_resume", r>> \in abandoned

\* A committed parse is not lost between the parsing and the embedding worker,
\* although its commit and its send_task are separate steps.
ParsedIsHandedToEmbedding ==
  \A r \in Resumes :
    row[r].status = "parsed" /\ row[r].embedding_status = "not_embedded"
      => \/ Pending("embed_resume", r)
         \/ Pending("parse_resume", r) \/ At("parse_resume", r, {"parsed"})
         \/ Abandoned(r)

\* embedding_status is the Postgres-side signal of searchability: a resume
\* committed as embedded has all its chunks in Qdrant, except while another
\* embed_resume for it is under way or after one has been given up.
EmbeddedMeansIndexed ==
  \A r \in Resumes :
    row[r].embedding_status = "embedded" /\ points[r] # Chunks
      => Pending("embed_resume", r) \/ <<"embed_resume", r>> \in abandoned

\* The row lock is held exactly while a transaction has written the row: no
\* task that ended, raised or died leaves it behind, and two workers never
\* replace the points of one resume at the same time.
LockedWhileWriting ==
  \A r \in Resumes, w \in Workers :
    lock[r] = w <=> at[w] \in Writing /\ ResumeOf(w) = r

\* Only the holder of the lock changes the row or the points, and it gives the
\* lock back with the commit; the request's own commit precedes every worker.
ChangedUnderLock ==
  [][\A r \in Resumes :
       /\ row'[r] # row[r] =>
            request[r] = "open" \/ (lock[r] \in Workers /\ lock'[r] = NoWorker)
       /\ points'[r] # points[r] => lock[r] \in Workers]_vars

\* How far a worker is says what it holds: the task it may be running, the row
\* lock while it writes, the complete index once upsert_points has returned.
WorkerOK(w) ==
  /\ at[w] # "idle" => message[w] \in Message
  /\ at[w] = "loaded" \/ at[w] \in Writing => snapshot[w] \in Snapshot
  /\ at[w] = "parsed" => message[w].task = "parse_resume"
  /\ at[w] \in {"cleared", "indexed"} => message[w].task = "embed_resume"
  /\ at[w] \in Writing => lock[ResumeOf(w)] = w
  /\ at[w] = "indexed" => points[ResumeOf(w)] = Chunks

WorkerInv == \A w \in Workers : WorkerOK(w)

\* A row appears with the commit of its request, and embed_resume exists only
\* for a resume once parsed.
HistoryInv ==
  \A r \in Resumes :
    /\ request[r] = "open" => row[r] = Lifecycle!Absent
    /\ request[r] # "open" => row[r].status # "absent"
    /\ Queued("embed_resume", r) \/ At("embed_resume", r, Steps \ {"idle"})
         => r \in everParsed
    /\ At("parse_resume", r, {"parsed"}) => r \in everParsed

\* The inductive invariant behind the safety properties above.
IInv ==
  /\ TypeOK
  /\ WorkerInv
  /\ HistoryInv
  /\ TasksFindTheirRow
  /\ AcceptedIsHandedToParsing
  /\ ParsedIsHandedToEmbedding
  /\ EmbeddedMeansIndexed

\* The pipeline keeps the promises of ResumeLifecycle.
ImplementsLifecycle == Lifecycle!Spec

\* Every accepted submission reaches an outcome: a failed parse, an embedding
\* outcome, or a task Celery gave up on.
AcceptedSettles ==
  \A r \in Resumes :
    request[r] = "accepted" ~>
      \/ row[r].status = "parse_failed"
      \/ row[r].embedding_status \in {"embedded", "embed_failed"}
      \/ Abandoned(r)

\* No worker waits for ever (a row lock, a message): all work drains.
Drains ==
  <>[](\A w \in Workers : at[w] = "idle" /\ \A m \in Message : queue[m] = 0)

=============================================================================
