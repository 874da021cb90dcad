-------------------------- MODULE TranscriptPipeline --------------------------
(***************************************************************************)
(* The transcript of one interview, from its ingestion requests to the     *)
(* interview's points in Qdrant: app/services/transcripts.py and the       *)
(* transcript half of app/workers/tasks/embedding.py.                      *)
(*                                                                         *)
(* Several requests may ingest the same interview (a platform transcript,  *)
(* then a recording): each selects the row, inserts it if it found none,   *)
(* and commits its own text.  Unlike embed_resume, embed_transcript writes *)
(* no row, so nothing serialises two of them: each reads the text once and *)
(* replaces the points by a delete and an upsert.                          *)
(***************************************************************************)
EXTENDS Integers

CONSTANTS
  Requests,    \* ingestion requests for the interview
  Workers,     \* Celery workers of the embedding queue
  Texts,       \* non-empty texts, each given by the set of its chunks
  EmptyText,   \* the text ""
  Submissions, \* what a request may submit: a text with its source
  NoRow,       \* the interview has no transcript row
  NoRequest,   \* no request
  MaxRetries,  \* OrgScopedTask.max_retries
  MaxFaults    \* bound on crashes and redeliveries

ASSUME TextsAssumption == \A t \in Texts : \A chunk \in t : chunk[1] \in Nat
ASSUME SentinelAssumption ==
  /\ EmptyText \notin Texts /\ NoRequest \notin Requests
  /\ NoRow \notin [text : Texts \cup {EmptyText}, source : {"platform", "stt"}]
ASSUME SubmissionsAssumption == Submissions \subseteq [text : Texts \cup {EmptyText},
                                                      source : {"platform", "stt"}]
ASSUME BoundsAssumption == MaxRetries \in Nat /\ MaxFaults \in Nat

VARIABLES
  phase,       \* how far each request is
  submission,  \* what each request submits: its text and where it comes from
  loaded,      \* the row each request's session has loaded
  row,         \* the committed transcript
  inserting,   \* the request whose uncommitted INSERT holds the unique key
  last,        \* history: the request that committed last
  stale,       \* history: a request has committed over a row it had not read
  queue,       \* how many embed_transcript messages wait, by retry count
  at,          \* how far each worker is
  retries,     \* the retry count of the message each worker runs
  reading,     \* the text each worker has read
  points,      \* the transcript's points in Qdrant: its stored chunks
  overlapped,  \* history: two workers have replaced the points concurrently
  abandoned,   \* history: Celery has given up an embed_transcript
  faults       \* crashes and redeliveries so far

requestVars == <<phase, submission, loaded, row, inserting, last, stale>>
workerVars == <<at, retries, reading>>
indexVars == <<points, overlapped>>
vars == <<requestVars, workerVars, indexVars, queue, abandoned, faults>>

\* The columns text and source (platform_provided, generated_stt).
Sources == {"platform", "stt"}
Transcript == [text : Texts \cup {EmptyText}, source : Sources]

Retries == 0 .. MaxRetries

\* read: the text is read, its chunks are being embedded; cleared: the points
\* are deleted; closing: nothing left but the acknowledgement.
Steps == {"idle", "delivered", "read", "cleared", "raised", "closing"}

\* A worker at these steps has read a text it has not yet stored.
Replacing == {"read", "cleared"}

TypeOK ==
  /\ phase \in [Requests -> {"new", "selected", "inserted", "committed", "accepted",
                             "failed", "errored"}]
  /\ submission \in [Requests -> Transcript \cup {NoRow}]
  /\ loaded \in [Requests -> Transcript \cup {NoRow}]
  /\ row \in Transcript \cup {NoRow}
  /\ inserting \in Requests \cup {NoRequest}
  /\ last \in Requests \cup {NoRequest}
  /\ stale \in BOOLEAN
  /\ queue \in [Retries -> Nat]
  /\ at \in [Workers -> Steps]
  /\ retries \in [Workers -> Retries]
  /\ reading \in [Workers -> Texts \cup {EmptyText}]
  /\ points \subseteq UNION Texts
  /\ overlapped \in BOOLEAN
  /\ abandoned \in BOOLEAN
  /\ faults \in 0 .. MaxFaults

Init ==
  /\ phase = [q \in Requests |-> "new"]
  /\ submission = [q \in Requests |-> NoRow]
  /\ loaded = [q \in Requests |-> NoRow]
  /\ row = NoRow
  /\ inserting = NoRequest
  /\ last = NoRequest
  /\ stale = FALSE
  /\ queue = [n \in Retries |-> 0]
  /\ at = [w \in Workers |-> "idle"]
  /\ retries = [w \in Workers |-> 0]
  /\ reading = [w \in Workers |-> EmptyText]
  /\ points = {}
  /\ overlapped = FALSE
  /\ abandoned = FALSE
  /\ faults = 0

GoTo(w, step) == at' = [at EXCEPT ![w] = step]
Enter(q, step) == phase' = [phase EXCEPT ![q] = step]
Publish(n) == queue' = [queue EXCEPT ![n] = @ + 1]
Forget(w) == reading' = [reading EXCEPT ![w] = EmptyText]
EndRequest(q) ==
  /\ inserting' = IF inserting = q THEN NoRequest ELSE inserting
  /\ loaded' = [loaded EXCEPT ![q] = NoRow]

(***************************************************************************)
(* An ingestion request.                                                   *)
(***************************************************************************)
\* Its text is the form field, or what speech-to-text returned; then the row
\* of the interview is selected.
Select(q) ==
  /\ phase[q] = "new"
  /\ \E t \in Submissions : submission' = [submission EXCEPT ![q] = t]
  /\ loaded' = [loaded EXCEPT ![q] = row]
  /\ Enter(q, "selected")
  /\ UNCHANGED <<row, inserting, last, stale, workerVars, indexVars, queue,
                 abandoned, faults>>

\* None found: INSERT.  It waits for another uncommitted INSERT of the same
\* interview_id, and violates the unique constraint if that one is committed.
Insert(q) ==
  /\ phase[q] = "selected" /\ loaded[q] = NoRow
  /\ inserting = NoRequest
  /\ IF row = NoRow THEN inserting' = q /\ Enter(q, "inserted")
     ELSE inserting' = inserting /\ Enter(q, "failed")
  /\ UNCHANGED <<submission, loaded, row, last, stale, workerVars, indexVars,
                 queue, abandoned, faults>>

\* Faulty variant: the source of a row that exists is left alone.
CommitKeepsSource(q) ==
  /\ \/ phase[q] = "inserted"
     \/ phase[q] = "selected" /\ loaded[q] # NoRow
  /\ row' = IF row = NoRow THEN submission[q] ELSE [row EXCEPT !.text = submission[q].text]
  /\ stale' = (stale \/ loaded[q] # row)
  /\ last' = q
  /\ EndRequest(q)
  /\ Enter(q, "committed")
  /\ UNCHANGED <<submission, workerVars, indexVars, queue, abandoned, faults>>

\* Text, source and status are assigned and committed.  The UPDATE of a row
\* that was found leaves out the columns that equal what the session loaded.
Commit(q) ==
  /\ \/ phase[q] = "inserted"
     \/ phase[q] = "selected" /\ loaded[q] # NoRow
  /\ LET new == submission[q]
         old == loaded[q]
     IN  row' = IF old = NoRow THEN new
                ELSE [text |-> IF new.text = old.text THEN row.text ELSE new.text,
                      source |-> IF new.source = old.source THEN row.source ELSE new.source]
  /\ stale' = (stale \/ loaded[q] # row)
  /\ last' = q
  /\ EndRequest(q)
  /\ Enter(q, "committed")
  /\ UNCHANGED <<submission, workerVars, indexVars, queue, abandoned, faults>>

Enqueue(q) ==
  /\ phase[q] = "committed"
  /\ Publish(0)
  /\ Enter(q, "accepted")
  /\ UNCHANGED <<submission, loaded, row, inserting, last, stale, workerVars,
                 indexVars, abandoned, faults>>

\* session.refresh or send_task raises after the commit.
EnqueueFails(q) ==
  /\ phase[q] = "committed"
  /\ Enter(q, "errored")
  /\ UNCHANGED <<submission, loaded, row, inserting, last, stale, workerVars,
                 indexVars, queue, abandoned, faults>>

\* Anything raises before the commit: the transaction is rolled back.
Fail(q) ==
  /\ phase[q] \in {"selected", "inserted"}
  /\ EndRequest(q)
  /\ Enter(q, "failed")
  /\ UNCHANGED <<submission, row, last, stale, workerVars, indexVars,
                 queue, abandoned, faults>>

(***************************************************************************)
(* embed_transcript.                                                       *)
(***************************************************************************)
\* Faulty variant: a message the queue does not hold is delivered.
DeliverTwice(w) ==
  /\ at[w] = "idle"
  /\ \E n \in Retries :
       /\ queue' = [queue EXCEPT ![n] = @ - 1]
       /\ retries' = [retries EXCEPT ![w] = n]
  /\ GoTo(w, "delivered")
  /\ UNCHANGED <<requestVars, reading, indexVars, abandoned, faults>>

Deliver(w) ==
  /\ at[w] = "idle"
  /\ \E n \in Retries :
       /\ queue[n] > 0
       /\ queue' = [queue EXCEPT ![n] = @ - 1]
       /\ retries' = [retries EXCEPT ![w] = n]
  /\ GoTo(w, "delivered")
  /\ UNCHANGED <<requestVars, reading, indexVars, abandoned, faults>>

ReadText(w) ==
  /\ at[w] = "delivered"
  /\ row # NoRow /\ row.text # EmptyText
  /\ reading' = [reading EXCEPT ![w] = row.text]
  /\ overlapped' = (overlapped \/ \E v \in Workers : at[v] \in Replacing)
  /\ GoTo(w, "read")
  /\ UNCHANGED <<requestVars, retries, points, queue, abandoned, faults>>

\* No text: the task returns and leaves the points as they are.
SkipEmpty(w) ==
  /\ at[w] = "delivered"
  /\ row # NoRow /\ row.text = EmptyText
  /\ GoTo(w, "closing")
  /\ UNCHANGED <<requestVars, retries, reading, indexVars, queue, abandoned, faults>>

\* Faulty variant: the old points are left in place.
KeepPoints(w) ==
  /\ at[w] = "read"
  /\ GoTo(w, "cleared")
  /\ UNCHANGED <<requestVars, retries, reading, indexVars, queue, abandoned, faults>>

DeletePoints(w) ==
  /\ at[w] = "read"
  /\ points' = {}
  /\ GoTo(w, "cleared")
  /\ UNCHANGED <<requestVars, retries, reading, overlapped, queue, abandoned, faults>>

\* A point is identified by its chunk index: the new chunk replaces it.
Upserted(text) ==
  text \cup {old \in points : \A new \in text : new[1] # old[1]}

UpsertPoints(w) ==
  /\ at[w] = "cleared"
  /\ points' = Upserted(reading[w])
  /\ Forget(w)
  /\ GoTo(w, "closing")
  /\ UNCHANGED <<requestVars, retries, overlapped, queue, abandoned, faults>>

\* Any exception ends the task; the Qdrant call that raised (a timeout) may
\* have been applied all the same.
Raise(w) ==
  /\ at[w] \in {"delivered", "read", "cleared"}
  /\ \/ points' = points
     \/ at[w] = "read" /\ points' = {}
     \/ at[w] = "cleared" /\ points' = Upserted(reading[w])
  /\ Forget(w)
  /\ GoTo(w, "raised")
  /\ UNCHANGED <<requestVars, retries, overlapped, queue, abandoned, faults>>

\* Faulty variant: the retry starts from the count it had.
RetryForEver(w) ==
  /\ at[w] = "raised"
  /\ Publish(retries[w])
  /\ GoTo(w, "closing")
  /\ UNCHANGED <<requestVars, retries, reading, indexVars, abandoned, faults>>

Retry(w) ==
  /\ at[w] = "raised"
  /\ retries[w] < MaxRetries
  /\ Publish(retries[w] + 1)
  /\ GoTo(w, "closing")
  /\ UNCHANGED <<requestVars, retries, reading, indexVars, abandoned, faults>>

\* Retries used up, or the broker refused the retry.
GiveUp(w) ==
  /\ at[w] = "raised"
  /\ abandoned' = TRUE
  /\ GoTo(w, "closing")
  /\ UNCHANGED <<requestVars, retries, reading, indexVars, queue, faults>>

Ack(w) ==
  /\ at[w] = "closing"
  /\ GoTo(w, "idle")
  /\ retries' = [retries EXCEPT ![w] = 0]
  /\ UNCHANGED <<requestVars, reading, indexVars, queue, abandoned, faults>>

\* The worker process is lost and its message goes back to the queue.
Crash(w) ==
  /\ at[w] # "idle"
  /\ faults < MaxFaults
  /\ faults' = faults + 1
  /\ Publish(retries[w])
  /\ GoTo(w, "idle")
  /\ retries' = [retries EXCEPT ![w] = 0]
  /\ Forget(w)
  /\ UNCHANGED <<requestVars, indexVars, abandoned>>

\* The task outlives the visibility timeout: the broker delivers it again.
Redeliver(w) ==
  /\ at[w] # "idle"
  /\ faults < MaxFaults
  /\ faults' = faults + 1
  /\ Publish(retries[w])
  /\ UNCHANGED <<requestVars, workerVars, indexVars, abandoned>>

RequestStep(q) ==
  Select(q) \/ Insert(q) \/ Commit(q) \/ Enqueue(q) \/ EnqueueFails(q) \/ Fail(q)

WorkerStep(w) ==
  \/ Deliver(w) \/ ReadText(w) \/ SkipEmpty(w) \/ DeletePoints(w)
  \/ UpsertPoints(w) \/ Retry(w) \/ GiveUp(w) \/ Ack(w)

Fault(w) == Raise(w) \/ Crash(w) \/ Redeliver(w)

Next ==
  \/ \E q \in Requests : RequestStep(q)
  \/ \E w \in Workers : WorkerStep(w) \/ Fault(w)

\* The workers run and consume their queue; a request may stop anywhere.
Spec == Init /\ [][Next]_vars /\ \A w \in Workers : WF_vars(WorkerStep(w))

(***************************************************************************)
(* Properties.                                                             *)
(***************************************************************************)
Queued == \E n \in Retries : queue[n] > 0
Pending == Queued \/ \E w \in Workers : at[w] \notin {"idle", "closing"}

\* Nothing more will touch the points, unless another request comes: the last
\* commit was enqueued, every task is over and none was given up.
Settled == ~Pending /\ ~abandoned /\ last # NoRequest /\ phase[last] = "accepted"

\* The committed text and source were submitted together by one request, as
\* long as no request committed over a row it had not read.
RowIsOneSubmission ==
  row # NoRow /\ ~stale => \E q \in Requests : submission[q] = row

\* Once everything has settled, the points are exactly the chunks of the
\* committed text, provided no two tasks replaced them at the same time:
\* retries, crashes and duplicates one after the other do no harm.  An empty
\* text is not indexed: the points stay those of one whole earlier text.
IndexFollowsText ==
  Settled /\ ~overlapped =>
    points \in (IF row.text = EmptyText THEN Texts \cup {{}} ELSE {row.text})

\* At any time, not only once settled, a search finds the chunks of one whole
\* text or of none, as long as no two tasks replace the points at the same time:
\* also between a delete and its upsert, and after a call that raised.
NeverMixed == ~overlapped => points \in Texts \cup {{}}

\* All embedding work ends: the retry count bounds a task that always fails.
Drains == <>[](~Queued /\ \A w \in Workers : at[w] = "idle")

\* vector.md: re-embedding "replaces the prior points for that source - never
\* a duplicate".  Two embed_transcript of one transcript may leave the points
\* of an older text, or of both.
IndexIsOneText ==
  Settled /\ row.text # EmptyText => points = row.text
=============================================================================
