----------------------- MODULE TranscriptPipelineProofs -----------------------
(***************************************************************************)
(* TranscriptPipeline keeps its safety properties for any number of        *)
(* requests, workers, texts, retries and faults.                           *)
(*                                                                         *)
(* The index follows the text because, once the last commit is enqueued,   *)
(* the text is either indexed or somebody is still to read it, or has read *)
(* it and is replacing the points (Chased).  A worker with an older text   *)
(* in its hands can spoil this only by replacing the points while another  *)
(* one does, which is what the history variable overlapped records.        *)
(***************************************************************************)
EXTENDS TranscriptPipeline, TLAPS

(***************************************************************************)
(* The inductive invariant.                                                *)
(***************************************************************************)
\* Requests submit once, when they begin.
Submitted ==
  \A q \in Requests :
    IF phase[q] = "new" THEN submission[q] = NoRow ELSE submission[q] \in Transcript

\* The request that committed last has committed; what a session has loaded
\* exists, because rows are never deleted.
LastCommitted ==
  /\ last # NoRequest => phase[last] \in {"committed", "accepted", "errored"}
  /\ row = NoRow => \A q \in Requests : loaded[q] = NoRow

\* Replacements one at a time: the points are one whole text or none, and none
\* between a delete and its upsert.
OneAtATime ==
  /\ \A w \in Workers : at[w] \in Replacing => reading[w] \in Texts
  /\ ~overlapped =>
       /\ points \in Texts \cup {{}}
       /\ \A w \in Workers :
            at[w] \in Replacing =>
              /\ at[w] = "cleared" => points = {}
              /\ \A v \in Workers : at[v] \in Replacing => v = w

\* A worker or a message that will read the text as it is by then.
ToBeRead == Queued \/ \E w \in Workers : at[w] \in {"delivered", "raised"}

\* A worker that has read the text as it is.
BeingStored == \E w \in Workers : at[w] \in Replacing /\ reading[w] = row.text

Stored == points = row.text /\ \A w \in Workers : at[w] \notin Replacing

Chased ==
  ~overlapped /\ ~abandoned /\ last # NoRequest /\ phase[last] = "accepted"
    /\ row.text # EmptyText
    => ToBeRead \/ BeingStored \/ Stored

IInv ==
  TypeOK /\ Submitted /\ LastCommitted /\ OneAtATime /\ Chased /\ RowIsOneSubmission

\* The invariant is strong enough.
LEMMA Enough == IInv => IndexFollowsText
BY DEF IInv, IndexFollowsText, OneAtATime, Chased, Settled, Pending, ToBeRead, BeingStored,
   Stored, Replacing

\* Nothing submitted, nothing indexed.
LEMMA InitInvariant == Init => IInv
<1> SUFFICES ASSUME Init PROVE IInv
  OBVIOUS
<1>1. TypeOK
  <2>1. 0 \in Retries /\ 0 \in 0 .. MaxFaults
    BY BoundsAssumption DEF Retries
  <2>2. QED
    BY <2>1 DEF Init, TypeOK, Steps
<1>2. Submitted /\ LastCommitted /\ RowIsOneSubmission
  BY DEF Init, Submitted, LastCommitted, RowIsOneSubmission
<1>3. OneAtATime /\ Chased
  BY DEF Init, OneAtATime, Chased, Replacing
<1>4. QED
  BY <1>1, <1>2, <1>3 DEF IInv

(***************************************************************************)
(* Requests.                                                               *)
(***************************************************************************)
\* A request that has not committed moves without touching row or queue.
LEMMA QuietRequest ==
  ASSUME IInv, NEW q \in Requests, phase[q] \in {"new", "selected", "inserted"},
         NEW next \in {"selected", "inserted", "failed"},
         phase' = [phase EXCEPT ![q] = next],
         \/ phase[q] # "new" /\ UNCHANGED submission
         \/ \E t \in Transcript : submission' = [submission EXCEPT ![q] = t],
         \E r \in {row, NoRow, loaded[q]} : loaded' = [loaded EXCEPT ![q] = r],
         inserting' \in Requests \cup {NoRequest},
         phase[q] # "new" => UNCHANGED submission,
         UNCHANGED <<row, last, stale, workerVars, indexVars, queue, abandoned, faults>>
  PROVE  IInv'
<1>1. UNCHANGED <<row, last, stale, at, retries, reading, points, overlapped, queue,
                  abandoned, faults>>
  BY DEF workerVars, indexVars
<1>2. TypeOK'
  BY <1>1 DEF IInv, TypeOK
<1>3. Submitted'
  BY <1>1 DEF IInv, TypeOK, Submitted
<1>4. LastCommitted'
  BY <1>1 DEF IInv, TypeOK, LastCommitted
<1>5. OneAtATime' /\ Chased'
  BY <1>1 DEF IInv, TypeOK, LastCommitted, OneAtATime, Chased, ToBeRead, BeingStored,
     Stored, Queued
<1>6. RowIsOneSubmission'
  BY <1>1 DEF IInv, TypeOK, Submitted, RowIsOneSubmission
<1>7. QED
  BY <1>2, <1>3, <1>4, <1>5, <1>6 DEF IInv

\* A commit makes the row the request's own, unless it goes over an unread one.
LEMMA CommitStep ==
  ASSUME IInv, NEW q \in Requests, Commit(q) PROVE IInv'
<1>1. /\ phase' = [phase EXCEPT ![q] = "committed"] /\ last' = q
      /\ phase[q] \in {"inserted", "selected"}
      /\ loaded' = [loaded EXCEPT ![q] = NoRow] /\ inserting' \in {inserting, NoRequest}
      /\ stale' = (stale \/ loaded[q] # row)
      /\ UNCHANGED <<submission, at, retries, reading, points, overlapped, queue,
                     abandoned, faults>>
  BY DEF Commit, Enter, EndRequest, workerVars, indexVars
<1>2. submission[q] \in Transcript
  BY <1>1 DEF IInv, TypeOK, Submitted
<1>3. row' \in Transcript /\ (loaded[q] = row => row' = submission[q])
  <2>1. CASE loaded[q] = NoRow
    BY <1>2, <2>1 DEF Commit
  <2>2. CASE loaded[q] # NoRow
    <3>1. row' = [text |-> IF submission[q].text = loaded[q].text THEN row.text
                                                                 ELSE submission[q].text,
                  source |-> IF submission[q].source = loaded[q].source THEN row.source
                                                                 ELSE submission[q].source]
      BY <2>2 DEF Commit
    <3>2. loaded[q] \in Transcript /\ row \in Transcript \cup {NoRow}
      BY <2>2 DEF IInv, TypeOK
    <3>3. row # NoRow
      BY <2>2 DEF IInv, LastCommitted
    <3>4. QED
      BY <1>2, <3>1, <3>2, <3>3 DEF Transcript
  <2>3. QED
    BY <2>1, <2>2
<1>4. row' # NoRow
  BY <1>3, SentinelAssumption DEF Transcript, Sources
<1>5. TypeOK'
  BY <1>1, <1>3 DEF IInv, TypeOK
<1>6. Submitted' /\ LastCommitted'
  BY <1>1, <1>4 DEF IInv, TypeOK, Submitted, LastCommitted
<1>7. OneAtATime' /\ Chased'
  BY <1>1 DEF IInv, TypeOK, OneAtATime, Chased
<1>8. RowIsOneSubmission'
  BY <1>1, <1>3 DEF IInv, TypeOK, RowIsOneSubmission
<1>9. QED
  BY <1>5, <1>6, <1>7, <1>8 DEF IInv

\* The hand-over puts a message on the queue that will read the text, or fails.
LEMMA EnqueueStep ==
  ASSUME IInv, NEW q \in Requests, Enqueue(q) \/ EnqueueFails(q) PROVE IInv'
<1>1. /\ \E next \in {"accepted", "errored"} : phase' = [phase EXCEPT ![q] = next]
      /\ phase[q] = "committed"
      /\ UNCHANGED <<submission, loaded, row, inserting, last, stale, at, retries, reading,
                     points, overlapped, abandoned, faults>>
      /\ \/ phase'[q] = "errored" /\ UNCHANGED queue
         \/ queue' = [queue EXCEPT ![0] = @ + 1]
  BY DEF Enqueue, EnqueueFails, Enter, Publish, workerVars, indexVars, IInv, TypeOK
<1>2. 0 \in Retries
  BY BoundsAssumption DEF Retries
<1>3. TypeOK'
  BY <1>1, <1>2 DEF IInv, TypeOK
<1>4. Submitted' /\ LastCommitted' /\ RowIsOneSubmission'
  BY <1>1 DEF IInv, TypeOK, Submitted, LastCommitted, RowIsOneSubmission
<1>5. OneAtATime'
  BY <1>1 DEF IInv, OneAtATime
<1>6. Chased'
  <2>1. CASE queue' = [queue EXCEPT ![0] = @ + 1]
    <3>1. queue'[0] > 0
      BY <1>2, <2>1 DEF IInv, TypeOK
    <3>2. QED
      BY <1>2, <3>1 DEF Chased, ToBeRead, Queued
  <2>2. CASE phase'[q] = "errored" /\ UNCHANGED queue
    BY <1>1, <2>2 DEF IInv, TypeOK, Chased, ToBeRead, Queued, BeingStored, Stored
  <2>3. QED
    BY <1>1, <2>1, <2>2
<1>7. QED
  BY <1>3, <1>4, <1>5, <1>6 DEF IInv

\* Every step of a request.
LEMMA RequestPreserves ==
  ASSUME IInv, NEW q \in Requests, RequestStep(q) PROVE IInv'
<1>1. CASE Select(q)
  <2>1. \E t \in Transcript : submission' = [submission EXCEPT ![q] = t]
    BY <1>1, SubmissionsAssumption DEF Select, Transcript, Sources
  <2>2. inserting' \in Requests \cup {NoRequest}
    BY <1>1 DEF Select, IInv, TypeOK
  <2>3. QED
    BY <1>1, <2>1, <2>2, QuietRequest DEF Select, Enter
<1>2. CASE Insert(q)
  <2>1. inserting' \in Requests \cup {NoRequest}
    BY <1>2 DEF Insert, IInv, TypeOK
  <2>2. loaded' = [loaded EXCEPT ![q] = loaded[q]]
    BY <1>2 DEF Insert, IInv, TypeOK
  <2>3. \E next \in {"inserted", "failed"} : phase' = [phase EXCEPT ![q] = next]
    BY <1>2 DEF Insert, Enter
  <2>4. QED
    BY <1>2, <2>1, <2>2, <2>3, QuietRequest DEF Insert
<1>3. CASE Fail(q)
  <2>1. inserting' \in Requests \cup {NoRequest}
    BY <1>3 DEF Fail, EndRequest, IInv, TypeOK
  <2>2. QED
    BY <1>3, <2>1, QuietRequest DEF Fail, Enter, EndRequest
<1>4. QED
  BY <1>1, <1>2, <1>3, CommitStep, EnqueueStep DEF RequestStep

(***************************************************************************)
(* Workers.                                                                *)
(***************************************************************************)
\* A worker leaves the requests' part of the invariant alone.
LEMMA WorkerPreserves ==
  ASSUME IInv, UNCHANGED requestVars, TypeOK', OneAtATime', Chased'
  PROVE  IInv'
BY DEF IInv, requestVars, Submitted, LastCommitted, RowIsOneSubmission

\* A worker becomes one that will read the text, or puts a message back that
\* will, whatever it did to the points on the way.
LEMMA WillRead ==
  ASSUME ToBeRead' PROVE Chased'
BY DEF Chased

\* A worker that replaces nothing moves on, and takes nothing from those that
\* are to read the text.
LEMMA Onward ==
  ASSUME IInv, NEW w \in Workers, at[w] \notin Replacing,
         NEW next \in Steps \ Replacing, at' = [at EXCEPT ![w] = next],
         UNCHANGED <<requestVars, reading, points, overlapped, abandoned>>,
         TypeOK', ToBeRead => ToBeRead' \/ abandoned' \/ row.text = EmptyText
  PROVE  IInv'
<1>1. UNCHANGED <<phase, row, last, reading, points, overlapped, abandoned>>
  BY DEF requestVars
<1>2. \A v \in Workers : /\ at'[v] \in Replacing <=> at[v] \in Replacing
                         /\ at'[v] \in Replacing => at'[v] = at[v]
  BY DEF IInv, TypeOK
<1>3. OneAtATime'
  BY <1>1, <1>2 DEF IInv, OneAtATime
<1>4. Chased'
  BY <1>1, <1>2 DEF IInv, Chased, BeingStored, Stored
<1>5. QED
  BY <1>3, <1>4, WorkerPreserves

\* A message on the queue will read the text.
LEMMA PublishWillRead ==
  ASSUME IInv, NEW n \in Retries, Publish(n)
  PROVE  ToBeRead' /\ queue' \in [Retries -> Nat]
<1>1. queue'[n] > 0 /\ queue' \in [Retries -> Nat]
  BY DEF Publish, IInv, TypeOK
<1>2. QED
  BY <1>1 DEF ToBeRead, Queued

\* The message becomes a worker that will read the text.
LEMMA DeliverStep ==
  ASSUME IInv, NEW w \in Workers, Deliver(w) PROVE IInv'
<1>1. PICK n \in Retries :
        /\ queue[n] > 0
        /\ queue' = [queue EXCEPT ![n] = @ - 1]
        /\ retries' = [retries EXCEPT ![w] = n]
  BY DEF Deliver
<1>2. /\ at[w] = "idle" /\ at' = [at EXCEPT ![w] = "delivered"]
      /\ UNCHANGED <<phase, submission, loaded, row, inserting, last, stale, reading,
                     points, overlapped, abandoned, faults>>
  BY DEF Deliver, GoTo, requestVars, indexVars
<1>3. queue[n] - 1 \in Nat
  BY <1>1 DEF IInv, TypeOK
<1>4. TypeOK'
  BY <1>1, <1>2, <1>3 DEF IInv, TypeOK, Steps
<1>5. ToBeRead'
  BY <1>2 DEF ToBeRead, IInv, TypeOK
<1>6. QED
  BY <1>2, <1>4, <1>5, Onward DEF Deliver, Steps, Replacing

\* Only an empty text is skipped.
LEMMA SkipEmptyStep ==
  ASSUME IInv, NEW w \in Workers, SkipEmpty(w) PROVE IInv'
<1>1. /\ at[w] = "delivered" /\ row.text = EmptyText
      /\ at' = [at EXCEPT ![w] = "closing"]
      /\ UNCHANGED <<phase, submission, loaded, row, inserting, last, stale, retries,
                     reading, points, overlapped, queue, abandoned, faults>>
  BY DEF SkipEmpty, GoTo, requestVars, indexVars
<1>2. TypeOK'
  BY <1>1 DEF IInv, TypeOK, Steps
<1>3. QED
  BY <1>1, <1>2, Onward DEF SkipEmpty, Steps, Replacing

\* A retry reads the text again.
LEMMA RetryStep ==
  ASSUME IInv, NEW w \in Workers, Retry(w) PROVE IInv'
<1>1. /\ at[w] = "raised" /\ at' = [at EXCEPT ![w] = "closing"] /\ Publish(retries[w] + 1)
      /\ UNCHANGED <<phase, submission, loaded, row, inserting, last, stale, retries,
                     reading, points, overlapped, abandoned, faults>>
  BY DEF Retry, GoTo, requestVars, indexVars
<1>2. retries[w] + 1 \in Retries
  BY BoundsAssumption DEF Retry, IInv, TypeOK, Retries
<1>3. ToBeRead' /\ queue' \in [Retries -> Nat]
  BY <1>1, <1>2, PublishWillRead
<1>4. TypeOK'
  BY <1>1, <1>3 DEF IInv, TypeOK, Steps
<1>5. QED
  BY <1>1, <1>3, <1>4, Onward DEF Retry, Steps, Replacing

\* A task given up is remembered.
LEMMA GiveUpStep ==
  ASSUME IInv, NEW w \in Workers, GiveUp(w) PROVE IInv'
<1>1. /\ at' = [at EXCEPT ![w] = "closing"] /\ abandoned' = TRUE
      /\ at[w] = "raised"
      /\ UNCHANGED <<phase, submission, loaded, row, inserting, last, stale, retries,
                     reading, points, overlapped, queue, faults>>
  BY DEF GiveUp, GoTo, requestVars, indexVars
<1>2. TypeOK'
  BY <1>1 DEF IInv, TypeOK, Steps
<1>3. Chased'
  BY <1>1 DEF Chased
<1>4. OneAtATime'
  BY <1>1 DEF IInv, TypeOK, OneAtATime, Replacing
<1>5. QED
  BY <1>2, <1>3, <1>4, WorkerPreserves DEF GiveUp

\* Acknowledging a finished task takes nothing away.
LEMMA AckStep ==
  ASSUME IInv, NEW w \in Workers, Ack(w) PROVE IInv'
<1>1. /\ at[w] = "closing" /\ at' = [at EXCEPT ![w] = "idle"]
      /\ retries' = [retries EXCEPT ![w] = 0]
      /\ UNCHANGED <<phase, submission, loaded, row, inserting, last, stale, reading,
                     points, overlapped, queue, abandoned, faults>>
  BY DEF Ack, GoTo, requestVars, indexVars
<1>2. 0 \in Retries
  BY BoundsAssumption DEF Retries
<1>3. TypeOK'
  BY <1>1, <1>2 DEF IInv, TypeOK, Steps
<1>4. ToBeRead => ToBeRead'
  BY <1>1 DEF IInv, TypeOK, ToBeRead, Queued
<1>5. QED
  BY <1>1, <1>3, <1>4, Onward DEF Ack, Steps, Replacing

\* The worker has now read the text as it is.
LEMMA ReadTextStep ==
  ASSUME IInv, NEW w \in Workers, ReadText(w) PROVE IInv'
<1>1. /\ at[w] = "delivered" /\ at' = [at EXCEPT ![w] = "read"]
      /\ row # NoRow /\ row.text # EmptyText
      /\ reading' = [reading EXCEPT ![w] = row.text]
      /\ overlapped' = (overlapped \/ \E v \in Workers : at[v] \in Replacing)
      /\ UNCHANGED <<phase, submission, loaded, row, inserting, last, stale, retries,
                     points, queue, abandoned, faults>>
  BY DEF ReadText, GoTo, requestVars
<1>2. row.text \in Texts
  BY <1>1 DEF IInv, TypeOK, Transcript
<1>3. TypeOK'
  BY <1>1, <1>2 DEF IInv, TypeOK, Steps
<1>4. OneAtATime'
  BY <1>1, <1>2 DEF IInv, TypeOK, OneAtATime, Replacing
<1>5. BeingStored'
  BY <1>1 DEF IInv, TypeOK, BeingStored, Replacing
<1>6. QED
  BY <1>3, <1>4, <1>5, WorkerPreserves DEF ReadText, Chased

\* Whoever deletes the points has yet to store a text.
LEMMA DeletePointsStep ==
  ASSUME IInv, NEW w \in Workers, DeletePoints(w) PROVE IInv'
<1>1. /\ at[w] = "read" /\ at' = [at EXCEPT ![w] = "cleared"] /\ points' = {}
      /\ UNCHANGED <<phase, submission, loaded, row, inserting, last, stale, retries,
                     reading, overlapped, queue, abandoned, faults>>
  BY DEF DeletePoints, GoTo, requestVars
<1>2. TypeOK'
  BY <1>1 DEF IInv, TypeOK, Steps
<1>3. OneAtATime'
  BY <1>1 DEF IInv, TypeOK, OneAtATime, Replacing
<1>4. ToBeRead => ToBeRead'
  BY <1>1 DEF IInv, TypeOK, ToBeRead, Queued
<1>5. BeingStored => BeingStored'
  BY <1>1 DEF IInv, TypeOK, BeingStored, Replacing
<1>6. ~Stored
  BY <1>1 DEF Stored, Replacing
<1>7. Chased'
  BY <1>1, <1>4, <1>5, <1>6 DEF IInv, Chased
<1>8. QED
  BY <1>2, <1>3, <1>7, WorkerPreserves DEF DeletePoints

\* What an upsert leaves: stored chunks, and after a delete the text itself.
LEMMA UpsertedText ==
  ASSUME IInv, NEW text \in Texts
  PROVE  Upserted(text) \subseteq UNION Texts /\ (points = {} => Upserted(text) = text)
BY DEF IInv, TypeOK, Upserted

\* The points become the text read, if nobody else replaces them.
LEMMA UpsertPointsStep ==
  ASSUME IInv, NEW w \in Workers, UpsertPoints(w) PROVE IInv'
<1>1. /\ at[w] = "cleared" /\ at' = [at EXCEPT ![w] = "closing"]
      /\ points' = Upserted(reading[w]) /\ reading' = [reading EXCEPT ![w] = EmptyText]
      /\ UNCHANGED <<phase, submission, loaded, row, inserting, last, stale, retries,
                     overlapped, queue, abandoned, faults>>
  BY DEF UpsertPoints, GoTo, Forget, requestVars
<1>2. reading[w] \in Texts
  BY <1>1 DEF IInv, OneAtATime, Replacing
<1>3. points' \subseteq UNION Texts /\ (points = {} => points' = reading[w])
  BY <1>1, <1>2, UpsertedText
<1>4. TypeOK'
  BY <1>1, <1>3 DEF IInv, TypeOK, Steps
<1>5. /\ \A v \in Workers : at'[v] \in Replacing <=> at[v] \in Replacing /\ v # w
      /\ \A v \in Workers \ {w} : at'[v] = at[v] /\ reading'[v] = reading[v]
  BY <1>1 DEF IInv, TypeOK, Replacing
<1>6. ~overlapped => points = {} /\ \A v \in Workers : at[v] \in Replacing => v = w
  BY <1>1 DEF IInv, OneAtATime, Replacing
<1>7. OneAtATime'
  BY <1>1, <1>2, <1>3, <1>5, <1>6 DEF IInv, OneAtATime
<1>8. ToBeRead => ToBeRead'
  BY <1>1 DEF IInv, TypeOK, ToBeRead, Queued
<1>9. ~overlapped /\ BeingStored => Stored'
  BY <1>1, <1>3, <1>5, <1>6 DEF BeingStored, Stored
<1>10. ~Stored
  BY <1>1 DEF Stored, Replacing
<1>11. Chased'
  BY <1>1, <1>8, <1>9, <1>10 DEF IInv, Chased
<1>12. QED
  BY <1>4, <1>7, <1>11, WorkerPreserves DEF UpsertPoints

\* A failed task will read the text again, whatever it left in the index.
LEMMA RaiseStep ==
  ASSUME IInv, NEW w \in Workers, Raise(w) PROVE IInv'
<1>1. /\ at' = [at EXCEPT ![w] = "raised"]
      /\ reading' = [reading EXCEPT ![w] = EmptyText]
      /\ \/ points' = points
         \/ at[w] = "read" /\ points' = {}
         \/ at[w] = "cleared" /\ points' = Upserted(reading[w])
      /\ UNCHANGED <<phase, submission, loaded, row, inserting, last, stale, retries,
                     overlapped, queue, abandoned, faults>>
  BY DEF Raise, GoTo, Forget, requestVars
<1>2. at[w] = "cleared" => reading[w] \in Texts
  BY <1>1 DEF IInv, OneAtATime, Replacing
<1>3. /\ points' \subseteq UNION Texts
      /\ points = {} /\ at[w] = "cleared" => points' \in {{}, reading[w]}
  BY <1>1, <1>2, UpsertedText DEF IInv, TypeOK
<1>4. TypeOK'
  BY <1>1, <1>3 DEF IInv, TypeOK, Steps
<1>5. /\ \A v \in Workers : at'[v] \in Replacing <=> at[v] \in Replacing /\ v # w
      /\ \A v \in Workers \ {w} : at'[v] = at[v] /\ reading'[v] = reading[v]
  BY <1>1 DEF IInv, TypeOK, Replacing
<1>6. at[w] \in Replacing /\ ~overlapped => \A v \in Workers : at[v] \in Replacing => v = w
  BY DEF IInv, OneAtATime
<1>7. at[w] = "cleared" /\ ~overlapped => points = {}
  BY DEF IInv, OneAtATime, Replacing
<1>8. OneAtATime'
  <2>1. \A v \in Workers : at'[v] \in Replacing => reading'[v] \in Texts
    BY <1>5 DEF IInv, OneAtATime
  <2>2. ~overlapped => points' \in Texts \cup {{}}
    BY <1>1, <1>2, <1>3, <1>7 DEF IInv, OneAtATime
  <2>3. ~overlapped =>
          \A v \in Workers : at'[v] \in Replacing =>
            /\ at'[v] = "cleared" => points' = {}
            /\ \A u \in Workers : at'[u] \in Replacing => u = v
    BY <1>1, <1>5, <1>6 DEF IInv, OneAtATime, Replacing
  <2>4. QED
    BY <1>1, <2>1, <2>2, <2>3 DEF OneAtATime
<1>9. ToBeRead'
  BY <1>1 DEF IInv, TypeOK, ToBeRead
<1>10. QED
  BY <1>4, <1>8, <1>9, WillRead, WorkerPreserves DEF Raise

\* A lost or repeated delivery puts its message back.
LEMMA LostStep ==
  ASSUME IInv, NEW w \in Workers, Crash(w) \/ Redeliver(w) PROVE IInv'
<1>1. /\ faults < MaxFaults /\ faults' = faults + 1 /\ Publish(retries[w])
      /\ UNCHANGED <<phase, submission, loaded, row, inserting, last, stale,
                     points, overlapped, abandoned>>
      /\ \/ /\ at' = [at EXCEPT ![w] = "idle"] /\ retries' = [retries EXCEPT ![w] = 0]
            /\ reading' = [reading EXCEPT ![w] = EmptyText]
         \/ UNCHANGED <<at, retries, reading>>
  BY DEF Crash, Redeliver, GoTo, Forget, requestVars, indexVars, workerVars
<1>2. retries[w] \in Retries
  BY DEF IInv, TypeOK
<1>3. ToBeRead' /\ queue' \in [Retries -> Nat]
  BY <1>1, <1>2, PublishWillRead
<1>4. faults + 1 \in 0 .. MaxFaults /\ 0 \in Retries
  BY <1>1, BoundsAssumption DEF IInv, TypeOK, Retries
<1>5. TypeOK'
  BY <1>1, <1>3, <1>4 DEF IInv, TypeOK, Steps
<1>6. OneAtATime'
  BY <1>1 DEF IInv, TypeOK, OneAtATime, Replacing
<1>7. QED
  BY <1>3, <1>5, <1>6, WillRead, WorkerPreserves DEF Crash, Redeliver

\* Every step preserves the invariant.
LEMMA StepInvariant ==
  ASSUME IInv, [Next]_vars PROVE IInv'
<1>1. CASE UNCHANGED vars
  BY <1>1 DEF vars, requestVars, workerVars, indexVars, IInv, TypeOK, Submitted,
     LastCommitted, OneAtATime, Chased, ToBeRead, Queued, BeingStored, Stored,
     RowIsOneSubmission
<1>2. ASSUME NEW w \in Workers, WorkerStep(w) \/ Fault(w) PROVE IInv'
  BY <1>2, DeliverStep, ReadTextStep, SkipEmptyStep, DeletePointsStep, UpsertPointsStep,
     RetryStep, GiveUpStep, AckStep, RaiseStep, LostStep DEF WorkerStep, Fault
<1>3. QED
  BY <1>1, <1>2, RequestPreserves DEF Next

\* The inductive invariant holds of every reachable state of the transcript.
THEOREM Safety == Spec => []IInv
<1>1. IInv /\ [Next]_vars => IInv'
  BY StepInvariant
<1>2. QED
  BY <1>1, InitInvariant, PTL DEF Spec

\* Requests, row, workers and points stay in their types.
THEOREM TypeCorrect == Spec => []TypeOK
<1>1. IInv => TypeOK
  BY DEF IInv
<1>2. QED
  BY <1>1, Safety, PTL

\* The row is what one request submitted, unless a commit went over an unread row.
THEOREM RowFromOneRequest == Spec => []RowIsOneSubmission
<1>1. IInv => RowIsOneSubmission
  BY DEF IInv
<1>2. QED
  BY <1>1, Safety, PTL

\* Retries, crashes, duplicates and later submissions, as long as no two tasks
\* replace the points at once, leave the committed text in the index.
THEOREM IndexedWhenSettled == Spec => []IndexFollowsText
<1>1. QED
  BY Enough, Safety, PTL

\* Without overlap the index is one whole text or none in every state, also in
\* the middle of a replacement.
THEOREM OneTextAtATime == Spec => []NeverMixed
<1>1. IInv => NeverMixed
  BY DEF IInv, OneAtATime, NeverMixed
<1>2. QED
  BY <1>1, Safety, PTL
=============================================================================
