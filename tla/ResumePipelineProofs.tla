------------------------ MODULE ResumePipelineProofs ------------------------
(* Proofs about ResumePipeline, for any resumes, workers, chunks and bounds. *)
EXTENDS ResumePipeline, TLAPS

\* A column changes to one of the values it could have.
LEMMA NetChangeType ==
  ASSUME NEW S, NEW a \in S, NEW b \in S, NEW c \in S
  PROVE  NetChange(a, b, c) \subseteq S
BY DEF NetChange

\* Sending keeps the broker well-typed.
LEMMA PublishType ==
  ASSUME queue \in [Message -> Nat], NEW m \in Message, Publish(m)
  PROVE  queue' \in [Message -> Nat]
BY DEF Publish

USE SentinelAssumption, BoundsAssumption

\* A task as send_task creates it is a message.
LEMMA NewTaskType ==
  \A task \in Tasks, r \in Resumes : NewTask(task, r) \in Message
BY DEF NewTask, Message

\* A worker that is not idle holds a message about a resume.
LEMMA BusyMessage ==
  ASSUME WorkerInv, NEW w \in Workers, at[w] # "idle"
  PROVE  message[w] \in Message /\ ResumeOf(w) \in Resumes /\ message[w].task \in Tasks
BY DEF WorkerInv, WorkerOK, ResumeOf, Message

\* A retried message differs in its retry count only.
LEMMA RetryType ==
  ASSUME NEW m \in Message, m.retries < MaxRetries
  PROVE  /\ [m EXCEPT !.retries = @ + 1] \in Message
         /\ [m EXCEPT !.retries = @ + 1].task = m.task
         /\ [m EXCEPT !.retries = @ + 1].resume = m.resume
BY DEF Message

\* The initial state satisfies types and the workers' invariant.
LEMMA InitWorker == Init => TypeOK /\ WorkerInv
BY DEF Init, TypeOK, WorkerInv, WorkerOK, Lifecycle!Absent, Lifecycle!Row, Steps, Writing,
       Lifecycle!ResumeStatus, Lifecycle!EmbeddingStatus, Lifecycle!Data, Lifecycle!Error,
       Message

\* Both outcomes give a row of the lifecycle.
LEMMA OutcomeType ==
  ASSUME NEW resume \in Lifecycle!Row, NEW error \in Lifecycle!Error
  PROVE  /\ \A status \in Lifecycle!ResumeStatus, data \in Lifecycle!Data :
              Lifecycle!ParseOutcome(resume, status, data, error) \in Lifecycle!Row
         /\ \A status \in Lifecycle!EmbeddingStatus :
              Lifecycle!EmbedOutcome(resume, status, error) \in Lifecycle!Row
BY DEF Lifecycle!Row, Lifecycle!ParseOutcome, Lifecycle!EmbedOutcome

\* Ending a session keeps locks and snapshots well-typed.
LEMMA EndSessionType ==
  ASSUME TypeOK, NEW w, EndSession(w)
  PROVE  /\ lock' \in [Resumes -> Workers \cup {NoWorker}]
         /\ snapshot' \in [Workers -> Snapshot \cup {NoSnapshot}]
BY DEF TypeOK, EndSession

\* No step leaves the types: one case per action.
LEMMA TypeStep ==
  ASSUME TypeOK, WorkerInv, [Next]_vars
  PROVE  TypeOK'
<1> USE DEF TypeOK, GoTo, Steps
<1>1. ASSUME NEW r \in Resumes, SubmitCommit(r) PROVE TypeOK'
  BY <1>1 DEF SubmitCommit, Lifecycle!Uploaded, Lifecycle!Absent, Lifecycle!Row,
              Lifecycle!ResumeStatus, Lifecycle!EmbeddingStatus, Lifecycle!Data,
              Lifecycle!Error
<1>2. ASSUME NEW r \in Resumes, HandOver(r) PROVE TypeOK'
  BY <1>2, PublishType, NewTaskType DEF HandOver, Tasks
<1>3. ASSUME NEW r \in Resumes, HandOverFails(r) PROVE TypeOK'
  BY <1>3 DEF HandOverFails
<1>4. ASSUME NEW w \in Workers, Deliver(w) PROVE TypeOK'
  BY <1>4 DEF Deliver
<1>5. ASSUME NEW w \in Workers, Load(w) PROVE TypeOK'
  BY <1>5 DEF Load, WorkerInv, WorkerOK, Message, ResumeOf, Snapshot, Lifecycle!Row
<1>6. ASSUME NEW w \in Workers, Flush(w) PROVE TypeOK'
  BY <1>6 DEF Flush
<1>7. ASSUME NEW w \in Workers, ParseSucceeds(w) PROVE TypeOK'
  <2> DEFINE r == ResumeOf(w)
  <2>1. r \in Resumes /\ snapshot[w] \in Snapshot
    BY <1>7 DEF ParseSucceeds, Running, WorkerInv, WorkerOK, Writing, ResumeOf, Message
  <2>0. PICK extracted \in Lifecycle!Data :
          \E data \in NetChange(snapshot[w].parsed_data, extracted, row[r].parsed_data),
             error \in NetChange(snapshot[w].error, "null", row[r].parse_error) :
            row' = [row EXCEPT ![r] =
                      Lifecycle!ParseOutcome(row[r], "parsed", data, error)]
    BY <1>7 DEF ParseSucceeds
  <2>2. PICK data \in NetChange(snapshot[w].parsed_data, extracted, row[r].parsed_data),
             error \in NetChange(snapshot[w].error, "null", row[r].parse_error) :
          row' = [row EXCEPT ![r] =
                    Lifecycle!ParseOutcome(row[r], "parsed", data, error)]
    BY <2>0
  <2>3. data \in Lifecycle!Data /\ error \in Lifecycle!Error
    BY <2>1, NetChangeType DEF Lifecycle!Row, Lifecycle!Error, Snapshot
  <2>4. row' \in [Resumes -> Lifecycle!Row]
    BY <2>1, <2>2, <2>3, OutcomeType DEF Lifecycle!ResumeStatus
  <2> QED BY <1>7, <2>1, <2>4, EndSessionType DEF ParseSucceeds
<1>8. ASSUME NEW w \in Workers, ParseFails(w) PROVE TypeOK'
  <2> DEFINE r == ResumeOf(w)
  <2>1. r \in Resumes /\ snapshot[w] \in Snapshot /\ row[r].parsed_data \in Lifecycle!Data
    BY <1>8 DEF ParseFails, Running, WorkerInv, WorkerOK, Writing, ResumeOf, Message, Lifecycle!Row
  <2>2. PICK error \in NetChange(snapshot[w].error, "text", row[r].parse_error) :
          row' = [row EXCEPT ![r] =
                    Lifecycle!ParseOutcome(row[r], "parse_failed", row[r].parsed_data, error)]
    BY <1>8 DEF ParseFails
  <2>3. error \in Lifecycle!Error
    BY <2>1, NetChangeType DEF Lifecycle!Row, Lifecycle!Error, Snapshot
  <2>4. row' \in [Resumes -> Lifecycle!Row]
    BY <2>1, <2>2, <2>3, OutcomeType DEF Lifecycle!ResumeStatus
  <2> QED BY <1>8, <2>4, EndSessionType DEF ParseFails
<1>9. ASSUME NEW w \in Workers, SendEmbed(w) PROVE TypeOK'
  BY <1>9, PublishType, NewTaskType, BusyMessage DEF SendEmbed, Tasks
<1>10. ASSUME NEW w \in Workers, DeletePoints(w) PROVE TypeOK'
  BY <1>10 DEF DeletePoints
<1>11. ASSUME NEW w \in Workers, UpsertPoints(w) PROVE TypeOK'
  BY <1>11 DEF UpsertPoints
<1>12. ASSUME NEW w \in Workers, EmbedSucceeds(w) PROVE TypeOK'
  <2> DEFINE r == ResumeOf(w)
  <2>1. r \in Resumes /\ snapshot[w] \in Snapshot
    BY <1>12 DEF EmbedSucceeds, WorkerInv, WorkerOK, Writing, ResumeOf, Message
  <2>2. PICK error \in NetChange(snapshot[w].error, "null", row[r].embedding_error) :
          row' = [row EXCEPT ![r] = Lifecycle!EmbedOutcome(row[r], "embedded", error)]
    BY <1>12 DEF EmbedSucceeds
  <2>3. error \in Lifecycle!Error
    BY <2>1, NetChangeType DEF Lifecycle!Row, Lifecycle!Error, Snapshot
  <2>4. row' \in [Resumes -> Lifecycle!Row]
    BY <2>1, <2>2, <2>3, OutcomeType DEF Lifecycle!EmbeddingStatus
  <2> QED BY <1>12, <2>4, EndSessionType DEF EmbedSucceeds
<1>13. ASSUME NEW w \in Workers, EmbedFails(w) PROVE TypeOK'
  <2> DEFINE r == ResumeOf(w)
  <2>1. r \in Resumes /\ snapshot[w] \in Snapshot
    BY <1>13 DEF EmbedFails, Running, WorkerInv, WorkerOK, Writing, ResumeOf, Message
  <2>2. PICK error \in NetChange(snapshot[w].error, "text", row[r].embedding_error) :
          row' = [row EXCEPT ![r] = Lifecycle!EmbedOutcome(row[r], "embed_failed", error)]
    BY <1>13 DEF EmbedFails
  <2>3. error \in Lifecycle!Error
    BY <2>1, NetChangeType DEF Lifecycle!Row, Lifecycle!Error, Snapshot
  <2>4. row' \in [Resumes -> Lifecycle!Row]
    BY <2>1, <2>2, <2>3, OutcomeType DEF Lifecycle!EmbeddingStatus
  <2>5. points' \in [Resumes -> SUBSET Chunks]
    BY <1>13, <2>1 DEF EmbedFails
  <2> QED BY <1>13, <2>4, <2>5, EndSessionType DEF EmbedFails
<1>14. ASSUME NEW w \in Workers, Retry(w) PROVE TypeOK'
  BY <1>14, PublishType, BusyMessage, RetryType DEF Retry
<1>15. ASSUME NEW w \in Workers, GiveUp(w) PROVE TypeOK'
  BY <1>15 DEF GiveUp, WorkerInv, WorkerOK, Message, ResumeOf
<1>16. ASSUME NEW w \in Workers, Ack(w) PROVE TypeOK'
  BY <1>16 DEF Ack
<1>17. ASSUME NEW w \in Workers, Raise(w) PROVE TypeOK'
  BY <1>17 DEF Raise, EndSession
<1>18. ASSUME NEW w \in Workers, Crash(w) PROVE TypeOK'
  BY <1>18, PublishType, BusyMessage DEF Crash, EndSession
<1>19. ASSUME NEW w \in Workers, Redeliver(w) PROVE TypeOK'
  BY <1>19, PublishType, BusyMessage DEF Redeliver
<1>20. CASE UNCHANGED vars
  BY <1>20 DEF vars
<1> QED
  BY <1>1, <1>2, <1>3, <1>4, <1>5, <1>6, <1>7, <1>8, <1>9, <1>10, <1>11, <1>12,
     <1>13, <1>14, <1>15, <1>16, <1>17, <1>18, <1>19, <1>20
     DEF Next, RequestStep, WorkerStep, Fault

\* A step of worker w leaves the other workers where they are: it moves only
\* w, frees only the locks of w and touches the points only of a row w holds.
Undisturbed(w) ==
  \A v \in Workers \ {w} :
    /\ at'[v] = at[v] /\ message'[v] = message[v] /\ snapshot'[v] = snapshot[v]
    /\ at[v] \in Writing => lock'[ResumeOf(v)] = v
    /\ at[v] = "indexed" => points'[ResumeOf(v)] = points[ResumeOf(v)]

\* What a step of w does not disturb stays true of the other workers.
LEMMA OthersKeep ==
  ASSUME WorkerInv, NEW w \in Workers, Undisturbed(w)
  PROVE  \A v \in Workers \ {w} : WorkerOK(v)'
BY DEF WorkerInv, WorkerOK, ResumeOf, Undisturbed

\* Every step keeps what each worker holds at its place in the code.
LEMMA WorkerInvStep ==
  ASSUME TypeOK, WorkerInv, [Next]_vars
  PROVE  WorkerInv'
<1> USE DEF TypeOK, GoTo
<1>1. ASSUME NEW r \in Resumes, RequestStep(r) PROVE WorkerInv'
  BY <1>1 DEF RequestStep, SubmitCommit, HandOver, HandOverFails, WorkerInv, WorkerOK, ResumeOf
<1>2. ASSUME NEW w \in Workers, Deliver(w) PROVE WorkerInv'
  <2>1. Undisturbed(w)
    BY <1>2 DEF Undisturbed, Deliver, WorkerInv, WorkerOK, Writing, ResumeOf, Message
  <2>2. WorkerOK(w)'
    BY <1>2 DEF Deliver, WorkerInv, WorkerOK, Writing, ResumeOf, Message
  <2> QED BY <2>1, <2>2, OthersKeep DEF WorkerInv
<1>3. ASSUME NEW w \in Workers, Load(w) PROVE WorkerInv'
  <2>1. Undisturbed(w)
    BY <1>3 DEF Undisturbed, Load, WorkerInv, WorkerOK, Writing, ResumeOf, Message
  <2>2. WorkerOK(w)'
    BY <1>3 DEF Load, WorkerInv, WorkerOK, Writing, ResumeOf, Message, Snapshot, Lifecycle!Row
  <2> QED BY <2>1, <2>2, OthersKeep DEF WorkerInv
<1>4. ASSUME NEW w \in Workers, Flush(w) PROVE WorkerInv'
  <2>1. Undisturbed(w)
    BY <1>4 DEF Undisturbed, Flush, WorkerInv, WorkerOK, Writing, ResumeOf, Message
  <2>2. WorkerOK(w)'
    BY <1>4 DEF Flush, WorkerInv, WorkerOK, Writing, ResumeOf, Message
  <2> QED BY <2>1, <2>2, OthersKeep DEF WorkerInv
<1>5. ASSUME NEW w \in Workers, ParseSucceeds(w) PROVE WorkerInv'
  <2>1. Undisturbed(w)
    BY <1>5 DEF Undisturbed, ParseSucceeds, Running, EndSession, WorkerInv, WorkerOK, Writing, ResumeOf, Message
  <2>2. WorkerOK(w)'
    BY <1>5 DEF ParseSucceeds, Running, EndSession, WorkerInv, WorkerOK, Writing, ResumeOf, Message
  <2> QED BY <2>1, <2>2, OthersKeep DEF WorkerInv
<1>6. ASSUME NEW w \in Workers, ParseFails(w) PROVE WorkerInv'
  <2>1. Undisturbed(w)
    BY <1>6 DEF Undisturbed, ParseFails, Running, EndSession, WorkerInv, WorkerOK, Writing, ResumeOf, Message
  <2>2. WorkerOK(w)'
    BY <1>6 DEF ParseFails, Running, EndSession, WorkerInv, WorkerOK, Writing, ResumeOf, Message
  <2> QED BY <2>1, <2>2, OthersKeep DEF WorkerInv
<1>7. ASSUME NEW w \in Workers, SendEmbed(w) PROVE WorkerInv'
  <2>1. Undisturbed(w)
    BY <1>7 DEF Undisturbed, SendEmbed, Publish, WorkerInv, WorkerOK, Writing, ResumeOf, Message
  <2>2. WorkerOK(w)'
    BY <1>7 DEF SendEmbed, Publish, WorkerInv, WorkerOK, Writing, ResumeOf, Message
  <2> QED BY <2>1, <2>2, OthersKeep DEF WorkerInv
<1>8. ASSUME NEW w \in Workers, DeletePoints(w) PROVE WorkerInv'
  <2>1. Undisturbed(w)
    BY <1>8 DEF Undisturbed, DeletePoints, Running, WorkerInv, WorkerOK, Writing, ResumeOf, Message
  <2>2. WorkerOK(w)'
    BY <1>8 DEF DeletePoints, Running, WorkerInv, WorkerOK, Writing, ResumeOf, Message
  <2> QED BY <2>1, <2>2, OthersKeep DEF WorkerInv
<1>9. ASSUME NEW w \in Workers, UpsertPoints(w) PROVE WorkerInv'
  <2>1. Undisturbed(w)
    BY <1>9 DEF Undisturbed, UpsertPoints, WorkerInv, WorkerOK, Writing, ResumeOf, Message
  <2>2. WorkerOK(w)'
    BY <1>9 DEF UpsertPoints, WorkerInv, WorkerOK, Writing, ResumeOf, Message
  <2> QED BY <2>1, <2>2, OthersKeep DEF WorkerInv
<1>10. ASSUME NEW w \in Workers, EmbedSucceeds(w) PROVE WorkerInv'
  <2>1. Undisturbed(w)
    BY <1>10 DEF Undisturbed, EmbedSucceeds, EndSession, WorkerInv, WorkerOK, Writing, ResumeOf, Message
  <2>2. WorkerOK(w)'
    BY <1>10 DEF EmbedSucceeds, EndSession, WorkerInv, WorkerOK, Writing, ResumeOf, Message
  <2> QED BY <2>1, <2>2, OthersKeep DEF WorkerInv
<1>11. ASSUME NEW w \in Workers, EmbedFails(w) PROVE WorkerInv'
  <2>1. Undisturbed(w)
    BY <1>11 DEF Undisturbed, EmbedFails, Running, EndSession, WorkerInv, WorkerOK, Writing, ResumeOf, Message
  <2>2. WorkerOK(w)'
    BY <1>11 DEF EmbedFails, Running, EndSession, WorkerInv, WorkerOK, Writing, ResumeOf, Message
  <2> QED BY <2>1, <2>2, OthersKeep DEF WorkerInv
<1>12. ASSUME NEW w \in Workers, Retry(w) PROVE WorkerInv'
  <2>1. Undisturbed(w)
    BY <1>12 DEF Undisturbed, Retry, Publish, WorkerInv, WorkerOK, Writing, ResumeOf, Message
  <2>2. WorkerOK(w)'
    BY <1>12 DEF Retry, Publish, WorkerInv, WorkerOK, Writing, ResumeOf, Message
  <2> QED BY <2>1, <2>2, OthersKeep DEF WorkerInv
<1>13. ASSUME NEW w \in Workers, GiveUp(w) PROVE WorkerInv'
  <2>1. Undisturbed(w)
    BY <1>13 DEF Undisturbed, GiveUp, WorkerInv, WorkerOK, Writing, ResumeOf, Message
  <2>2. WorkerOK(w)'
    BY <1>13 DEF GiveUp, WorkerInv, WorkerOK, Writing, ResumeOf, Message
  <2> QED BY <2>1, <2>2, OthersKeep DEF WorkerInv
<1>14. ASSUME NEW w \in Workers, Ack(w) PROVE WorkerInv'
  <2>1. Undisturbed(w)
    BY <1>14 DEF Undisturbed, Ack, WorkerInv, WorkerOK, Writing, ResumeOf, Message
  <2>2. WorkerOK(w)'
    BY <1>14 DEF Ack, WorkerInv, WorkerOK, Writing, ResumeOf, Message
  <2> QED BY <2>1, <2>2, OthersKeep DEF WorkerInv
<1>15. ASSUME NEW w \in Workers, Raise(w) PROVE WorkerInv'
  <2>1. Undisturbed(w)
    BY <1>15 DEF Undisturbed, Raise, EndSession, WorkerInv, WorkerOK, Writing, ResumeOf, Message
  <2>2. WorkerOK(w)'
    BY <1>15 DEF Raise, EndSession, WorkerInv, WorkerOK, Writing, ResumeOf, Message
  <2> QED BY <2>1, <2>2, OthersKeep DEF WorkerInv
<1>16. ASSUME NEW w \in Workers, Crash(w) PROVE WorkerInv'
  <2>1. Undisturbed(w)
    BY <1>16 DEF Undisturbed, Crash, EndSession, Publish, WorkerInv, WorkerOK, Writing, ResumeOf, Message
  <2>2. WorkerOK(w)'
    BY <1>16 DEF Crash, EndSession, Publish, WorkerInv, WorkerOK, Writing, ResumeOf, Message
  <2> QED BY <2>1, <2>2, OthersKeep DEF WorkerInv
<1>17. ASSUME NEW w \in Workers, Redeliver(w) PROVE WorkerInv'
  <2>1. Undisturbed(w)
    BY <1>17 DEF Undisturbed, Redeliver, Publish, WorkerInv, WorkerOK, Writing, ResumeOf, Message
  <2>2. WorkerOK(w)'
    BY <1>17 DEF Redeliver, Publish, WorkerInv, WorkerOK, Writing, ResumeOf, Message
  <2> QED BY <2>1, <2>2, OthersKeep DEF WorkerInv
<1>18. CASE UNCHANGED vars
  BY <1>18 DEF vars, WorkerInv, WorkerOK, ResumeOf
<1> QED
  BY <1>1, <1>2, <1>3, <1>4, <1>5, <1>6, <1>7, <1>8, <1>9, <1>10, <1>11, <1>12, <1>13, <1>14, <1>15, <1>16, <1>17, <1>18
     DEF Next, WorkerStep, Fault

\* Only Deliver takes a message out of the broker.
LEMMA QueueStep ==
  ASSUME TypeOK, WorkerInv, [Next]_vars, NEW m \in Message, queue[m] > 0
  PROVE  \/ queue'[m] > 0
         \/ \E w \in Workers : at'[w] = "delivered" /\ message'[w] = m
<1>1. CASE \E w \in Workers : Deliver(w)
  BY <1>1 DEF Deliver, TypeOK, GoTo
<1>2. CASE UNCHANGED queue
  BY <1>2
<1>3. ASSUME NEW n \in Message, Publish(n) PROVE queue'[m] > 0
  BY <1>3 DEF Publish, TypeOK
<1>4. ASSUME NEW r \in Resumes, HandOver(r) PROVE queue'[m] > 0
  BY <1>3, <1>4, NewTaskType DEF HandOver, Tasks
<1>5. ASSUME NEW w \in Workers, SendEmbed(w) PROVE queue'[m] > 0
  BY <1>3, <1>5, NewTaskType, BusyMessage DEF SendEmbed, Tasks
<1>6. ASSUME NEW w \in Workers, Retry(w) PROVE queue'[m] > 0
  BY <1>3, <1>6, RetryType, BusyMessage DEF Retry
<1>7. ASSUME NEW w \in Workers, Crash(w) \/ Redeliver(w) PROVE queue'[m] > 0
  BY <1>3, <1>7, BusyMessage DEF Crash, Redeliver
<1> QED
  BY <1>1, <1>2, <1>4, <1>5, <1>6, <1>7
     DEF Next, vars, RequestStep, WorkerStep, Fault, SubmitCommit, HandOverFails, Load,
         Flush, ParseSucceeds, ParseFails, DeletePoints, UpsertPoints, EmbedSucceeds,
         EmbedFails, GiveUp, Ack, Raise

\* What the commit of an outcome shows.
LEMMA OutcomeColumns ==
  ASSUME NEW resume \in Lifecycle!Row, NEW status, NEW data, NEW error
  PROVE  /\ Lifecycle!ParseOutcome(resume, status, data, error).status = status
         /\ Lifecycle!ParseOutcome(resume, status, data, error).embedding_status
              = resume.embedding_status
         /\ Lifecycle!EmbedOutcome(resume, status, error).embedding_status = status
         /\ Lifecycle!EmbedOutcome(resume, status, error).status = resume.status
BY DEF Lifecycle!Row, Lifecycle!ParseOutcome, Lifecycle!EmbedOutcome

\* A committed parse shows in the columns of its own resume only.
LEMMA ParseSucceedsRow ==
  ASSUME TypeOK, WorkerInv, NEW w \in Workers, ParseSucceeds(w)
  PROVE  /\ \A r \in Resumes : r # ResumeOf(w) => row'[r] = row[r]
         /\ row'[ResumeOf(w)].status = "parsed"
         /\ row'[ResumeOf(w)].embedding_status = row[ResumeOf(w)].embedding_status
<1>1. ResumeOf(w) \in Resumes /\ row[ResumeOf(w)] \in Lifecycle!Row
  BY BusyMessage DEF ParseSucceeds, Running, TypeOK
<1> QED BY <1>1, OutcomeColumns DEF ParseSucceeds, TypeOK

\* So does a failed one.
LEMMA ParseFailsRow ==
  ASSUME TypeOK, WorkerInv, NEW w \in Workers, ParseFails(w)
  PROVE  /\ \A r \in Resumes : r # ResumeOf(w) => row'[r] = row[r]
         /\ row'[ResumeOf(w)].status = "parse_failed"
         /\ row'[ResumeOf(w)].embedding_status = row[ResumeOf(w)].embedding_status
<1>1. ResumeOf(w) \in Resumes /\ row[ResumeOf(w)] \in Lifecycle!Row
  BY BusyMessage DEF ParseFails, Running, TypeOK
<1> QED BY <1>1, OutcomeColumns DEF ParseFails, TypeOK

\* A committed embedding touches its own resume, whose index is then complete.
LEMMA EmbedSucceedsRow ==
  ASSUME TypeOK, WorkerInv, NEW w \in Workers, EmbedSucceeds(w)
  PROVE  /\ \A r \in Resumes : r # ResumeOf(w) => row'[r] = row[r]
         /\ row'[ResumeOf(w)].embedding_status = "embedded"
         /\ row'[ResumeOf(w)].status = row[ResumeOf(w)].status
         /\ points'[ResumeOf(w)] = Chunks
<1>1. ResumeOf(w) \in Resumes /\ row[ResumeOf(w)] \in Lifecycle!Row
  BY BusyMessage DEF EmbedSucceeds, TypeOK
<1>2. points'[ResumeOf(w)] = Chunks
  BY DEF EmbedSucceeds, WorkerInv, WorkerOK
<1> QED BY <1>1, <1>2, OutcomeColumns DEF EmbedSucceeds, TypeOK

\* A failed embedding touches its own resume and no other index.
LEMMA EmbedFailsRow ==
  ASSUME TypeOK, WorkerInv, NEW w \in Workers, EmbedFails(w)
  PROVE  /\ \A r \in Resumes : r # ResumeOf(w) => row'[r] = row[r] /\ points'[r] = points[r]
         /\ row'[ResumeOf(w)].embedding_status = "embed_failed"
         /\ row'[ResumeOf(w)].status = row[ResumeOf(w)].status
<1>1. ResumeOf(w) \in Resumes /\ row[ResumeOf(w)] \in Lifecycle!Row
  BY BusyMessage DEF EmbedFails, Running, TypeOK
<1>2. \A r \in Resumes : r # ResumeOf(w) => points'[r] = points[r]
  BY <1>1 DEF EmbedFails, TypeOK
<1> QED BY <1>1, <1>2, OutcomeColumns DEF EmbedFails, TypeOK

\* How a pending task ends: it is still pending, or was given up, or its
\* outcome has just been committed.
Ended(task, r) ==
  \/ <<task, r>> \in abandoned'
  \/ task = "parse_resume" /\ row'[r].status = "parsed" /\ At("parse_resume", r, {"parsed"})'
  \/ task = "parse_resume" /\ row'[r].status = "parse_failed"
  \/ task = "embed_resume" /\ row'[r].embedding_status = "embed_failed"
  \/ task = "embed_resume" /\ row'[r].embedding_status = "embedded" /\ points'[r] = Chunks

\* A message in the broker or just delivered keeps its task pending.
LEMMA DeliveredIsPending ==
  ASSUME NEW task, NEW r, NEW m \in Message, m.task = task, m.resume = r,
         \/ queue'[m] > 0
         \/ \E w \in Workers : at'[w] = "delivered" /\ message'[w] = m
  PROVE  Pending(task, r)'
BY DEF Pending, Queued, At, Running, ResumeOf, Live, Steps

\* A message sent is in the broker.
LEMMA PublishedIsQueued ==
  ASSUME TypeOK, NEW task, NEW r,
         \E m \in Message : m.task = task /\ m.resume = r /\ Publish(m)
  PROVE  Queued(task, r)'
BY DEF TypeOK, Publish, Queued

\* A worker in the middle of a task moves to another step of it, puts it back
\* in the queue, or ends it.
LEMMA RunningStep ==
  ASSUME TypeOK, WorkerInv, NEW w \in Workers, WorkerStep(w) \/ Fault(w),
         NEW task, NEW r, Running(w, task, Live), ResumeOf(w) = r
  PROVE  Pending(task, r)' \/ Ended(task, r)
<1>0. /\ message[w] \in Message /\ task \in Tasks /\ r \in Resumes
      /\ message[w].task = task /\ message[w].resume = r /\ at[w] \in Live
  BY BusyMessage DEF Live, ResumeOf, Running
<1>1. ASSUME message'[w] = message[w], at'[w] \in Live
      PROVE  Pending(task, r)'
  BY <1>0, <1>1 DEF Pending, At, Running, ResumeOf
<1>2. CASE Load(w) \/ Flush(w) \/ DeletePoints(w) \/ UpsertPoints(w) \/ Raise(w) \/ Redeliver(w)
  <2>1. message'[w] = message[w] /\ at'[w] \in Live
    BY <1>0, <1>2 DEF Load, Flush, DeletePoints, UpsertPoints, Raise, Redeliver, GoTo,
                      TypeOK, Live, Steps
  <2> QED BY <1>1, <2>1
<1>3. CASE ParseSucceeds(w)
  <2>1. at'[w] = "parsed" /\ message'[w] = message[w] /\ task = "parse_resume"
    BY <1>3 DEF ParseSucceeds, Running, GoTo, TypeOK
  <2> QED BY <1>0, <1>3, <2>1, ParseSucceedsRow DEF Ended, At, Running, ResumeOf
<1>4. CASE ParseFails(w)
  BY <1>0, <1>4, ParseFailsRow DEF ParseFails, Running, Ended
<1>5. CASE EmbedSucceeds(w)
  BY <1>0, <1>5, EmbedSucceedsRow DEF EmbedSucceeds, WorkerInv, WorkerOK, Ended
<1>6. CASE EmbedFails(w)
  BY <1>0, <1>6, EmbedFailsRow DEF EmbedFails, Running, Ended
<1>7. CASE Crash(w)
  BY <1>0, <1>7, PublishedIsQueued DEF Crash, Pending
<1>8. CASE Retry(w)
  <2> DEFINE m == [message[w] EXCEPT !.retries = @ + 1]
  <2>1. m \in Message /\ m.task = task /\ m.resume = r
    BY <1>0, <1>8, RetryType DEF Retry
  <2> QED BY <1>8, <2>1, PublishedIsQueued DEF Retry, Pending
<1>9. CASE GiveUp(w)
  BY <1>0, <1>9 DEF GiveUp, Ended
<1> QED
  BY <1>0, <1>2, <1>3, <1>4, <1>5, <1>6, <1>7, <1>8, <1>9
     DEF WorkerStep, Fault, Deliver, SendEmbed, Ack, Live

\* A pending task stays pending or ends.
LEMMA PendingStep ==
  ASSUME TypeOK, WorkerInv, [Next]_vars, NEW r \in Resumes, NEW task \in Tasks,
         Pending(task, r)
  PROVE  Pending(task, r)' \/ Ended(task, r)
<1>1. CASE Queued(task, r)
  <2>1. PICK m \in Message : m.task = task /\ m.resume = r /\ queue[m] > 0
    BY <1>1 DEF Queued
  <2> QED BY <2>1, QueueStep, DeliveredIsPending
<1>2. CASE At(task, r, Live)
  <2>1. PICK v \in Workers : Running(v, task, Live) /\ ResumeOf(v) = r
    BY <1>2 DEF At
  <2>2. CASE WorkerStep(v) \/ Fault(v)
    BY <2>1, <2>2, RunningStep DEF Running
  <2>3. ASSUME at'[v] = at[v], message'[v] = message[v] PROVE Pending(task, r)'
    BY <2>1, <2>3 DEF Pending, At, Running, ResumeOf
  <2>4. ASSUME NEW w \in Workers \ {v}, WorkerStep(w) \/ Fault(w)
        PROVE  at'[v] = at[v] /\ message'[v] = message[v]
    BY <2>4 DEF TypeOK, GoTo, WorkerStep, Fault, Deliver, Load, Flush, ParseSucceeds, ParseFails,
         SendEmbed, DeletePoints, UpsertPoints, EmbedSucceeds, EmbedFails, Retry,
         GiveUp, Ack, Raise, Crash, Redeliver
  <2>5. CASE UNCHANGED vars \/ \E q \in Resumes : RequestStep(q)
    BY <2>3, <2>5 DEF vars, RequestStep, SubmitCommit, HandOver, HandOverFails
  <2> QED BY <2>2, <2>3, <2>4, <2>5 DEF Next
<1> QED BY <1>1, <1>2 DEF Pending

\* A task that exists after a step existed before it, or was sent by the step.
Exists(task, r) == Queued(task, r) \/ At(task, r, Steps \ {"idle"})

\* Where a message in the broker comes from.
LEMMA QueueOrigin ==
  ASSUME TypeOK, WorkerInv, [Next]_vars, NEW m \in Message, queue'[m] > 0
  PROVE  \/ queue[m] > 0
         \/ Exists(m.task, m.resume)
         \/ m.task = "parse_resume" /\ \E r \in Resumes : m.resume = r /\ HandOver(r)
         \/ m.task = "embed_resume" /\ At("parse_resume", m.resume, {"parsed"})
<1>1. CASE \E w \in Workers : Deliver(w)
  BY <1>1 DEF Deliver, TypeOK
<1>2. CASE UNCHANGED queue
  BY <1>2
<1>3. ASSUME NEW n \in Message, Publish(n), queue[m] = 0 PROVE m = n
  BY <1>3 DEF Publish, TypeOK
<1>4. ASSUME NEW r \in Resumes, HandOver(r), queue[m] = 0
      PROVE  m.task = "parse_resume" /\ m.resume = r
  BY <1>3, <1>4, NewTaskType DEF HandOver, Tasks, NewTask
<1>5. ASSUME NEW w \in Workers, SendEmbed(w), queue[m] = 0
      PROVE  m.task = "embed_resume" /\ At("parse_resume", m.resume, {"parsed"})
  <2>1. m = NewTask("embed_resume", ResumeOf(w))
    BY <1>3, <1>5, NewTaskType, BusyMessage DEF SendEmbed, Tasks
  <2> QED BY <1>5, <2>1 DEF SendEmbed, NewTask, At, Running, WorkerInv, WorkerOK
<1>6. ASSUME NEW w \in Workers, at[w] # "idle", message[w].task = m.task,
             message[w].resume = m.resume
      PROVE  Exists(m.task, m.resume)
  BY <1>6 DEF Exists, At, Running, ResumeOf, TypeOK
<1>7. ASSUME NEW w \in Workers, Retry(w), queue[m] = 0 PROVE Exists(m.task, m.resume)
  <2>1. at[w] # "idle" /\ message[w] \in Message
    BY <1>7, BusyMessage DEF Retry
  <2>2. m = [message[w] EXCEPT !.retries = @ + 1]
    BY <1>3, <1>7, <2>1, RetryType DEF Retry
  <2>3. m.task = message[w].task /\ m.resume = message[w].resume
    BY <1>7, <2>1, <2>2, RetryType DEF Retry
  <2> QED BY <1>6, <2>1, <2>3
<1>8. ASSUME NEW w \in Workers, Crash(w) \/ Redeliver(w), queue[m] = 0
      PROVE  Exists(m.task, m.resume)
  BY <1>3, <1>6, <1>8, BusyMessage DEF Crash, Redeliver
<1> QED
  BY <1>1, <1>2, <1>4, <1>5, <1>7, <1>8
     DEF Next, vars, RequestStep, WorkerStep, Fault, SubmitCommit, HandOverFails, Load,
         Flush, ParseSucceeds, ParseFails, DeletePoints, UpsertPoints, EmbedSucceeds,
         EmbedFails, GiveUp, Ack, Raise, TypeOK

\* The same for a task in the broker or on a worker.
LEMMA TaskOrigin ==
  ASSUME TypeOK, WorkerInv, [Next]_vars, NEW task \in Tasks, NEW r \in Resumes,
         Exists(task, r)'
  PROVE  \/ Exists(task, r)
         \/ task = "parse_resume" /\ HandOver(r)
         \/ task = "embed_resume" /\ At("parse_resume", r, {"parsed"})
<1>1. CASE Queued(task, r)'
  <2>1. PICK m \in Message : m.task = task /\ m.resume = r /\ queue'[m] > 0
    BY <1>1 DEF Queued
  <2> QED BY <2>1, QueueOrigin DEF Exists, Queued
<1>2. CASE At(task, r, Steps \ {"idle"})'
  <2>1. PICK v \in Workers : /\ at'[v] \in Steps \ {"idle"}
                             /\ message'[v].task = task /\ message'[v].resume = r
    BY <1>2 DEF At, Running, ResumeOf
  <2>2. CASE Deliver(v)
    <3>1. PICK m \in Message : queue[m] > 0 /\ message'[v] = m
      BY <2>2 DEF Deliver, TypeOK
    <3> QED BY <2>1, <3>1 DEF Exists, Queued
  <2>3. CASE at[v] # "idle" /\ message'[v] = message[v]
    BY <2>1, <2>3 DEF Exists, At, Running, ResumeOf, TypeOK
  <2>4. ASSUME NEW w \in Workers, WorkerStep(w) \/ Fault(w), ~Deliver(v)
        PROVE  at[v] # "idle" /\ message'[v] = message[v]
    <3> USE DEF TypeOK, GoTo, WorkerStep, Fault, Load, Flush, ParseSucceeds, ParseFails,
                SendEmbed, DeletePoints, UpsertPoints, EmbedSucceeds, EmbedFails, Retry,
                GiveUp, Ack, Raise, Crash, Redeliver
    <3>1. CASE w = v
      BY <2>1, <2>4, <3>1 DEF Running
    <3>2. CASE w # v
      BY <2>1, <2>4, <3>2 DEF Deliver
    <3> QED BY <3>1, <3>2
  <2>5. CASE UNCHANGED vars \/ \E q \in Resumes : RequestStep(q)
    BY <2>1, <2>3, <2>5 DEF vars, RequestStep, SubmitCommit, HandOver, HandOverFails
  <2> QED BY <2>2, <2>3, <2>4, <2>5 DEF Next
<1> QED BY <1>1, <1>2 DEF Exists

\* What a step may do to the committed row and to the index of one resume.
LEMMA RowStep ==
  ASSUME TypeOK, WorkerInv, [Next]_vars, NEW r \in Resumes
  PROVE  /\ \/ row'[r].status = row[r].status
            \/ request[r] = "open" /\ request'[r] = "committed" /\ row'[r] = Lifecycle!Uploaded
            \/ row'[r].status = "parsed" /\ At("parse_resume", r, {"parsed"})'
            \/ row'[r].status = "parse_failed"
         /\ \/ row'[r].embedding_status = row[r].embedding_status
            \/ request[r] = "open" /\ request'[r] = "committed" /\ row'[r] = Lifecycle!Uploaded
            \/ row'[r].embedding_status = "embedded" /\ points'[r] = Chunks
            \/ row'[r].embedding_status = "embed_failed"
         /\ \/ points'[r] = points[r]
            \/ points'[r] = Chunks
            \/ Pending("embed_resume", r)'
            \/ row'[r].embedding_status = "embed_failed"
<1>1. CASE UNCHANGED <<row, points>>
  BY <1>1
<1>2. ASSUME NEW q \in Resumes, SubmitCommit(q) PROVE UNCHANGED points /\
        (row'[r] = row[r] \/ (request[r] = "open" /\ request'[r] = "committed"
                              /\ row'[r] = Lifecycle!Uploaded))
  BY <1>2 DEF SubmitCommit, TypeOK
<1>3. ASSUME NEW w \in Workers, ParseSucceeds(w), ResumeOf(w) = r
      PROVE  At("parse_resume", r, {"parsed"})'
  BY <1>3 DEF ParseSucceeds, Running, GoTo, TypeOK, At, ResumeOf
<1>4. ASSUME NEW w \in Workers, DeletePoints(w) PROVE UNCHANGED row /\
        (points'[r] = points[r] \/ Pending("embed_resume", r)')
  BY <1>4 DEF DeletePoints, Running, GoTo, TypeOK, Pending, At, ResumeOf, Live, Steps
<1>5. ASSUME NEW w \in Workers, UpsertPoints(w) PROVE UNCHANGED row /\
        (points'[r] = points[r] \/ points'[r] = Chunks)
  BY <1>5 DEF UpsertPoints, TypeOK
<1>6. ASSUME NEW w \in Workers, ParseSucceeds(w) \/ ParseFails(w) \/ EmbedSucceeds(w)
      PROVE  UNCHANGED points
  BY <1>6 DEF ParseSucceeds, ParseFails, EmbedSucceeds
<1>7. CASE \E w \in Workers : ParseSucceeds(w)
  BY <1>3, <1>6, <1>7, ParseSucceedsRow
<1>8. CASE \E w \in Workers : ParseFails(w)
  BY <1>6, <1>8, ParseFailsRow
<1>9. CASE \E w \in Workers : EmbedSucceeds(w)
  BY <1>6, <1>9, EmbedSucceedsRow
<1>10. CASE \E w \in Workers : EmbedFails(w)
  BY <1>10, EmbedFailsRow
<1> QED
  BY <1>1, <1>2, <1>4, <1>5, <1>7, <1>8, <1>9, <1>10
     DEF Next, vars, RequestStep, WorkerStep, Fault, HandOver, HandOverFails, Deliver, Load,
         Flush, SendEmbed, Retry, GiveUp, Ack, Raise, Crash, Redeliver

\* A worker between the commit of a parse and its send_task sends embed_resume,
\* or leaves the parse pending.
LEMMA ParsedStep ==
  ASSUME TypeOK, WorkerInv, [Next]_vars, NEW r \in Resumes,
         At("parse_resume", r, {"parsed"})
  PROVE  \/ At("parse_resume", r, {"parsed"})'
         \/ Pending("embed_resume", r)'
         \/ Pending("parse_resume", r)'
<1>1. PICK v \in Workers : Running(v, "parse_resume", {"parsed"}) /\ ResumeOf(v) = r
  BY DEF At
<1>2. at[v] = "parsed" /\ message[v] \in Message /\ message[v].task = "parse_resume"
      /\ message[v].resume = r
  BY <1>1, BusyMessage DEF Running, ResumeOf
<1>3. CASE SendEmbed(v)
  BY <1>1, <1>3, PublishedIsQueued, NewTaskType DEF SendEmbed, Pending, NewTask, Tasks
<1>4. CASE Raise(v)
  BY <1>2, <1>4 DEF Raise, GoTo, TypeOK, Pending, At, Running, ResumeOf, Live, Steps
<1>5. CASE Crash(v)
  BY <1>2, <1>5, PublishedIsQueued DEF Crash, Pending
<1>6. ASSUME at'[v] = at[v], message'[v] = message[v]
      PROVE  At("parse_resume", r, {"parsed"})'
  BY <1>2, <1>6 DEF At, Running, ResumeOf
<1>7. CASE Redeliver(v) \/ UNCHANGED vars \/ \E q \in Resumes : RequestStep(q)
  BY <1>6, <1>7 DEF Redeliver, vars, RequestStep, SubmitCommit, HandOver, HandOverFails
<1>8. ASSUME NEW w \in Workers \ {v}, WorkerStep(w) \/ Fault(w)
      PROVE  at'[v] = at[v] /\ message'[v] = message[v]
  BY <1>8 DEF TypeOK, GoTo, WorkerStep, Fault, Deliver, Load, Flush, ParseSucceeds, ParseFails,
       SendEmbed, DeletePoints, UpsertPoints, EmbedSucceeds, EmbedFails, Retry,
       GiveUp, Ack, Raise, Crash, Redeliver
<1>9. CASE WorkerStep(v) \/ Fault(v)
  BY <1>2, <1>3, <1>4, <1>5, <1>7, <1>9
     DEF WorkerStep, Fault, Deliver, Load, Flush, ParseSucceeds, ParseFails,
         Running, DeletePoints, UpsertPoints, EmbedSucceeds, EmbedFails, Retry, GiveUp, Ack
<1> QED BY <1>6, <1>7, <1>8, <1>9 DEF Next

\* A request goes from open over its commit to the answer, and not back.
LEMMA RequestMoves ==
  ASSUME TypeOK, [Next]_vars, NEW r \in Resumes
  PROVE  /\ request'[r] = "open" => request[r] = "open"
         /\ request'[r] = "accepted" => request[r] = "accepted" \/ HandOver(r)
         /\ request[r] = "open" => request'[r] = "open" \/ SubmitCommit(r)
  BY DEF TypeOK, Next, vars, RequestStep, WorkerStep, Fault, SubmitCommit, HandOver,
         HandOverFails, Deliver, Load, Flush, ParseSucceeds, ParseFails, SendEmbed,
         DeletePoints, UpsertPoints, EmbedSucceeds, EmbedFails, Retry, GiveUp, Ack, Raise,
         Crash, Redeliver

\* Who writes a row: its own request, or a worker busy with it.
LEMMA RowWriters ==
  ASSUME TypeOK, WorkerInv, [Next]_vars, NEW r \in Resumes, request'[r] = "open",
         \A w \in Workers : at[w] # "idle" => ResumeOf(w) # r
  PROVE  row'[r] = row[r]
<1>1. ASSUME NEW q \in Resumes, SubmitCommit(q) PROVE row'[r] = row[r]
  BY <1>1 DEF SubmitCommit, TypeOK
<1>2. ASSUME NEW w \in Workers, ParseSucceeds(w) PROVE row'[r] = row[r]
  BY <1>2, ParseSucceedsRow DEF ParseSucceeds, Running
<1>3. ASSUME NEW w \in Workers, ParseFails(w) PROVE row'[r] = row[r]
  BY <1>3, ParseFailsRow DEF ParseFails, Running
<1>4. ASSUME NEW w \in Workers, EmbedSucceeds(w) PROVE row'[r] = row[r]
  BY <1>4, EmbedSucceedsRow DEF EmbedSucceeds
<1>5. ASSUME NEW w \in Workers, EmbedFails(w) PROVE row'[r] = row[r]
  BY <1>5, EmbedFailsRow DEF EmbedFails, Running
<1> QED
  BY <1>1, <1>2, <1>3, <1>4, <1>5
     DEF Next, vars, RequestStep, WorkerStep, Fault, HandOver, HandOverFails, Deliver, Load,
         Flush, SendEmbed, DeletePoints, UpsertPoints, Retry, GiveUp, Ack, Raise, Crash,
         Redeliver

\* Every step keeps what queue, row and history imply together.
LEMMA HistoryInvStep ==
  ASSUME IInv, [Next]_vars
  PROVE  HistoryInv'
<1> USE DEF IInv
<1>1. everParsed \subseteq everParsed'
  BY DEF Next, vars, RequestStep, WorkerStep, Fault, SubmitCommit, HandOver, HandOverFails,
         Deliver, Load, Flush, ParseSucceeds, ParseFails, SendEmbed, DeletePoints,
         UpsertPoints, EmbedSucceeds, EmbedFails, Retry, GiveUp, Ack, Raise, Crash, Redeliver
<1> SUFFICES ASSUME NEW r \in Resumes
             PROVE  /\ request'[r] = "open" => row'[r] = Lifecycle!Absent
                    /\ request'[r] # "open" => row'[r].status # "absent"
                    /\ Exists("embed_resume", r)' \/ At("parse_resume", r, {"parsed"})'
                         => r \in everParsed'
  BY DEF HistoryInv, Exists
<1>2. ASSUME request'[r] = "open" PROVE row'[r] = Lifecycle!Absent
  <2>1. request[r] = "open"
    BY <1>2, RequestMoves
  <2>2. row[r].status = "absent" /\ row[r] = Lifecycle!Absent
    BY <2>1 DEF HistoryInv, Lifecycle!Absent
  <2>3. ASSUME NEW w \in Workers, at[w] # "idle" PROVE ResumeOf(w) # r
    <3>1. message[w].task \in Tasks /\ at[w] \in Steps \ {"idle"}
      BY <2>3, BusyMessage DEF TypeOK
    <3> QED BY <2>2, <3>1 DEF TasksFindTheirRow, At, Running
  <2>4. row'[r] = row[r]
    BY <1>2, <2>2, <2>3, RowWriters
  <2> QED BY <2>2, <2>4
<1>3. ASSUME At("parse_resume", r, {"parsed"})' PROVE r \in everParsed'
  <2>1. CASE At("parse_resume", r, {"parsed"})
    BY <1>1, <2>1 DEF HistoryInv
  <2>2. CASE \E w \in Workers : ParseSucceeds(w) /\ ResumeOf(w) = r
    BY <2>2 DEF ParseSucceeds
  <2>3. PICK v \in Workers : /\ at'[v] = "parsed"
                             /\ message'[v].task = "parse_resume" /\ ResumeOf(v)' = r
    BY <1>3 DEF At, Running
  <2>4. CASE at[v] = "parsed" /\ message'[v] = message[v]
    BY <2>1, <2>3, <2>4 DEF At, Running, ResumeOf
  <2>5. CASE UNCHANGED vars \/ \E q \in Resumes : RequestStep(q)
    BY <2>3, <2>4, <2>5 DEF vars, RequestStep, SubmitCommit, HandOver, HandOverFails
  <2>6. ASSUME NEW w \in Workers, WorkerStep(w) \/ Fault(w)
        PROVE  \/ at[v] = "parsed" /\ message'[v] = message[v]
               \/ ParseSucceeds(v) /\ ResumeOf(v) = r
    <3> USE DEF TypeOK, GoTo, WorkerStep, Fault, Deliver, Load, Flush, ParseFails, SendEmbed,
                DeletePoints, UpsertPoints, EmbedSucceeds, EmbedFails, Retry, GiveUp, Ack,
                Raise, Crash, Redeliver
    <3>1. CASE w # v
      BY <2>3, <2>6, <3>1 DEF ParseSucceeds
    <3>2. CASE w = v /\ ~ParseSucceeds(v)
      BY <2>3, <2>6, <3>2
    <3>3. CASE ParseSucceeds(v)
      BY <2>3, <3>3 DEF ParseSucceeds, ResumeOf
    <3> QED BY <3>1, <3>2, <3>3
  <2> QED BY <2>1, <2>2, <2>4, <2>5, <2>6 DEF Next
<1>4. ASSUME Exists("embed_resume", r)' PROVE r \in everParsed'
  <2>1. Exists("embed_resume", r) \/ At("parse_resume", r, {"parsed"})
    BY <1>4, TaskOrigin DEF Tasks
  <2> QED BY <1>1, <2>1 DEF HistoryInv, Exists
<1>5. ASSUME request'[r] # "open" PROVE row'[r].status # "absent"
  <2>1. CASE request[r] = "open"
    BY <1>5, <2>1, RequestMoves DEF SubmitCommit, TypeOK, Lifecycle!Uploaded,
                                         Lifecycle!Absent
  <2>2. CASE request[r] # "open"
    BY <2>2, RowStep DEF HistoryInv, Lifecycle!Uploaded, Lifecycle!Absent
  <2> QED BY <2>1, <2>2
<1> QED BY <1>2, <1>3, <1>4, <1>5

\* A task given up stays recorded.
LEMMA AbandonedGrows ==
  ASSUME [Next]_vars
  PROVE  abandoned \subseteq abandoned'
  BY DEF Next, vars, RequestStep, WorkerStep, Fault, SubmitCommit, HandOver, HandOverFails,
         Deliver, Load, Flush, ParseSucceeds, ParseFails, SendEmbed, DeletePoints,
         UpsertPoints, EmbedSucceeds, EmbedFails, Retry, GiveUp, Ack, Raise, Crash, Redeliver

\* No step leaves a task without its row.
LEMMA TasksFindTheirRowStep ==
  ASSUME IInv, [Next]_vars
  PROVE  TasksFindTheirRow'
<1> USE DEF IInv
<1> SUFFICES ASSUME NEW r \in Resumes, NEW task \in Tasks, Exists(task, r)'
             PROVE  row'[r].status # "absent"
  BY DEF TasksFindTheirRow, Exists
<1>1. row[r].status # "absent"
  <2>1. CASE Exists(task, r)
    BY <2>1 DEF TasksFindTheirRow, Exists
  <2>2. CASE HandOver(r)
    BY <2>2 DEF HandOver, HistoryInv
  <2>3. CASE At("parse_resume", r, {"parsed"})
    BY <2>3 DEF TasksFindTheirRow, At, Running, Steps, Tasks
  <2> QED BY <2>1, <2>2, <2>3, TaskOrigin
<1> QED BY <1>1, RowStep DEF Lifecycle!Uploaded, Lifecycle!Absent

\* An accepted submission keeps its parse, to come, done or given up.
LEMMA AcceptedStep ==
  ASSUME IInv, [Next]_vars
  PROVE  AcceptedIsHandedToParsing'
<1> USE DEF IInv
<1> SUFFICES ASSUME NEW r \in Resumes, request'[r] = "accepted", row'[r].status = "uploaded"
             PROVE  Pending("parse_resume", r)' \/ <<"parse_resume", r>> \in abandoned'
  BY DEF AcceptedIsHandedToParsing
<1>1. CASE HandOver(r)
  <2>1. NewTask("parse_resume", r) \in Message
    BY NewTaskType DEF Tasks
  <2> QED BY <1>1, <2>1, PublishedIsQueued DEF HandOver, NewTask, Pending
<1>2. CASE request[r] = "accepted"
  <2>1. row[r].status = "uploaded"
    BY <1>2, RowStep
  <2>2. Pending("parse_resume", r) \/ <<"parse_resume", r>> \in abandoned
    BY <1>2, <2>1 DEF AcceptedIsHandedToParsing
  <2>3. CASE Pending("parse_resume", r)
    <3>1. Pending("parse_resume", r)' \/ Ended("parse_resume", r)
      BY <2>3, PendingStep DEF Tasks
    <3> QED BY <3>1 DEF Ended
  <2> QED BY <2>2, <2>3, AbandonedGrows
<1> QED BY <1>1, <1>2, RequestMoves

\* A committed parse keeps its embedding, to come, done or given up.
LEMMA ParsedHandOverStep ==
  ASSUME IInv, [Next]_vars
  PROVE  ParsedIsHandedToEmbedding'
<1> USE DEF IInv
<1> SUFFICES ASSUME NEW r \in Resumes, row'[r].status = "parsed",
                    row'[r].embedding_status = "not_embedded",
                    ~At("parse_resume", r, {"parsed"})'
             PROVE  \/ Pending("embed_resume", r)' \/ Pending("parse_resume", r)'
                    \/ \E task \in Tasks : <<task, r>> \in abandoned'
  BY DEF ParsedIsHandedToEmbedding, Abandoned
<1>1. row[r].status = "parsed" /\ row[r].embedding_status = "not_embedded"
  BY RowStep DEF Lifecycle!Uploaded, Lifecycle!Absent
<1>2. \/ Pending("embed_resume", r) \/ Pending("parse_resume", r)
      \/ At("parse_resume", r, {"parsed"}) \/ Abandoned(r)
  BY <1>1 DEF ParsedIsHandedToEmbedding
<1>3. CASE Pending("embed_resume", r)
  <2>1. Pending("embed_resume", r)' \/ Ended("embed_resume", r)
    BY <1>3, PendingStep DEF Tasks
  <2> QED BY <2>1 DEF Ended, Tasks
<1>4. CASE Pending("parse_resume", r)
  <2>1. Pending("parse_resume", r)' \/ Ended("parse_resume", r)
    BY <1>4, PendingStep DEF Tasks
  <2> QED BY <2>1 DEF Ended, Tasks
<1>5. CASE At("parse_resume", r, {"parsed"})
  BY <1>5, ParsedStep
<1>6. CASE Abandoned(r)
  BY <1>6, AbandonedGrows DEF Abandoned
<1> QED BY <1>2, <1>3, <1>4, <1>5, <1>6

\* An embedded resume keeps its index unless another embed_resume interferes.
LEMMA EmbeddedStep ==
  ASSUME IInv, [Next]_vars
  PROVE  EmbeddedMeansIndexed'
<1> USE DEF IInv
<1> SUFFICES ASSUME NEW r \in Resumes, row'[r].embedding_status = "embedded",
                    points'[r] # Chunks, ~Pending("embed_resume", r)'
             PROVE  <<"embed_resume", r>> \in abandoned'
  BY DEF EmbeddedMeansIndexed
<1>1. row[r].embedding_status = "embedded" /\ points[r] # Chunks
  BY RowStep DEF Lifecycle!Uploaded, Lifecycle!Absent
<1>2. CASE Pending("embed_resume", r)
  <2>1. Ended("embed_resume", r)
    BY <1>2, PendingStep DEF Tasks
  <2> QED BY <2>1 DEF Ended
<1> QED BY <1>1, <1>2, AbandonedGrows DEF EmbeddedMeansIndexed

\* The inductive invariant holds at first.
LEMMA InitHolds == Init => IInv
<1> SUFFICES ASSUME Init PROVE IInv
  OBVIOUS
<1>1. \A task, r, steps : ~Queued(task, r) /\ (At(task, r, steps) => "idle" \in steps)
  BY DEF Init, Queued, At, Running
<1>2. \A r \in Resumes : /\ row[r] = Lifecycle!Absent /\ row[r].status = "absent"
                         /\ row[r].embedding_status = "not_embedded" /\ request[r] = "open"
  BY DEF Init, Lifecycle!Absent
<1>3. HistoryInv
  BY <1>1, <1>2 DEF HistoryInv
<1>4. TasksFindTheirRow
  BY <1>1 DEF TasksFindTheirRow
<1>5. AcceptedIsHandedToParsing /\ ParsedIsHandedToEmbedding /\ EmbeddedMeansIndexed
  BY <1>2 DEF AcceptedIsHandedToParsing, ParsedIsHandedToEmbedding, EmbeddedMeansIndexed
<1> QED BY <1>3, <1>4, <1>5, InitWorker DEF IInv

\* The inductive invariant is kept by every step.
LEMMA StepHolds == IInv /\ [Next]_vars => IInv'
<1> SUFFICES ASSUME IInv, [Next]_vars PROVE IInv'
  OBVIOUS
<1>1. TypeOK' /\ WorkerInv'
  BY TypeStep, WorkerInvStep DEF IInv
<1> QED BY <1>1, HistoryInvStep, TasksFindTheirRowStep, AcceptedStep,
           ParsedHandOverStep, EmbeddedStep DEF IInv

\* A worker that writes an embedding outcome works on a resume once parsed; a
\* busy worker works on a resume whose row is there.
LEMMA BusyRow ==
  ASSUME IInv, NEW w \in Workers, at[w] # "idle"
  PROVE  /\ row[ResumeOf(w)].status # "absent"
         /\ message[w].task = "embed_resume" => ResumeOf(w) \in everParsed
<1>1. /\ message[w].task \in Tasks /\ ResumeOf(w) \in Resumes
      /\ at[w] \in Steps \ {"idle"}
  BY BusyMessage DEF IInv, TypeOK
<1>2. At(message[w].task, ResumeOf(w), Steps \ {"idle"})
  BY <1>1 DEF At, Running
<1> QED BY <1>1, <1>2 DEF IInv, TasksFindTheirRow, HistoryInv

\* Every step is a step of the lifecycle or leaves the committed columns alone.
LEMMA LifecycleStep ==
  ASSUME IInv, [Next]_vars
  PROVE  [Lifecycle!Next]_(Lifecycle!vars)
<1> USE DEF IInv
<1>1. ASSUME NEW r \in Resumes, SubmitCommit(r) PROVE Lifecycle!Next
  BY <1>1 DEF SubmitCommit, HistoryInv, Lifecycle!Next, Lifecycle!Submit
<1>2. ASSUME NEW w \in Workers, ParseSucceeds(w) PROVE Lifecycle!Next
  <2> DEFINE r == ResumeOf(w)
  <2>1. r \in Resumes /\ row[r].status # "absent" /\ snapshot[w] \in Snapshot
    BY <1>2, BusyMessage, BusyRow
       DEF ParseSucceeds, Running, WorkerInv, WorkerOK, Writing
  <2>2. PICK extracted \in Lifecycle!Data :
          \E data \in NetChange(snapshot[w].parsed_data, extracted, row[r].parsed_data),
             error \in NetChange(snapshot[w].error, "null", row[r].parse_error) :
            row' = [row EXCEPT ![r] = Lifecycle!ParseOutcome(row[r], "parsed", data, error)]
    BY <1>2 DEF ParseSucceeds
  <2>3. PICK data \in NetChange(snapshot[w].parsed_data, extracted, row[r].parsed_data),
             error \in NetChange(snapshot[w].error, "null", row[r].parse_error) :
          row' = [row EXCEPT ![r] = Lifecycle!ParseOutcome(row[r], "parsed", data, error)]
    BY <2>2
  <2>4. data \in Lifecycle!Data /\ error \in Lifecycle!Error
    BY <2>1, NetChangeType DEF TypeOK, Lifecycle!Row, Lifecycle!Error, Snapshot
  <2>5. everParsed' = everParsed \cup {r}
    BY <1>2 DEF ParseSucceeds
  <2> QED BY <2>1, <2>3, <2>4, <2>5 DEF Lifecycle!Next, Lifecycle!Parse
<1>3. ASSUME NEW w \in Workers, ParseFails(w) PROVE Lifecycle!Next
  <2> DEFINE r == ResumeOf(w)
  <2>1. r \in Resumes /\ row[r].status # "absent" /\ snapshot[w] \in Snapshot
    BY <1>3, BusyMessage, BusyRow DEF ParseFails, Running, WorkerInv, WorkerOK, Writing
  <2>2. PICK error \in NetChange(snapshot[w].error, "text", row[r].parse_error) :
          row' = [row EXCEPT ![r] =
                    Lifecycle!ParseOutcome(row[r], "parse_failed", row[r].parsed_data, error)]
    BY <1>3 DEF ParseFails
  <2>3. error \in Lifecycle!Error /\ row[r].parsed_data \in Lifecycle!Data
    BY <2>1, NetChangeType DEF TypeOK, Lifecycle!Row, Lifecycle!Error, Snapshot
  <2>4. everParsed' = everParsed
    BY <1>3 DEF ParseFails
  <2> QED BY <2>1, <2>2, <2>3, <2>4 DEF Lifecycle!Next, Lifecycle!Parse
<1>4. ASSUME NEW w \in Workers, EmbedSucceeds(w) PROVE Lifecycle!Next
  <2> DEFINE r == ResumeOf(w)
  <2>1. r \in Resumes /\ r \in everParsed /\ snapshot[w] \in Snapshot
    BY <1>4, BusyMessage, BusyRow DEF EmbedSucceeds, WorkerInv, WorkerOK, Writing
  <2>2. PICK error \in NetChange(snapshot[w].error, "null", row[r].embedding_error) :
          row' = [row EXCEPT ![r] = Lifecycle!EmbedOutcome(row[r], "embedded", error)]
    BY <1>4 DEF EmbedSucceeds
  <2>3. error \in Lifecycle!Error
    BY <2>1, NetChangeType DEF TypeOK, Lifecycle!Row, Lifecycle!Error, Snapshot
  <2>4. everParsed' = everParsed
    BY <1>4 DEF EmbedSucceeds
  <2> QED BY <2>1, <2>2, <2>3, <2>4 DEF Lifecycle!Next, Lifecycle!Embed
<1>5. ASSUME NEW w \in Workers, EmbedFails(w) PROVE Lifecycle!Next
  <2> DEFINE r == ResumeOf(w)
  <2>1. r \in Resumes /\ r \in everParsed /\ snapshot[w] \in Snapshot
    BY <1>5, BusyMessage, BusyRow DEF EmbedFails, Running, WorkerInv, WorkerOK, Writing
  <2>2. PICK error \in NetChange(snapshot[w].error, "text", row[r].embedding_error) :
          row' = [row EXCEPT ![r] = Lifecycle!EmbedOutcome(row[r], "embed_failed", error)]
    BY <1>5 DEF EmbedFails
  <2>3. error \in Lifecycle!Error
    BY <2>1, NetChangeType DEF TypeOK, Lifecycle!Row, Lifecycle!Error, Snapshot
  <2>4. everParsed' = everParsed
    BY <1>5 DEF EmbedFails
  <2> QED BY <2>1, <2>2, <2>3, <2>4 DEF Lifecycle!Next, Lifecycle!Embed
<1>6. CASE UNCHANGED <<row, everParsed>>
  BY <1>6 DEF Lifecycle!vars
<1> QED
  BY <1>1, <1>2, <1>3, <1>4, <1>5, <1>6
     DEF Next, vars, RequestStep, WorkerStep, Fault, HandOver, HandOverFails, Deliver, Load,
         Flush, SendEmbed, DeletePoints, UpsertPoints, Retry, GiveUp, Ack, Raise, Crash,
         Redeliver

(***************************************************************************)
(* The theorems.                                                           *)
(***************************************************************************)
\* IInv is inductive, so it holds in every reachable state: in particular the
\* row lock, the index and the messages are where WorkerInv and HistoryInv say.
THEOREM Safety == Spec => []IInv
  BY InitHolds, StepHolds, PTL DEF Spec

\* No variable leaves its type, the queue counters stay natural numbers.
THEOREM TypeCorrect == Spec => []TypeOK
<1>1. IInv => TypeOK
  BY DEF IInv
<1> QED BY <1>1, Safety, PTL

\* send_task comes after the commit, so no worker ever looks for a resume that
\* is not there, whatever retries and redeliveries do.
THEOREM NoTaskWithoutRow == Spec => []TasksFindTheirRow
<1>1. IInv => TasksFindTheirRow
  BY DEF IInv
<1> QED BY <1>1, Safety, PTL

\* A submission answered with 202 has its parse to come, done, or given up.
THEOREM AcceptedNotLost == Spec => []AcceptedIsHandedToParsing
<1>1. IInv => AcceptedIsHandedToParsing
  BY DEF IInv
<1> QED BY <1>1, Safety, PTL

\* A committed parse has its embedding to come, done, or a task given up.
THEOREM ParsedNotLost == Spec => []ParsedIsHandedToEmbedding
<1>1. IInv => ParsedIsHandedToEmbedding
  BY DEF IInv
<1> QED BY <1>1, Safety, PTL

\* The status embedded and an incomplete index go together only while another
\* embed_resume is under way or after one was given up.
THEOREM EmbeddedIndexed == Spec => []EmbeddedMeansIndexed
<1>1. IInv => EmbeddedMeansIndexed
  BY DEF IInv
<1> QED BY <1>1, Safety, PTL

\* The pipeline implements ResumeLifecycle: seen from the committed columns,
\* every step of it is a submission, a parse outcome, an embedding outcome of a
\* resume once parsed, or nothing.
THEOREM Refinement == Spec => ImplementsLifecycle
<1>1. Init => Lifecycle!Init
  BY DEF Init, Lifecycle!Init
<1>2. IInv /\ [Next]_vars => [Lifecycle!Next]_(Lifecycle!vars)
  BY LifecycleStep
<1> QED BY <1>1, <1>2, Safety, PTL DEF Spec, ImplementsLifecycle, Lifecycle!Spec

(***************************************************************************)
(* What the row lock guards.                                               *)
(***************************************************************************)
\* A step that ends the session frees the lock of its worker and no other.
LEMMA SessionEnds ==
  ASSUME IInv, LockedWhileWriting, NEW w \in Workers, EndSession(w),
         NEW step \in Steps \ Writing, GoTo(w, step),
         \A v \in Workers \ {w} : message'[v] = message[v]
  PROVE  LockedWhileWriting'
<1> SUFFICES ASSUME NEW r \in Resumes, NEW v \in Workers
             PROVE  lock'[r] = v <=> at'[v] \in Writing /\ message'[v].resume = r
  BY DEF LockedWhileWriting, ResumeOf
<1>1. lock'[r] = IF lock[r] = w THEN NoWorker ELSE lock[r]
  BY DEF EndSession
<1>2. at'[v] = IF v = w THEN step ELSE at[v]
  BY DEF GoTo, IInv, TypeOK
<1>3. CASE v = w
  BY <1>1, <1>2, <1>3
<1>4. CASE v # w
  BY <1>1, <1>2, <1>4 DEF LockedWhileWriting, ResumeOf
<1>5. QED
  BY <1>3, <1>4

\* A step that neither takes nor frees a lock stays on its side of the writing.
LEMMA LockUntouched ==
  ASSUME IInv, LockedWhileWriting, NEW w \in Workers, UNCHANGED lock,
         NEW step \in Steps, GoTo(w, step), at[w] \in Writing <=> step \in Writing,
         \A v \in Workers : at[v] \in Writing => message'[v] = message[v]
  PROVE  LockedWhileWriting'
BY DEF LockedWhileWriting, ResumeOf, GoTo, IInv, TypeOK

\* The row lock is held exactly while its worker writes: one case per kind of
\* step.
LEMMA LockStep ==
  ASSUME IInv, LockedWhileWriting, [Next]_vars
  PROVE  LockedWhileWriting'
<1> USE DEF Steps, Writing
<1>1. ASSUME NEW r \in Resumes, RequestStep(r) PROVE LockedWhileWriting'
  BY <1>1 DEF RequestStep, SubmitCommit, HandOver, HandOverFails, LockedWhileWriting, ResumeOf
<1>2. ASSUME NEW w \in Workers, Redeliver(w) PROVE LockedWhileWriting'
  BY <1>2 DEF Redeliver, LockedWhileWriting, ResumeOf
<1>3. ASSUME NEW w \in Workers, Flush(w) PROVE LockedWhileWriting'
  <2>1. ResumeOf(w) \in Resumes
    BY <1>3, BusyMessage DEF Flush, IInv
  <2>2. lock[ResumeOf(w)] = NoWorker /\ lock' = [lock EXCEPT ![ResumeOf(w)] = w]
        /\ at[w] = "loaded" /\ at' = [at EXCEPT ![w] = "flushed"] /\ message' = message
    BY <1>3 DEF Flush, GoTo
  <2>3. QED
    BY <2>1, <2>2 DEF LockedWhileWriting, ResumeOf, IInv, TypeOK
<1>4. ASSUME NEW w \in Workers,
             Deliver(w) \/ Load(w) \/ SendEmbed(w) \/ DeletePoints(w) \/ UpsertPoints(w)
             \/ Retry(w) \/ GiveUp(w) \/ Ack(w)
      PROVE  LockedWhileWriting'
  <2>1. UNCHANGED lock /\ \A v \in Workers : at[v] \in Writing => message'[v] = message[v]
    BY <1>4 DEF Deliver, Load, SendEmbed, DeletePoints, UpsertPoints, Retry, GiveUp, Ack,
       Running, IInv, TypeOK
  <2>2. PICK step \in Steps : GoTo(w, step) /\ (at[w] \in Writing <=> step \in Writing)
    BY <1>4 DEF Deliver, Load, SendEmbed, DeletePoints, UpsertPoints, Retry, GiveUp, Ack,
       Running
  <2>3. QED
    BY <2>1, <2>2, LockUntouched
<1>5. ASSUME NEW w \in Workers,
             ParseSucceeds(w) \/ ParseFails(w) \/ EmbedSucceeds(w) \/ EmbedFails(w)
             \/ Raise(w) \/ Crash(w)
      PROVE  LockedWhileWriting'
  <2>1. EndSession(w) /\ \A v \in Workers \ {w} : message'[v] = message[v]
    BY <1>5 DEF ParseSucceeds, ParseFails, EmbedSucceeds, EmbedFails, Raise, Crash, IInv, TypeOK
  <2>2. PICK step \in Steps \ Writing : GoTo(w, step)
    BY <1>5 DEF ParseSucceeds, ParseFails, EmbedSucceeds, EmbedFails, Raise, Crash
  <2>3. QED
    BY <2>1, <2>2, SessionEnds
<1>6. CASE UNCHANGED vars
  BY <1>6 DEF vars, LockedWhileWriting, ResumeOf
<1>7. QED
  BY <1>1, <1>2, <1>3, <1>4, <1>5, <1>6 DEF Next, WorkerStep, Fault

\* No task leaves its lock behind, and no two workers write one row, or replace
\* the points of one resume, at the same time.
THEOREM LocksExact == Spec => []LockedWhileWriting
<1>1. Init => LockedWhileWriting
  BY DEF Init, LockedWhileWriting, Writing
<1>2. QED
  BY <1>1, LockStep, Safety, PTL DEF Spec

\* Whoever changes a row or its points holds the lock, and a commit frees it.
LEMMA GuardedStep ==
  ASSUME IInv, Next, NEW r \in Resumes
  PROVE  /\ row'[r] # row[r] =>
              request[r] = "open" \/ (lock[r] \in Workers /\ lock'[r] = NoWorker)
         /\ points'[r] # points[r] => lock[r] \in Workers
<1> USE DEF IInv, TypeOK
<1>1. ASSUME NEW q \in Resumes, RequestStep(q)
      PROVE  /\ row'[r] # row[r] => request[r] = "open"
             /\ points' = points
  BY <1>1 DEF RequestStep, SubmitCommit, HandOver, HandOverFails
<1>2. ASSUME NEW w \in Workers, DeletePoints(w) \/ UpsertPoints(w)
      PROVE  row' = row /\ (points'[r] # points[r] => lock[r] \in Workers)
  <2>1. lock[ResumeOf(w)] = w /\ ResumeOf(w) \in Resumes
    BY <1>2, BusyMessage DEF DeletePoints, UpsertPoints, Running, WorkerInv, WorkerOK, Writing
  <2>2. QED
    BY <1>2, <2>1 DEF DeletePoints, UpsertPoints
<1>3. ASSUME NEW w \in Workers,
             ParseSucceeds(w) \/ ParseFails(w) \/ EmbedSucceeds(w) \/ EmbedFails(w)
      PROVE  /\ row'[r] # row[r] => lock[r] \in Workers /\ lock'[r] = NoWorker
             /\ points'[r] # points[r] => lock[r] \in Workers
  <2>1. lock[ResumeOf(w)] = w /\ ResumeOf(w) \in Resumes
    BY <1>3, BusyMessage
       DEF ParseSucceeds, ParseFails, EmbedSucceeds, EmbedFails, Running, WorkerInv, WorkerOK, Writing
  <2>2. lock'[ResumeOf(w)] = NoWorker
    BY <1>3, <2>1 DEF ParseSucceeds, ParseFails, EmbedSucceeds, EmbedFails, EndSession
  <2>3. r # ResumeOf(w) => row'[r] = row[r] /\ points'[r] = points[r]
    BY <1>3, <2>1 DEF ParseSucceeds, ParseFails, EmbedSucceeds, EmbedFails
  <2>4. QED
    BY <2>1, <2>2, <2>3
<1>4. ASSUME NEW w \in Workers,
             \/ Deliver(w) \/ Load(w) \/ Flush(w) \/ SendEmbed(w) \/ Retry(w) \/ GiveUp(w)
             \/ Ack(w) \/ Fault(w)
      PROVE  row' = row /\ points' = points
  BY <1>4 DEF Deliver, Load, Flush, SendEmbed, Retry, GiveUp, Ack, Fault, Raise, Crash, Redeliver
<1>5. QED
  BY <1>1, <1>2, <1>3, <1>4 DEF Next, WorkerStep

\* Postgres's row lock guards the row and, because the Qdrant calls are made
\* inside the transaction, the points too.
THEOREM GuardedByLock == Spec => ChangedUnderLock
<1>1. IInv /\ [Next]_vars =>
        [\A r \in Resumes :
           /\ row'[r] # row[r] =>
                request[r] = "open" \/ (lock[r] \in Workers /\ lock'[r] = NoWorker)
           /\ points'[r] # points[r] => lock[r] \in Workers]_vars
  BY GuardedStep
<1>2. QED
  BY <1>1, Safety, PTL DEF Spec, ChangedUnderLock
=============================================================================
