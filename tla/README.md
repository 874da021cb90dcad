# virtual_hire in TLA+

A specification of the recruiting backend under `src/`: a FastAPI application and
Celery workers over Postgres, a Redis broker, Qdrant (vectors), S3 (files) and
language models. No transaction spans two of these stores, several processes
work on the same rows, and tasks are retried and delivered more than once. The
modules describe what is left when a step fails, is repeated or overlaps another.

Run `tlc -config X.cfg M` for the model checking and `tlapm MProofs.tla` for
the proofs; `PROJECT.json` lists every run and maps definitions to source lines.

## The system

| Component | State | Operations | Hard behaviour |
|---|---|---|---|
| Resume submission (`services/ingestion.py`, `api/deps.py`) | candidates, resumes, applications; files in S3 | submit_resume | unlocked look-up before insert; upload inside the transaction; commit, then send_task |
| Task queue conventions (`workers/base.py`, `celery_app.py`) | messages with retry counts | deliver, acknowledge late, retry, give up, redeliver | lost workers, visibility timeout, bounded retries |
| Parsing worker (`workers/tasks/parsing.py`) | `resumes.status`, `parsed_data`, `parse_error` | parse_resume | row lock from the flush on; errors committed and swallowed; commit, then send_task |
| Embedding worker (`workers/tasks/embedding.py`) | `resumes.embedding_status`, points in Qdrant | embed_resume, embed_transcript | delete, then upsert; the transcript task locks nothing |
| Transcript ingestion (`services/transcripts.py`) | one transcript per interview | ingest text or audio | get-or-create, last writer wins column by column, commit, then send_task |
| Verdict generation (`workers/tasks/verdicts.py`, `api/routes/verdicts.py`) | one verdict per application and service | polling GET, two generating tasks | duplicate tasks, select-then-write, retries after the commit |
| Organization lifecycle (`services/organizations.py`) | row in Postgres, collection in Qdrant | create, deactivate | compensation, ambiguous commits |
| Requisitions, HR users (`services/requisitions.py`, `hr_users.py`) | a status | create/invite, transition/activate/deactivate | check and write are not atomic |
| Chunking (`services/chunking.py`) | none | chunk_text | boundaries of the sliding window |
| Organization-scoped sessions (`api/deps.py`, `db/base.py`, `workers/base.py`, `core/security.py`, row-level security) | pooled connections, `app.current_org_id` on each | every route's and task's sequence of database calls | one pool for all organizations; commit inside a begin() block |
| Scorecards and audit log (database functions of the initial migration) | scorecards, audit_log | insert, update, amend_scorecard, triggers | an amendment overlaps another transaction; a flag that lives as long as the transaction |
| Scoring, LLM agents, external clients, shell | none | | not modelled, see the end |

Interactions: the API commits rows and sends `parse_resume`; the parsing worker
commits the outcome and sends `embed_resume`; the embedding worker replaces the
points of one source in the collection of the organization. A transcript takes
the same way through `embed_transcript`. The verdict tasks read what these have
written. Postgres rows, the broker and Qdrant are shared by all of them.

What makes the system correct, component by component: an accepted submission
is never lost and never half there; what Postgres calls embedded is in the index;
the index holds one text; a verdict comes from one completed interview, arrives,
and is known to be outdated when it is; an active organization has a collection
and a deactivated one has none; a status changes as its table allows; no word of
a text is missing from its chunks; no call sees another organization's row; an
answer tells what was stored and sent; a submitted scorecard is never lost. `PROJECT.json` lists the hazards to each of
these with the line where they bite, and says of those the code does not survive how the property excuses them.

## Modules

### ResumePipeline (with ResumeLifecycle): commit of the submission to embedding

`row` is the committed resume, `lock` the worker whose transaction has written
it, `points` its chunks in Qdrant, `queue` the broker. A worker's `at` follows
the code: `Load` is `session.get`, `Flush` the UPDATE of the intermediate status
(which takes the row lock and stays invisible), then `ParseSucceeds`/`ParseFails`
or `DeletePoints`, `UpsertPoints`, `EmbedSucceeds`/`EmbedFails` with their commit,
`SendEmbed`, and finally `Ack`. `snapshot` is what the session has loaded: SQLAlchemy leaves a column out
of the UPDATE when the assigned value equals the loaded one (`NetChange`), so an
outcome can be a mixture of two runs. The environment raises exceptions
(`Raise`), kills workers (`Crash`) and delivers a second time (`Redeliver`).

`ResumeLifecycle` is the abstract specification: only the committed columns,
changed by `Submit`, `Parse` and `Embed`; a failed parse never changes the
extracted data, and embedding only follows a committed parse.
`Lifecycle == INSTANCE ResumeLifecycle WITH ...` maps the committed columns of
`row` to it, and `ImplementsLifecycle` says that the pipeline refines it.

The hand-over stands for what the source does when the refresh before it
returns. That it does not in the code as it is, is shown by OrgSessions (see the
disagreements); this module, TranscriptPipeline and Verdicts describe what
follows when it does, and their failing hand-overs what follows when it does not.

### Submission (with SerialSubmission): submit_resume up to its commit

Each request looks up the candidate (`Find`), inserts it (`CreateCandidate`
waits for an uncommitted row with the same key, `CandidateConflict` is the
IntegrityError), uploads the file and commits three rows or none. `OrgConsistent`
is the I3 trigger, `HasActiveApplication` the partial unique index. An
application can be closed by `Close`, which no code does yet, so that the "active" in the
index means something.

`SerialSubmission` is what the requests promise together: each submission takes effect at one
instant, look-up, checks and the three insertions at once, after its file is stored.
`ImplementsSerial` says that the interleaved requests refine it. What the module has to show is that
a look-up made earlier, without a lock, is still right at the commit.

### TranscriptPipeline: one interview

Requests select, insert, commit and enqueue; workers read the text, delete the
points and upsert the new ones. A text is its set of chunks (index, content), and
an upsert replaces the points with the same index. Three history variables record what the
exceptions in the properties need: a commit over an unread row (`stale`), two
replacements at the same time (`overlapped`), a task given up (`abandoned`).

### Verdicts: one verdict of one application

`service` is either of the two service types. A subject is the resume or an
interview; its text is a version number that the inputs increase. `Poll` is the route;
a worker reads its subject, selects the row, and inserts or updates it.
`Verdict` keeps apart what the row points to (`subject`), what its score comes
from (`scored`) and what its narrative comes from (`told`), because the UPDATE
leaves unchanged columns out. `Finish` lets the refresh after the commit raise,
so that a task may be retried after it succeeded.

### Organizations: one organization

The creating call provisions, commits and, when the commit raises, compensates.
Any number of calls deactivate it. Each call to Postgres or Qdrant may raise
with or without effect, and a process may die anywhere; only a
ResponseHandlingException of the provisioning becomes the 503 (`refused`), everything else a 500. Ids are fresh, so
organizations share nothing and one is enough.

### StatusUpdates: requisitions and HR users

Both services read a status, check it and write another without a lock. `Allowed`
is the transition table for requisitions and what activate and deactivate do for
users. `lost` records that a call wrote over a status it had not read.

### OrgSessions: the database session of every call and task

A call has a kind, the organization of its verified token (or of the task's
payload) and the row its client names. `Program` lists the ways a call may go, early
returns and the 404 after a send included, with what each does to its session
in the order of the source; handlers that make the same calls share one. Which way a call goes
depends on rows the module leaves out (is there a verdict, is it stale, is there
an interview, does the extraction fail, is the user still invited), so it is
chosen when the call arrives, and any choice is possible. `Begin` enters the block, takes a connection of the pool and
sets `app.current_org_id` on it; `Visible` is row-level security, which reads that setting; `Release`
returns the connection without it. A `Commit` inside the block makes the block
"over": the next statement is refused by SQLAlchemy (`RefusedByBlock`) until the block is left. The policies are taken
to apply; a superuser role bypasses them, as the migration notes of the development database. `Raise` is
every other failure, `PoolTimeout` a pool without a free connection.

### Scorecards: the tables, the trigger, amend_scorecard and the audit log

No code under `src/app/` writes scorecards yet, so the clients are arbitrary READ
COMMITTED transactions: any `Insert`, any `Update` the trigger accepts, and
`amend_scorecard()` in its two parts, `AmendSelect` (SELECT ... FOR UPDATE) and
`Amend` (flag on, UPDATE, flag off, audit row). A transaction keeps what it has locked, written and logged;
`Commit` publishes it at once. The history variable `edited` records direct updates
after an amendment, the one gap the trigger leaves in the trail.

### Chunking: chunk_text

One step is one pass of the loop. A text is its length, a chunk the interval of
its positions. Sizes are natural numbers; a negative overlap is included because
the check lets it through.

## Runs

| Run | Module, cfg | Bounds | Shows |
|---|---|---|---|
| resume_safety | ResumePipeline, ResumePipeline | 1 resume, 2 workers, 2 chunks, 1 retry, 2 faults (197,471 states) | nothing lost between request, parsing and embedding, `embedded` means indexed, refinement of ResumeLifecycle, row and points change only under the row lock, every accepted submission reaches an outcome, queues and locks drain |
| submission | MCSubmission, Submission | 3 requests, 2 organizations, 1 address | the committed tables are those of one submission after another (ImplementsSerial, so all or nothing), one candidate per address, one active application, one organization, every request ends |
| transcripts | MCTranscriptPipeline, TranscriptPipeline | 2 requests, 2 workers, texts of 1 and 2 chunks and "", 1 retry, 1 fault (166,025 states) | the settled index is the committed text, or one whole earlier one under an empty text, unless replacements overlapped; rows of one submission unless commits overlapped; work drains |
| transcript_index_mixed | MCTranscriptPipeline, IndexIsOneText | same | violation: if both ingestions reach their send_task, overlapping replacements mix two texts without any other fault |
| verdicts | Verdicts, Verdicts | 2 interviews or a resume, 2 workers, 1 retry, 1 fault, 1 waiting first delivery for each subject | I14, one subject unless updates overlapped, a polled verdict arrives, redundant tasks run dry |
| verdict_not_flagged | Verdicts, OutdatedIsStale | 1 interview, 1 worker, 2 versions | violation: an outdated verdict is not flagged stale |
| sessions | MCOrgSessions, OrgSessions | 2 calls that may go any way and 1 that creates an organization, 2 organizations, 2 connections, 1 failure (1,260,583 states) | I2, no connection keeps an organization or a second holder, what an answer tells of row and task |
| stored_not_enqueued | OrgSessions, StoredIsEnqueued | 2 calls, 1 connection, no failure | violation: a committed row whose task is never enqueued |
| scorecards | MCScorecards, Scorecards | 2 scorecards, 2 sessions, 3 transactions, 2 amendments (817,735 states) | the audit log is a gapless history, a submitted scorecard never changes without an entry that keeps it |
| organizations | Organizations, Organizations | 3 deactivating calls | which of row and collection may exist without the other |
| status_updates | StatusUpdates, StatusUpdates | 1 requisition, 1 user, 2 callers without limit | statuses move as the table allows except through a lost update |
| chunking | MCChunking, Chunking | texts to 12 words, sizes 0 to 5, overlaps -1 to 5 | no word lost or phrase cut, no redundant chunk |

Why these bounds are enough: a resume, a transcript and a verdict are keyed
rows which no task relates to another row of the kind, so one of each suffices,
and every conflict in the code is between two sessions: two workers or callers
produce it, a third (in Submission, Organizations and OrgSessions) lets one fail between two
others, or take over the connection of one while another still runs.
Two connections let two transactions overlap, and three calls exhaust them; the third, confined by
the constraint `ThirdCreatesAnOrganization` to keep the run short, needs a connection once before and once
after its commit. Two
amendments of one scorecard in three transactions of two sessions make an
entry's neighbour come from either session.
One retry distinguishes the first run, a repetition and
giving up. One fault at each point of a run covers each crash and each duplicate; two cover
a duplicate that crashes. Chunks matter by index only, and a text of two and a text of
one distinguish replacing a point from leaving one over. Windows of up to five
words include every order of size, overlap and length.

CHECK_DEADLOCK is off throughout: requests, calls and texts are finite, and the system may stop when they are used up.

Every property has a mutant in `PROJECT.json`: a variant of one definition, next
to it in its module and marked "Faulty variant", that a plausible slip in the code would produce, and that
violates the property.

## Fairness

- Workers (`WF` on a worker's steps): Celery processes are restarted and
  consume their queues as long as the broker is up. A worker blocked on a row lock
  is not enabled and need not move; `Drains` says that it is eventually released.
- Nothing else is fair. `Raise` in particular is not: no
  `lock_timeout` ends a wait. Requests may stop anywhere, faults need not happen,
  and their number is bounded (`MaxFaults`): without a bound, a message delivered
  again for ever would refute every liveness property.
- Submission: a request that has begun goes on, because the server runs it;
  that a client starts one is not assumed.
- Verdicts: the polling client is fair, because the 404 asks it to poll again;
  `VerdictArrives` holds for such a client only. Exceptions before the commit count as
  faults there: a model that always fails never yields a verdict.
- Chunking, OrgSessions, Scorecards, Organizations, StatusUpdates: no fairness, safety only.

## Proofs

All are for any number of resumes, requests, workers, callers, calls, sessions, connections,
retries and faults, any set of chunks, and any text and window.

- `ResumePipelineProofs`: `Safety`, `Spec => []IInv`. The four safety properties are not
  inductive. `IInv` adds `WorkerInv`, which says what a worker at each step holds
  (the task it may run, the row lock exactly while its transaction has written,
  all points once the upsert returned), and `HistoryInv`, which says what queue,
  row and history together imply (a queued embedding had a committed parse,
  a submitted row is committed, and the properties themselves in the stronger form a step needs).
  From it follow `TypeCorrect`, `NoTaskWithoutRow`, `AcceptedNotLost`,
  `ParsedNotLost` and `EmbeddedIndexed`; `Refinement` proves `Spec => ImplementsLifecycle`:
  every step that changes the row is one of the three lifecycle actions, where
  `WorkerInv` supplies that an embedding worker's resume was parsed. `LocksExact` is the converse of what
  `WorkerInv` says of the lock: no way a task can end leaves one behind, so two workers
  never replace the points of one resume at once. `GuardedByLock` is the action
  property that after its submission a row changes only in its lock holder's commit and the points only
  under the lock, although Qdrant knows nothing of it.
- `SubmissionProofs`: the safety properties and types. A request relies between its
  look-up and its commit on what nobody locked; `Working` says that its candidate is committed
  or is one that no committed row shares, `KeysExclusive` that of two uncommitted
  candidates no two are the same person (the waiting insert), `RowsCommitted` that
  rows are named after requests that have committed, which makes every id fresh, `Stored`
  that a request past its upload has its file. `Serializable` proves `Spec => ImplementsSerial`: the
  commit maps to the one step `Submit`, every other step of a request to `Store` or a stutter. Its core is
  `CandidateIsCurrent`: the candidate a request holds at its commit is the one a look-up at that
  instant would find, or create. `Atomic` (all or nothing) is proved directly as well.
- `TranscriptPipelineProofs`: `RowIsOneSubmission`, `IndexFollowsText` and types. `Chased`
  says that once the last commit is enqueued and no task has been given up, the text is
  still to be read by a message or task, or is read and being stored, or is stored;
  `OneAtATime` that without overlap there is one replacement at a time and nothing
  between a delete and its upsert, so that an upsert leaves exactly its text. `OneTextAtATime` adds
  what a search sees before things settle: one whole text or none, in every state without overlap.
- `VerdictsProofs`: `OnlyFromCompleted`, `OneSubject` and types. A task checks its
  interview long before it writes; `CheckedTask` carries the check to the write, because no
  step takes an interview out of "completed". `RowStays` says that a row a session has
  loaded is still there for its UPDATE; without overlap it is also unchanged, so the columns an UPDATE leaves out
  belong to the same subject. `NothingFlagged` is the general form of the violation
  `verdict_not_flagged`: nothing in the code ever flags a verdict stale.
  The second half of the module is about `Chunking`: `NothingLost`, `RegularWindows`,
  `EveryChunkAdds`, `IndexIsPosition` (the index stored in Qdrant as the point's
  identity gives the position of the chunk in the text), `PassesBounded` (a text of n words has
  at most n chunks, which bounds the loop) and types. The loop invariant
  places `start` relative to the last chunk and says that
  phrases that end within the chunks taken are intact; a phrase starting before
  the next chunk ends within the last one, because they share `overlap` words.
- `OrganizationsProofs`: `Served`, `Refused`, `Compensated`, `TornDown` and types.
  The strengthening says when a row can exist and what a deactivation has seen:
  only `Provision` makes a collection, and it runs before there is a row.
  `NothingComesBack` is the same as an action property, for every step: once there is a row, none removes it, reactivates it
  or makes the collection anew. The model relies on it to take the existence check and the delete of
  `delete_collection` as one step.
- `StatusUpdatesProofs`: `OpenFirst`, `TerminalKept`, `JumpsAreStale` and types.
  `CallsChecked` carries the check to the write: the status a call read is in the row's
  history, and the status it writes may follow that one.
- `OrgSessionsProofs`: `SettingIsTheHolders`, `OwnRowsOnly`, `AnswerTells` and types.
  The first two need that a call holds no connection when it enters its block
  (`BeginsClean`: the block comes first in every program). `AnswerTells` needs how far a
  program has come when something is stored or sent (`Behind`), where a call ended (`Ended`), that a call
  fails of its own only where it needs a connection or runs a statement (`Unfailing`), and the
  order of the steps on every way of every handler (`ProgramsOrdered`: commit before send, no
  404 after a commit, after one no statement but the refresh; `OnlyPollSendsFirst`: one way, `poll_verdict`,
  sends before its 404). `PolicyExact`: row-level security refuses exactly what it should, no
  own write and no own row, because the setting of an open block lasts as long as the block (`OpenIsSet`);
  it is why `Write` needs no failing twin. `NoHoldAndWait`: a call that holds a connection is under way and waits for no
  other, so that a pool of any size is no deadlock. `RefreshNeverSurvived` is the general form of the violation
  `stored_not_enqueued`: whatever the pool, the other calls and the failures, a call whose program refreshes
  in its block never succeeds and never sends. It rests on `BlockFollows` (the block of a call past
  its commit is over) and `RefreshAhead` (no call gets past such a refresh).
- `ScorecardsProofs`: `AuditTrail`, `SubmittedIsPreserved` and types. `TxOK` says of an open
  transaction that the committed log continued by its own entries is a chain that
  ends at what it has written, for every row it has locked; locks are exclusive, so no
  other commit changes a row under it, and its own commit publishes a chain.

Assumptions used are the named ASSUMEs of the modules, which TLC evaluates too.

Only model-checked: liveness (`AcceptedSettles`, `VerdictArrives`, every `Drains`, the
termination of requests), because the prover handles neither fairness nor ENABLED.
Every safety property of a run is proved. Some theorems state more than the runs
check (`LockedWhileWriting`, `NeverMixed`, `OneWay`,
`HoldersNeedNoOther`, `PolicyIsExact`, `RefreshIsFatal`, `NeverFlagged`, `IndexLocates`, `ChunksBounded`,
`AllOrNothing`, `TasksFindTheirRow`, `RefusedHasNoRow`): their definitions stand among the properties of the
module they are about, and any of them may be added to its cfg.

## Where code and documents disagree

Three runs are expected to be violated, each by a statement of the repository's
documents or docstrings: transcripts mixed in the index (once both reach their `send_task`), outdated verdicts not flagged, and rows
stored without their task.

The last is the most far-reaching. `get_org_scoped_db` and `org_scoped_session`
yield the session inside `async with session.begin()`, and the services commit
inside that block. SQLAlchemy 2.0 then refuses the `session.refresh` that
follows, so `submit_resume` and `ingest_transcript` never reach their
`send_task`, the writing routes of requisitions and HR users answer 500 after
their change is committed, and the verdict tasks raise after storing their
verdict and are repeated until their retries are used up. The tests of the
repository replace the session. `OrgSessions` has the refusal as `RefusedByBlock`, and
`StoredIsEnqueued` fails without any fault.

Findings without a run are listed in `PROJECT.json`: an embedded resume
whose points a second embed_resume has deleted (the exception in
`EmbeddedMeansIndexed`), a lost commit acknowledgement that leaves an organization without its
collection (the exception in `ServedUntilDeactivated`), a terminal requisition
status overwritten by a stale call (the exception in `TerminalUnlessLost`), an amended
scorecard changed without an audit entry (the exception in `AuditTrail`), a 500
where the docstring speaks of a 409, and a "regeneration has been enqueued" when
nothing was (the way `PollNothing` of OrgSessions, whose 404 leaves no task).

## Not modelled, and why

- Wording, logging, schemas and response models. Signatures and key fetching of
  the tokens: OrgSessions has what they yield, verified claims or a 401.
  `core/security.py`'s roles (`require_role`) and `services/candidate_auth.py` are used
  by no route or task.
- Row-level security outside OrgSessions: the other modules look at one
  organization's rows, except Submission, where the form may name a requisition of another.
  The routes of organizations and their reads run without it, on a table that has no policy.
- Of scorecards: DELETE, which the schema leaves to the table's rights, and the
  order of `audit_log.created_at`, which is that of transaction starts and not of commits.
  `analysis_outputs` and the trigger on verdict subjects: the one is used by no code, the
  other checks what the verdict tasks do by the shape of their code.
- Searching the vector store, which is read-only.
- The scoring rules, the agents, text extraction, embeddings and
  speech-to-text: functions or external calls, present as a choice of result or exception.
- "Row not found" returns of the workers in the pipelines: no code deletes rows, and
  a task is sent after its commit (`AnswerTells`; `TasksFindTheirRow`, proved in
  ResumePipelineProofs). OrgSessions has them for a task of another organization.
- Back-off delays (a message may wait any time), the transcript's language column,
  the retrieved context of the judge.
- An event loop per task (`asyncio.run`) over a shared engine: its failures
  are among those of `Raise`.
- A commit that raises after taking effect in the last step of a task: the same
  states arise from `Redeliver`. In Organizations, where it matters, it is modelled.

## Plan

1. Done: the modules above, the proofs of all their safety properties and of the
   two refinements.
2. Refinements for the remaining components: the scorecards as a register that is
   amended atomically, the transcript index as a register without overlap.
3. Composition: the verdict of an application with the index its context is
   retrieved from; the deletion of a collection while embeddings run.
