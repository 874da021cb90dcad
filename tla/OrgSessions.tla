------------------------------ MODULE OrgSessions ------------------------------
(***************************************************************************)
(* The database session of every API call and every task: authentication   *)
(* (app/core/security.py, app/api/deps.py), the session of the request     *)
(* (app/db/base.py), the organization-scoped transaction around it         *)
(* (app/api/deps.py, app/workers/base.py), the pool its connections come   *)
(* from, the row-level security that reads the transaction's setting       *)
(* (alembic/versions/607fb6e98882_initial_schema.py), and the database     *)
(* calls each handler makes, in the order of its source.                   *)
(*                                                                         *)
(* An organization-scoped session lives inside `async with session.begin()`*)
(* and its organization is a setting of that transaction.  The services    *)
(* commit inside the block.  SQLAlchemy then refuses every further         *)
(* statement of the session until the block is left, and the setting is    *)
(* gone from the connection.                                               *)
(***************************************************************************)
EXTENDS Naturals, Sequences

CONSTANTS
  Calls,         \* API calls and task attempts
  Orgs,          \* organizations; each has a row in a tenant table
  Connections,   \* the connections of the pool (pool_size and max_overflow)
  NoOrg,         \* the setting is unset, or the call has no organization
  NoConnection,  \* the session holds no connection
  MaxFailures    \* bound on calls that fail of their own

ASSUME SentinelAssumption ==
  /\ NoOrg \notin Orgs /\ NoConnection \notin Connections
ASSUME BoundAssumption == MaxFailures \in Nat

(***************************************************************************)
(* The ways a handler's call may go, up to its answer; the handlers named  *)
(* in a comment make the same calls.  Which way it is depends on rows this *)
(* model leaves out, so any may happen.  begin: enter the block and set    *)
(* the organization; select: read the row the client named, which may not  *)
(* be there; look: a query that may find nothing; write: insert or change  *)
(* a row of the call's organization, or an organization; leave: the end of *)
(* the block; absent: raise HTTP 404.                                      *)
(***************************************************************************)
\* Faulty variant: the task is enqueued before the commit.
SubmitResumeSendsFirst == <<"begin", "look", "write", "send", "commit", "refresh", "leave">>

\* Also invite_hr_user.
CreateRequisition == <<"begin", "write", "commit", "refresh", "leave">>
\* Also activate_hr_user of an invited user, and deactivate_hr_user.
TransitionRequisition == <<"begin", "select", "write", "commit", "refresh", "leave">>
\* Also read_hr_user, activate_hr_user of a user who is not invited, and the
\* verdict of an interview that is not completed.
ReadRequisition == <<"begin", "select", "leave">>
\* Also ingest_transcript.
SubmitResume == <<"begin", "look", "write", "commit", "refresh", "send", "leave">>

\* read_verdict: of a verdict that is fresh, or stale without an interview; of
\* one that is stale; of none yet; of none, without an interview.
ReadVerdict == <<"begin", "look", "leave">>
ReadStaleVerdict == <<"begin", "look", "send", "leave">>
PollVerdict == <<"begin", "look", "send", "absent">>
PollNothing == <<"begin", "look", "absent">>

\* parse_resume, of a resume that is parsed, and of one that fails.  Either end
\* of embed_resume is like the second.
ParseResume == <<"begin", "select", "write", "commit", "leave", "send">>
FailParse == <<"begin", "select", "write", "commit", "leave">>
\* Both verdict tasks, and both if they miss what the verdict is about; like the
\* second, either end of embed_transcript.
GenerateVerdict == <<"begin", "select", "look", "write", "commit", "refresh", "leave">>
SkipVerdict == <<"begin", "select", "look", "leave">>

\* The organizations' routes have no block.  Reading and
\* deactivating one looks first and raises 404 if there is none.
CreateOrganization == <<"write", "commit", "refresh">>
DeactivateOrganization == <<"look", "write", "commit", "refresh">>
ReadOrganization == <<"look">>
MissOrganization == <<"look", "absent">>

Program ==
  [create_requisition |-> CreateRequisition,
   transition_requisition |-> TransitionRequisition,
   read_requisition |-> ReadRequisition,
   submit_resume |-> SubmitResume,
   read_verdict |-> ReadVerdict,
   read_stale_verdict |-> ReadStaleVerdict,
   poll_verdict |-> PollVerdict,
   poll_nothing |-> PollNothing,
   parse_resume |-> ParseResume,
   fail_parse |-> FailParse,
   generate_verdict |-> GenerateVerdict,
   skip_verdict |-> SkipVerdict,
   create_organization |-> CreateOrganization,
   deactivate_organization |-> DeactivateOrganization,
   read_organization |-> ReadOrganization,
   miss_organization |-> MissOrganization]

Kinds == DOMAIN Program
Ops(kind) == {Program[kind][i] : i \in DOMAIN Program[kind]}
Statements == {"select", "look", "write", "commit", "refresh"}

VARIABLES
  call,     \* handler and way, verified organization and named row of each call
  pc,       \* the next step of its program
  conn,     \* the connection its session holds
  block,    \* its begin() block: none, open, or over (committed inside)
  setting,  \* app.current_org_id on each connection
  stored,   \* the calls whose write is committed
  queue,    \* the calls that have enqueued their task
  found,    \* history: the organizations whose row a call has read
  answer,   \* how the call ended
  failures  \* calls that have failed of their own

vars == <<call, pc, conn, block, setting, stored, queue, found, answer, failures>>

NoCall == [kind |-> "none", org |-> NoOrg, target |-> NoOrg]

\* A call has an organization exactly if it works in one.
Call ==
  {r \in [kind : Kinds, org : Orgs \cup {NoOrg}, target : Orgs] :
     r.org \in Orgs <=> "begin" \in Ops(r.kind)}

TypeOK ==
  /\ call \in [Calls -> Call \cup {NoCall}]
  /\ pc \in [Calls -> Nat \ {0}]
  /\ conn \in [Calls -> Connections \cup {NoConnection}]
  /\ block \in [Calls -> {"none", "open", "over"}]
  /\ setting \in [Connections -> Orgs \cup {NoOrg}]
  /\ stored \subseteq Calls /\ queue \subseteq Calls
  /\ found \in [Calls -> SUBSET Orgs]
  /\ answer \in [Calls -> {"none", "ok", "not_found", "unauthorized", "failed"}]
  /\ failures \in Nat

Init ==
  /\ call = [c \in Calls |-> NoCall]
  /\ pc = [c \in Calls |-> 1]
  /\ conn = [c \in Calls |-> NoConnection]
  /\ block = [c \in Calls |-> "none"]
  /\ setting = [k \in Connections |-> NoOrg]
  /\ stored = {} /\ queue = {}
  /\ found = [c \in Calls |-> {}]
  /\ answer = [c \in Calls |-> "none"]
  /\ failures = 0

(***************************************************************************)
(* Sessions and connections.                                               *)
(***************************************************************************)
UnderWay(c) == call[c] # NoCall /\ answer[c] = "none"
At(c, ops) ==
  /\ UnderWay(c) /\ pc[c] \in DOMAIN Program[call[c].kind]
  /\ Program[call[c].kind][pc[c]] \in ops

Free == {k \in Connections : \A c \in Calls : conn[c] # k}

\* SQLAlchemy runs a statement unless the block it is in has been committed.
Usable(c) == conn[c] # NoConnection /\ block[c] # "over"

\* The session needs a connection of the pool for its next step.
NeedsConnection(c) ==
  At(c, {"begin"}) \/ (At(c, Statements) /\ block[c] = "none" /\ conn[c] = NoConnection)

\* Faulty variant: set_config(..., false) outlives the transaction.
ReleaseWithSetting(c) ==
  /\ conn' = [conn EXCEPT ![c] = NoConnection]
  /\ UNCHANGED setting

\* The transaction ends: the connection goes back to the pool, without the
\* setting, which set_config(..., true) made local to the transaction.
Release(c) ==
  /\ conn' = [conn EXCEPT ![c] = NoConnection]
  /\ setting' = [k \in Connections |-> IF k = conn[c] THEN NoOrg ELSE setting[k]]

\* The call ends before its program does: whatever it has open is rolled back.
End(c, result) ==
  /\ answer' = [answer EXCEPT ![c] = result]
  /\ block' = [block EXCEPT ![c] = "none"]
  /\ Release(c)
  /\ UNCHANGED <<call, pc, stored, queue, found>>

Step(c) == pc' = [pc EXCEPT ![c] = @ + 1]

(***************************************************************************)
(* Actions.                                                                *)
(***************************************************************************)
\* Faulty variant: a token without an org_id claim is accepted.
ArriveWithoutOrg(c) ==
  /\ call[c] = NoCall /\ answer[c] = "none"
  /\ \E kind \in Kinds, target \in Orgs :
       call' = [call EXCEPT ![c] = [kind |-> kind, target |-> target, org |-> NoOrg]]
  /\ UNCHANGED <<pc, conn, block, setting, stored, queue, found, answer, failures>>

\* A call comes in.  Its organization is the one in the verified token, or in
\* the task's payload; the row it names may be any.
Arrive(c) ==
  /\ call[c] = NoCall /\ answer[c] = "none"
  /\ \E kind \in Kinds, org \in Orgs, target \in Orgs :
       call' = [call EXCEPT ![c] =
                  [kind |-> kind, target |-> target,
                   org |-> IF "begin" \in Ops(kind) THEN org ELSE NoOrg]]
  /\ UNCHANGED <<pc, conn, block, setting, stored, queue, found, answer, failures>>

\* get_current_hr_user: the token does not verify, and the answer is 401.
RefuseToken(c) ==
  /\ call[c] = NoCall /\ answer[c] = "none"
  /\ answer' = [answer EXCEPT ![c] = "unauthorized"]
  /\ UNCHANGED <<call, pc, conn, block, setting, stored, queue, found, failures>>

\* Faulty variant: the organization comes from the request.
BeginAsNamed(c) ==
  /\ At(c, {"begin"})
  /\ \E k \in Free :
       /\ conn' = [conn EXCEPT ![c] = k]
       /\ setting' = [setting EXCEPT ![k] = call[c].target]
  /\ block' = [block EXCEPT ![c] = "open"]
  /\ Step(c)
  /\ UNCHANGED <<call, stored, queue, found, answer, failures>>

\* get_org_scoped_db, org_scoped_session: enter the block and set the
\* organization, the first statement of the transaction.
Begin(c) ==
  /\ At(c, {"begin"})
  /\ \E k \in Free :
       /\ conn' = [conn EXCEPT ![c] = k]
       /\ setting' = [setting EXCEPT ![k] = call[c].org]
  /\ block' = [block EXCEPT ![c] = "open"]
  /\ Step(c)
  /\ UNCHANGED <<call, stored, queue, found, answer, failures>>

\* get_db: a statement outside any block begins a transaction by itself.
Autobegin(c) ==
  /\ NeedsConnection(c) /\ ~At(c, {"begin"})
  /\ \E k \in Free : conn' = [conn EXCEPT ![c] = k]
  /\ UNCHANGED <<call, pc, block, setting, stored, queue, found, answer, failures>>

\* The pool has had no connection to give for its whole timeout.
PoolTimeout(c) ==
  /\ NeedsConnection(c) /\ Free = {}
  /\ End(c, "failed")
  /\ UNCHANGED failures

\* Row-level security: the session sees the rows of the organization set on its
\* connection, and can write no others.
Visible(c) == {o \in {call[c].target} : setting[conn[c]] = o}

Select(c) ==
  /\ At(c, {"select"}) /\ Usable(c) /\ Visible(c) # {}
  /\ found' = [found EXCEPT ![c] = @ \cup Visible(c)]
  /\ Step(c)
  /\ UNCHANGED <<call, conn, block, setting, stored, queue, answer, failures>>

\* The row is not there for this session: HTTP 404, or the task drops the work.
NotFound(c) ==
  /\ At(c, {"select"}) /\ Usable(c) /\ Visible(c) = {}
  /\ End(c, "not_found")
  /\ UNCHANGED failures

\* The handler has found nothing, and raises 404 through the block.
Absent(c) ==
  /\ At(c, {"absent"})
  /\ End(c, "not_found")
  /\ UNCHANGED failures

Look(c) ==
  /\ At(c, {"look"}) /\ Usable(c)
  /\ found' = [found EXCEPT ![c] = @ \cup Visible(c)]
  /\ Step(c)
  /\ UNCHANGED <<call, conn, block, setting, stored, queue, answer, failures>>

\* WITH CHECK: the row written carries the organization of the setting.
Write(c) ==
  /\ At(c, {"write"}) /\ Usable(c) /\ setting[conn[c]] = call[c].org
  /\ Step(c)
  /\ UNCHANGED <<call, conn, block, setting, stored, queue, found, answer, failures>>

\* session.commit(): the transaction of the block is over although the block is
\* not.
Commit(c) ==
  /\ At(c, {"commit"}) /\ Usable(c)
  /\ stored' = stored \cup {c}
  /\ block' = [block EXCEPT ![c] = IF @ = "open" THEN "over" ELSE @]
  /\ Release(c)
  /\ Step(c)
  /\ UNCHANGED <<call, queue, found, answer, failures>>

\* "Can't operate on closed transaction inside context manager".
RefusedByBlock(c) ==
  /\ At(c, Statements) /\ block[c] = "over"
  /\ End(c, "failed")
  /\ UNCHANGED failures

Refresh(c) ==
  /\ At(c, {"refresh"}) /\ Usable(c)
  /\ Step(c)
  /\ UNCHANGED <<call, conn, block, setting, stored, queue, found, answer, failures>>

\* send_task.
Send(c) ==
  /\ At(c, {"send"})
  /\ queue' = queue \cup {c}
  /\ Step(c)
  /\ UNCHANGED <<call, conn, block, setting, stored, found, answer, failures>>

\* The block is left: a transaction still open has only read, and is committed.
Leave(c) ==
  /\ At(c, {"leave"})
  /\ block' = [block EXCEPT ![c] = "none"]
  /\ Release(c)
  /\ Step(c)
  /\ UNCHANGED <<call, stored, queue, found, answer, failures>>

\* Any step may raise: a refused transition, a constraint, a service that is
\* down, the broker.
Raise(c) ==
  /\ UnderWay(c) /\ failures < MaxFailures
  /\ failures' = failures + 1
  /\ End(c, "failed")

\* The program is done; the session is closed.
Finish(c) ==
  /\ UnderWay(c) /\ pc[c] \notin DOMAIN Program[call[c].kind]
  /\ End(c, "ok")
  /\ UNCHANGED failures

CallStep(c) ==
  \/ Arrive(c) \/ RefuseToken(c) \/ Begin(c) \/ Autobegin(c) \/ PoolTimeout(c)
  \/ Select(c) \/ NotFound(c) \/ Absent(c) \/ Look(c) \/ Write(c) \/ Commit(c) \/ Refresh(c)
  \/ RefusedByBlock(c) \/ Send(c) \/ Leave(c) \/ Raise(c) \/ Finish(c)

Next == \E c \in Calls : CallStep(c)

Spec == Init /\ [][Next]_vars

(***************************************************************************)
(* Properties.                                                             *)
(***************************************************************************)
\* I2: a call reads rows of its own organization only, whichever row its client
\* names and whoever used its connection before.
OwnRowsOnly == \A c \in Calls : found[c] \subseteq {call[c].org}

\* A connection carries an organization only while a transaction of that
\* organization is open on it; no two calls share a connection, and a call that
\* is over has given its connection back.
SettingIsTheHolders ==
  /\ \A k \in Connections : setting[k] # NoOrg =>
       \E c \in Calls : conn[c] = k /\ block[c] = "open" /\ call[c].org = setting[k]
  /\ \A c, d \in Calls : conn[c] = conn[d] /\ conn[c] # NoConnection => c = d
  /\ \A c \in Calls : answer[c] # "none" => conn[c] = NoConnection

\* What the client may conclude from an answer, and a worker from a task.
\* Success: the row is stored and the task enqueued.  401: neither.  404: nothing
\* is stored, and a task is enqueued only by read_verdict, which answers so after
\* it has enqueued the generation.  A task is never ahead of the row it is about.
\* And if nothing fails of its own, only the refresh turns a stored row into an
\* error.
AnswerTells ==
  \A c \in Calls :
    /\ answer[c] = "ok" => /\ "commit" \in Ops(call[c].kind) => c \in stored
                           /\ "send" \in Ops(call[c].kind) => c \in queue
    /\ answer[c] = "unauthorized" => c \notin stored \cup queue
    /\ answer[c] = "not_found" => /\ c \notin stored
                                  /\ c \in queue <=> call[c].kind = "poll_verdict"
    /\ c \in queue /\ "commit" \in Ops(call[c].kind) => c \in stored
    /\ answer[c] = "failed" /\ c \in stored /\ failures = 0 => "refresh" \in Ops(call[c].kind)

\* Row-level security refuses exactly what it should: the check on written rows
\* never stands in the way of a call's own write, and a row is missing for a call
\* only if it is another organization's, whoever used the connection before.
PolicyIsExact ==
  \A c \in Calls : Usable(c) =>
    /\ At(c, {"write"}) => setting[conn[c]] = call[c].org
    /\ At(c, {"select"}) => (Visible(c) # {} <=> call[c].target = call[c].org)

\* A call that holds a connection is under way and needs no second one, so calls
\* that wait for the pool never wait for each other, and none outlives its call.
HoldersNeedNoOther ==
  \A c \in Calls : conn[c] # NoConnection => UnderWay(c) /\ ~NeedsConnection(c)

\* A refresh after the commit inside the block is never survived: no such call
\* succeeds, and none enqueues the task that comes after it.
RefreshIsFatal ==
  \A c \in Calls :
    call[c] # NoCall /\ {"begin", "refresh"} \subseteq Ops(call[c].kind) =>
      answer[c] # "ok" /\ c \notin queue

\* What the route ingest_transcript says ("Enqueues `embed_transcript` on
\* success") and submit_resume says of parse_resume: when the call is over, a row
\* it has committed has its task.  The refresh between the two never succeeds.
StoredIsEnqueued ==
  \A c \in Calls :
    answer[c] # "none" /\ c \in stored /\ "send" \in Ops(call[c].kind) => c \in queue
=============================================================================
