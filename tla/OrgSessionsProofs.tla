-------------------------- MODULE OrgSessionsProofs --------------------------
(***************************************************************************)
(* OrgSessions keeps its safety properties for any number of calls,        *)
(* organizations and connections.                                          *)
(*                                                                         *)
(* A call's program enters the scoped block first, so its connection is    *)
(* its own from the moment the setting is made to the moment both are      *)
(* given back: that is what SettingIsTheHolders needs (BeginsClean), and   *)
(* what OwnRowsOnly follows from.  AnswerTells follows from how far the    *)
(* program has come (Behind) and from the order of its steps (Ordered).    *)
(***************************************************************************)
EXTENDS OrgSessions, TLAPS

(***************************************************************************)
(* The programs.                                                           *)
(***************************************************************************)
Ordered(program) ==
  /\ \A i \in DOMAIN program : i \in Nat \ {0}
  /\ \A p \in Nat \ {0} : p \notin DOMAIN program => \A i \in DOMAIN program : i < p
  /\ \A i \in DOMAIN program : program[i] = "begin" => i = 1
  /\ \A i, j \in DOMAIN program :
       program[i] = "send" /\ program[j] = "commit" => j < i
  /\ \A i, j \in DOMAIN program :
       program[i] = "select" /\ program[j] \in {"commit", "send"} => i < j
  /\ \A i, j \in DOMAIN program :
       program[i] = "refresh" => /\ program[j] \in {"leave", "send"} => i < j
                                 /\ \E k \in DOMAIN program : program[k] = "commit" /\ k < i
  /\ \A i, j \in DOMAIN program :
       program[i] \in {"select", "write"} /\ program[j] = "leave" => i < j
  /\ \A i \in DOMAIN program :
       program[i] = "select" => \E k \in DOMAIN program : program[k] = "begin"
  /\ \A i, j \in DOMAIN program :
       program[i] = "absent" /\ program[j] = "commit" => i < j
  /\ \A i, j \in DOMAIN program :
       program[i] \in {"begin"} \cup Statements /\ program[j] = "commit" /\ j < i =>
         program[i] = "refresh"

\* Every handler begins first, commits before it sends, may be refused a row only
\* before it commits or sends, refreshes after its commit, within its block and
\* before it sends, reads named rows in its block and writes none after it.  It
\* raises 404 before any commit, and after one it needs the session to refresh only.
LEMMA ProgramsOrdered == \A kind \in Kinds : Ordered(Program[kind])
<1>1. Ordered(CreateRequisition)
  BY DEF Ordered, Statements, CreateRequisition
<1>2. Ordered(TransitionRequisition)
  BY DEF Ordered, Statements, TransitionRequisition
<1>3. Ordered(ReadRequisition)
  BY DEF Ordered, Statements, ReadRequisition
<1>4. Ordered(SubmitResume)
  BY DEF Ordered, Statements, SubmitResume
<1>5. Ordered(ReadVerdict)
  BY DEF Ordered, Statements, ReadVerdict
<1>6. Ordered(ReadStaleVerdict)
  BY DEF Ordered, Statements, ReadStaleVerdict
<1>7. Ordered(PollVerdict)
  BY DEF Ordered, Statements, PollVerdict
<1>8. Ordered(PollNothing)
  BY DEF Ordered, Statements, PollNothing
<1>9. Ordered(ParseResume)
  BY DEF Ordered, Statements, ParseResume
<1>10. Ordered(FailParse)
  BY DEF Ordered, Statements, FailParse
<1>11. Ordered(GenerateVerdict)
  BY DEF Ordered, Statements, GenerateVerdict
<1>12. Ordered(SkipVerdict)
  BY DEF Ordered, Statements, SkipVerdict
<1>13. Ordered(CreateOrganization)
  BY DEF Ordered, Statements, CreateOrganization
<1>14. Ordered(DeactivateOrganization)
  BY DEF Ordered, Statements, DeactivateOrganization
<1>15. Ordered(ReadOrganization)
  BY DEF Ordered, Statements, ReadOrganization
<1>16. Ordered(MissOrganization)
  BY DEF Ordered, Statements, MissOrganization
<1>17. QED
  BY <1>1, <1>2, <1>3, <1>4, <1>5, <1>6, <1>7, <1>8, <1>9, <1>10, <1>11,
     <1>12, <1>13, <1>14, <1>15, <1>16 DEF Kinds, Program

\* Only read_verdict enqueues a task before it raises 404, and only if it raises it.
LEMMA OnlyPollSendsFirst ==
  \A kind \in Kinds :
    /\ kind # "poll_verdict" =>
         \A i, j \in DOMAIN Program[kind] :
           Program[kind][i] = "absent" /\ Program[kind][j] = "send" => i < j
    /\ kind = "poll_verdict" =>
         \A i \in DOMAIN Program[kind] :
           /\ Program[kind][i] # "select"
           /\ Program[kind][i] = "absent" =>
                \E j \in DOMAIN Program[kind] : Program[kind][j] = "send" /\ j < i
BY DEF Kinds, Program, CreateRequisition, TransitionRequisition, ReadRequisition, SubmitResume,
       ReadVerdict, ReadStaleVerdict, PollVerdict, PollNothing, ParseResume,
       FailParse, GenerateVerdict, SkipVerdict, CreateOrganization,
       DeactivateOrganization, ReadOrganization, MissOrganization

\* NoCall is not a call.
LEMMA NoCallIsNoCall == NoCall \notin Call /\ "none" \notin Kinds
BY DEF NoCall, Call, Kinds, Program

(***************************************************************************)
(* The inductive invariant.                                                *)
(***************************************************************************)
\* A call that has not come in has done nothing; only it can be unauthorized.
Fresh ==
  \A c \in Calls :
    /\ call[c] = NoCall =>
         /\ pc[c] = 1 /\ conn[c] = NoConnection /\ block[c] = "none" /\ found[c] = {}
         /\ c \notin stored /\ c \notin queue
         /\ answer[c] \in {"none", "unauthorized"}
    /\ answer[c] = "unauthorized" => call[c] = NoCall

\* A call about to enter its block holds no connection.
BeginsClean ==
  \A c \in Calls : At(c, {"begin"}) => conn[c] = NoConnection

\* What is stored and enqueued is what the program has passed.
Behind ==
  \A c \in Calls : call[c] # NoCall =>
    LET program == Program[call[c].kind]
    IN  /\ c \in stored <=>
             \E i \in DOMAIN program : program[i] = "commit" /\ i < pc[c]
        /\ c \in queue <=>
             \E i \in DOMAIN program : program[i] = "send" /\ i < pc[c]

\* How a call ended says where its program is.
Ended ==
  \A c \in Calls :
    LET program == Program[call[c].kind]
    IN  /\ answer[c] = "ok" => call[c] # NoCall /\ pc[c] \notin DOMAIN program
        /\ answer[c] = "not_found" =>
             call[c] # NoCall /\ pc[c] \in DOMAIN program /\ program[pc[c]] \in {"select", "absent"}

\* If nothing has failed of its own, a call that fails after its commit was to
\* refresh.
Unfailing ==
  \A c \in Calls :
    answer[c] = "failed" /\ c \in stored /\ failures = 0 =>
      call[c] # NoCall /\ "refresh" \in Ops(call[c].kind)

\* A block is open until a commit inside it, and over from there to its end.
BlockFollows ==
  \A c \in Calls : UnderWay(c) =>
    LET program == Program[call[c].kind]
        Left == \E i \in DOMAIN program : program[i] = "leave" /\ i < pc[c]
        Committed == \E i \in DOMAIN program : program[i] = "commit" /\ i < pc[c]
        Begun == \E i \in DOMAIN program : program[i] = "begin" /\ i < pc[c]
    IN  Begun /\ ~Left => block[c] = IF Committed THEN "over" ELSE "open"

\* An open block has a connection that carries its call's organization.
OpenIsSet ==
  \A c \in Calls : block[c] = "open" =>
    conn[c] # NoConnection /\ setting[conn[c]] = call[c].org

\* No program that begins a block gets past a refresh.
RefreshAhead ==
  \A c \in Calls : call[c] # NoCall =>
    LET program == Program[call[c].kind]
    IN  \A i, j \in DOMAIN program :
          program[i] = "refresh" /\ program[j] = "begin" => pc[c] <= i

IInv ==
  /\ TypeOK
  /\ Fresh
  /\ BeginsClean
  /\ Behind
  /\ Ended
  /\ Unfailing
  /\ BlockFollows
  /\ RefreshAhead
  /\ OpenIsSet
  /\ SettingIsTheHolders
  /\ OwnRowsOnly

(***************************************************************************)
(* Each part of it is kept by every step of a call.                        *)
(***************************************************************************)
\* Every variable keeps its type.
LEMMA TypeStep ==
  ASSUME IInv, NEW c \in Calls, CallStep(c) PROVE TypeOK'
<1> USE SentinelAssumption, BoundAssumption DEF IInv, TypeOK, UnderWay, At, Free
<1>1. CASE Arrive(c)
  <2>1. PICK kind \in Kinds, org \in Orgs, target \in Orgs :
          call' = [call EXCEPT ![c] =
                     [kind |-> kind, target |-> target,
                      org |-> IF "begin" \in Ops(kind) THEN org ELSE NoOrg]]
    BY <1>1 DEF Arrive
  <2>2. call'[c] \in Call
    BY <2>1 DEF Call
  <2>3. QED
    BY <1>1, <2>1, <2>2 DEF Arrive
<1>2. CASE RefuseToken(c)
  BY <1>2 DEF RefuseToken
<1>3. CASE Begin(c)
  <2>1. call[c].org \in Orgs \cup {NoOrg}
    BY <1>3 DEF Begin, Call
  <2>2. QED
    BY <1>3, <2>1 DEF Begin, Step
<1>4. CASE Autobegin(c)
  BY <1>4 DEF Autobegin
<1>5. CASE PoolTimeout(c)
  BY <1>5 DEF PoolTimeout, End, Release
<1>6. CASE Select(c)
  <2>1. Visible(c) \subseteq {call[c].target} /\ call[c].target \in Orgs
    BY <1>6 DEF Visible, Select, Call
  <2>2. QED
    BY <1>6, <2>1 DEF Select, Step
<1>7. CASE NotFound(c)
  BY <1>7 DEF NotFound, End, Release
<1>8. CASE Look(c)
  <2>1. Visible(c) \subseteq {call[c].target} /\ call[c].target \in Orgs
    BY <1>8 DEF Visible, Look, Call
  <2>2. QED
    BY <1>8, <2>1 DEF Look, Step
<1>9. CASE Write(c)
  BY <1>9 DEF Write, Step
<1>10. CASE Commit(c)
  BY <1>10 DEF Commit, Release, Step
<1>11. CASE Refresh(c)
  BY <1>11 DEF Refresh, Step
<1>12. CASE RefusedByBlock(c)
  BY <1>12 DEF RefusedByBlock, End, Release
<1>13. CASE Send(c)
  BY <1>13 DEF Send, Step
<1>14. CASE Leave(c)
  BY <1>14 DEF Leave, Release, Step
<1>15. CASE Raise(c)
  BY <1>15 DEF Raise, End, Release
<1>16. CASE Finish(c)
  BY <1>16 DEF Finish, End, Release
<1>17. CASE Absent(c)
  BY <1>17 DEF Absent, End, Release
<1>18. QED
  BY <1>1, <1>2, <1>3, <1>4, <1>5, <1>6, <1>7, <1>8, <1>9, <1>10, <1>11, <1>12,
     <1>13, <1>14, <1>15, <1>16, <1>17 DEF CallStep

\* Only Arrive and RefuseToken touch a call that has not come in.
LEMMA FreshStep ==
  ASSUME IInv, NEW c \in Calls, CallStep(c) PROVE Fresh'
<1> USE NoCallIsNoCall DEF IInv, TypeOK, Fresh, UnderWay, At, NeedsConnection
<1>1. CASE Arrive(c)
  BY <1>1 DEF Arrive
<1>2. CASE RefuseToken(c)
  BY <1>2 DEF RefuseToken
<1>3. CASE Begin(c)
  BY <1>3 DEF Begin, Step
<1>4. CASE Autobegin(c)
  BY <1>4 DEF Autobegin
<1>5. CASE PoolTimeout(c)
  BY <1>5 DEF PoolTimeout, End, Release
<1>6. CASE Select(c)
  BY <1>6 DEF Select, Step
<1>7. CASE NotFound(c)
  BY <1>7 DEF NotFound, End, Release
<1>8. CASE Look(c)
  BY <1>8 DEF Look, Step
<1>9. CASE Write(c)
  BY <1>9 DEF Write, Step
<1>10. CASE Commit(c)
  BY <1>10 DEF Commit, Release, Step
<1>11. CASE Refresh(c)
  BY <1>11 DEF Refresh, Step
<1>12. CASE RefusedByBlock(c)
  BY <1>12 DEF RefusedByBlock, End, Release
<1>13. CASE Send(c)
  BY <1>13 DEF Send, Step
<1>14. CASE Leave(c)
  BY <1>14 DEF Leave, Release, Step
<1>15. CASE Raise(c)
  BY <1>15 DEF Raise, End, Release
<1>16. CASE Finish(c)
  BY <1>16 DEF Finish, End, Release
<1>17. CASE Absent(c)
  BY <1>17 DEF Absent, End, Release
<1>18. QED
  BY <1>1, <1>2, <1>3, <1>4, <1>5, <1>6, <1>7, <1>8, <1>9, <1>10, <1>11, <1>12,
     <1>13, <1>14, <1>15, <1>16, <1>17 DEF CallStep

\* A program begins at its first step, before which nothing takes a connection.
LEMMA BeginsCleanStep ==
  ASSUME IInv, NEW c \in Calls, CallStep(c) PROVE BeginsClean'
<1> USE NoCallIsNoCall, ProgramsOrdered DEF IInv, TypeOK, Fresh, BeginsClean, UnderWay,
       At, Call, Ordered, NeedsConnection
<1>1. CASE Arrive(c)
  BY <1>1 DEF Arrive
<1>2. CASE RefuseToken(c)
  BY <1>2 DEF RefuseToken
<1>3. CASE Begin(c)
  BY <1>3 DEF Begin, Step
<1>4. CASE Autobegin(c)
  BY <1>4 DEF Autobegin
<1>5. CASE PoolTimeout(c)
  BY <1>5 DEF PoolTimeout, End, Release
<1>6. CASE Select(c)
  BY <1>6 DEF Select, Step
<1>7. CASE NotFound(c)
  BY <1>7 DEF NotFound, End, Release
<1>8. CASE Look(c)
  BY <1>8 DEF Look, Step
<1>9. CASE Write(c)
  BY <1>9 DEF Write, Step
<1>10. CASE Commit(c)
  BY <1>10 DEF Commit, Release, Step
<1>11. CASE Refresh(c)
  BY <1>11 DEF Refresh, Step
<1>12. CASE RefusedByBlock(c)
  BY <1>12 DEF RefusedByBlock, End, Release
<1>13. CASE Send(c)
  BY <1>13 DEF Send, Step
<1>14. CASE Leave(c)
  BY <1>14 DEF Leave, Release, Step
<1>15. CASE Raise(c)
  BY <1>15 DEF Raise, End, Release
<1>16. CASE Finish(c)
  BY <1>16 DEF Finish, End, Release
<1>17. CASE Absent(c)
  BY <1>17 DEF Absent, End, Release
<1>18. QED
  BY <1>1, <1>2, <1>3, <1>4, <1>5, <1>6, <1>7, <1>8, <1>9, <1>10, <1>11, <1>12,
     <1>13, <1>14, <1>15, <1>16, <1>17 DEF CallStep

\* A connection is taken when it is free, and given back without its setting.
LEMMA HoldersStep ==
  ASSUME IInv, NEW c \in Calls, CallStep(c) PROVE SettingIsTheHolders'
<1> USE SentinelAssumption DEF IInv, TypeOK, Fresh, BeginsClean, SettingIsTheHolders,
       UnderWay, At, Free, NeedsConnection
<1>1. CASE Arrive(c)
  BY <1>1 DEF Arrive
<1>2. CASE RefuseToken(c)
  BY <1>2 DEF RefuseToken
<1>3. CASE Begin(c)
  BY <1>3 DEF Begin, Step
<1>4. CASE Autobegin(c)
  BY <1>4 DEF Autobegin
<1>5. CASE PoolTimeout(c)
  BY <1>5 DEF PoolTimeout, End, Release
<1>6. CASE Select(c)
  BY <1>6 DEF Select, Step
<1>7. CASE NotFound(c)
  BY <1>7 DEF NotFound, End, Release
<1>8. CASE Look(c)
  BY <1>8 DEF Look, Step
<1>9. CASE Write(c)
  BY <1>9 DEF Write, Step
<1>10. CASE Commit(c)
  BY <1>10 DEF Commit, Release, Step
<1>11. CASE Refresh(c)
  BY <1>11 DEF Refresh, Step
<1>12. CASE RefusedByBlock(c)
  BY <1>12 DEF RefusedByBlock, End, Release
<1>13. CASE Send(c)
  BY <1>13 DEF Send, Step
<1>14. CASE Leave(c)
  BY <1>14 DEF Leave, Release, Step
<1>15. CASE Raise(c)
  BY <1>15 DEF Raise, End, Release
<1>16. CASE Finish(c)
  BY <1>16 DEF Finish, End, Release
<1>17. CASE Absent(c)
  BY <1>17 DEF Absent, End, Release
<1>18. QED
  BY <1>1, <1>2, <1>3, <1>4, <1>5, <1>6, <1>7, <1>8, <1>9, <1>10, <1>11, <1>12,
     <1>13, <1>14, <1>15, <1>16, <1>17 DEF CallStep

\* The setting of an open block lasts as long as the block: only its own call
\* releases its connection.
LEMMA OpenIsSetStep ==
  ASSUME IInv, NEW c \in Calls, CallStep(c) PROVE OpenIsSet'
<1> USE SentinelAssumption DEF IInv, TypeOK, Fresh, SettingIsTheHolders, OpenIsSet,
       UnderWay, At, Free, NeedsConnection
<1>1. CASE Arrive(c)
  BY <1>1 DEF Arrive
<1>2. CASE RefuseToken(c)
  BY <1>2 DEF RefuseToken
<1>3. CASE Begin(c)
  BY <1>3 DEF Begin, Step
<1>4. CASE Autobegin(c)
  BY <1>4 DEF Autobegin
<1>5. CASE PoolTimeout(c)
  BY <1>5 DEF PoolTimeout, End, Release
<1>6. CASE Select(c)
  BY <1>6 DEF Select, Step
<1>7. CASE NotFound(c)
  BY <1>7 DEF NotFound, End, Release
<1>8. CASE Look(c)
  BY <1>8 DEF Look, Step
<1>9. CASE Write(c)
  BY <1>9 DEF Write, Step
<1>10. CASE Commit(c)
  BY <1>10 DEF Commit, Release, Step
<1>11. CASE Refresh(c)
  BY <1>11 DEF Refresh, Step
<1>12. CASE RefusedByBlock(c)
  BY <1>12 DEF RefusedByBlock, End, Release
<1>13. CASE Send(c)
  BY <1>13 DEF Send, Step
<1>14. CASE Leave(c)
  BY <1>14 DEF Leave, Release, Step
<1>15. CASE Raise(c)
  BY <1>15 DEF Raise, End, Release
<1>16. CASE Finish(c)
  BY <1>16 DEF Finish, End, Release
<1>17. CASE Absent(c)
  BY <1>17 DEF Absent, End, Release
<1>18. QED
  BY <1>1, <1>2, <1>3, <1>4, <1>5, <1>6, <1>7, <1>8, <1>9, <1>10, <1>11, <1>12,
     <1>13, <1>14, <1>15, <1>16, <1>17 DEF CallStep

\* What row-level security shows is of the organization the call itself has set.
LEMMA OwnRowsStep ==
  ASSUME IInv, NEW c \in Calls, CallStep(c) PROVE OwnRowsOnly'
<1> USE SentinelAssumption DEF IInv, TypeOK, Fresh, SettingIsTheHolders,
       OwnRowsOnly, UnderWay, At, Usable
<1>1. CASE Arrive(c)
  BY <1>1 DEF Arrive
<1>2. CASE RefuseToken(c)
  BY <1>2 DEF RefuseToken
<1>3. CASE Begin(c)
  BY <1>3 DEF Begin, Step
<1>4. CASE Autobegin(c)
  BY <1>4 DEF Autobegin
<1>5. CASE PoolTimeout(c)
  BY <1>5 DEF PoolTimeout, End, Release
<1>6. CASE Select(c)
  <2>1. Visible(c) \subseteq {call[c].org}
    <3> SUFFICES ASSUME NEW o \in Visible(c) PROVE o = call[c].org
      OBVIOUS
    <3>1. o = setting[conn[c]] /\ conn[c] \in Connections /\ o \in Orgs
      BY <1>6 DEF Visible, Select, Call
    <3>2. QED
      BY <3>1
  <2>2. found' = [found EXCEPT ![c] = @ \cup Visible(c)] /\ call' = call
    BY <1>6 DEF Select
  <2>3. QED
    BY <2>1, <2>2
<1>7. CASE NotFound(c)
  BY <1>7 DEF NotFound, End, Release
<1>8. CASE Look(c)
  <2>1. Visible(c) \subseteq {call[c].org}
    <3> SUFFICES ASSUME NEW o \in Visible(c) PROVE o = call[c].org
      OBVIOUS
    <3>1. o = setting[conn[c]] /\ conn[c] \in Connections /\ o \in Orgs
      BY <1>8 DEF Visible, Look, Call
    <3>2. QED
      BY <3>1
  <2>2. found' = [found EXCEPT ![c] = @ \cup Visible(c)] /\ call' = call
    BY <1>8 DEF Look
  <2>3. QED
    BY <2>1, <2>2
<1>9. CASE Write(c)
  BY <1>9 DEF Write, Step
<1>10. CASE Commit(c)
  BY <1>10 DEF Commit, Release, Step
<1>11. CASE Refresh(c)
  BY <1>11 DEF Refresh, Step
<1>12. CASE RefusedByBlock(c)
  BY <1>12 DEF RefusedByBlock, End, Release
<1>13. CASE Send(c)
  BY <1>13 DEF Send, Step
<1>14. CASE Leave(c)
  BY <1>14 DEF Leave, Release, Step
<1>15. CASE Raise(c)
  BY <1>15 DEF Raise, End, Release
<1>16. CASE Finish(c)
  BY <1>16 DEF Finish, End, Release
<1>17. CASE Absent(c)
  BY <1>17 DEF Absent, End, Release
<1>18. QED
  BY <1>1, <1>2, <1>3, <1>4, <1>5, <1>6, <1>7, <1>8, <1>9, <1>10, <1>11, <1>12,
     <1>13, <1>14, <1>15, <1>16, <1>17 DEF CallStep

\* What a program has done by its next position is what it had done, and the
\* step in between.
LEMMA StepPasses ==
  ASSUME IInv, NEW c \in Calls, At(c, {"begin", "select", "look", "write", "commit",
                                        "refresh", "send", "leave"}),
         Step(c), UNCHANGED call,
         stored' = stored \cup (IF At(c, {"commit"}) THEN {c} ELSE {}),
         queue' = queue \cup (IF At(c, {"send"}) THEN {c} ELSE {})
  PROVE  Behind'
<1> DEFINE program == Program[call[c].kind]
<1>1. Behind /\ TypeOK /\ call[c] # NoCall /\ pc[c] \in DOMAIN program
  BY DEF IInv, At, UnderWay
<1>2. pc' = [pc EXCEPT ![c] = @ + 1] /\ pc[c] \in Nat /\ pc'[c] = pc[c] + 1
  BY <1>1 DEF Step, TypeOK
<1>3. \A d \in Calls \ {c} : /\ pc'[d] = pc[d]
                             /\ d \in stored' <=> d \in stored
                             /\ d \in queue' <=> d \in queue
  BY <1>1, <1>2 DEF TypeOK
<1>4. \A i \in DOMAIN program : i \in Nat /\ (i < pc'[c] <=> i < pc[c] \/ i = pc[c])
  <2>1. call[c].kind \in Kinds
    BY <1>1 DEF TypeOK, Call
  <2>2. QED
    BY <1>2, <2>1, ProgramsOrdered DEF Ordered
<1>5. c \in stored' <=> c \in stored \/ program[pc[c]] = "commit"
  BY <1>1 DEF At, UnderWay
<1>6. c \in queue' <=> c \in queue \/ program[pc[c]] = "send"
  BY <1>1 DEF At, UnderWay
<1>7. /\ c \in stored' <=> \E i \in DOMAIN program : program[i] = "commit" /\ i < pc'[c]
      /\ c \in queue' <=> \E i \in DOMAIN program : program[i] = "send" /\ i < pc'[c]
  BY <1>1, <1>4, <1>5, <1>6 DEF Behind
<1>8. QED
  BY <1>1, <1>3, <1>7 DEF Behind

\* Commit and Send are what stores and enqueues.
LEMMA BehindStep ==
  ASSUME IInv, NEW c \in Calls, CallStep(c) PROVE Behind'
<1>1. CASE Arrive(c)
  BY <1>1, NoCallIsNoCall, ProgramsOrdered DEF Arrive, IInv, TypeOK, Fresh, Behind, Ordered
<1>2. CASE RefuseToken(c)
  BY <1>2 DEF RefuseToken, IInv, Behind
<1>3. CASE Begin(c)
  BY <1>3, StepPasses DEF Begin, At
<1>4. CASE Autobegin(c)
  BY <1>4 DEF Autobegin, IInv, Behind
<1>5. CASE PoolTimeout(c)
  BY <1>5 DEF PoolTimeout, End, Release, IInv, Behind
<1>6. CASE Select(c)
  BY <1>6, StepPasses DEF Select, At
<1>7. CASE NotFound(c)
  BY <1>7 DEF NotFound, End, Release, IInv, Behind
<1>8. CASE Look(c)
  BY <1>8, StepPasses DEF Look, At
<1>9. CASE Write(c)
  BY <1>9, StepPasses DEF Write, At
<1>10. CASE Commit(c)
  BY <1>10, StepPasses DEF Commit, At
<1>11. CASE Refresh(c)
  BY <1>11, StepPasses DEF Refresh, At
<1>12. CASE RefusedByBlock(c)
  BY <1>12 DEF RefusedByBlock, End, Release, IInv, Behind
<1>13. CASE Send(c)
  BY <1>13, StepPasses DEF Send, At
<1>14. CASE Leave(c)
  BY <1>14, StepPasses DEF Leave, At
<1>15. CASE Raise(c)
  BY <1>15 DEF Raise, End, Release, IInv, Behind
<1>16. CASE Finish(c)
  BY <1>16 DEF Finish, End, Release, IInv, Behind
<1>17. CASE Absent(c)
  BY <1>17 DEF Absent, End, Release, IInv, Behind
<1>18. QED
  BY <1>1, <1>2, <1>3, <1>4, <1>5, <1>6, <1>7, <1>8, <1>9, <1>10, <1>11, <1>12,
     <1>13, <1>14, <1>15, <1>16, <1>17 DEF CallStep

\* An answer is final.
LEMMA EndedStep ==
  ASSUME IInv, NEW c \in Calls, CallStep(c) PROVE Ended'
<1> USE NoCallIsNoCall DEF IInv, TypeOK, Fresh, Ended, UnderWay, At
<1>1. CASE Arrive(c)
  BY <1>1 DEF Arrive
<1>2. CASE RefuseToken(c)
  BY <1>2 DEF RefuseToken
<1>3. CASE Begin(c)
  BY <1>3 DEF Begin, Step
<1>4. CASE Autobegin(c)
  BY <1>4 DEF Autobegin
<1>5. CASE PoolTimeout(c)
  BY <1>5 DEF PoolTimeout, End, Release
<1>6. CASE Select(c)
  BY <1>6 DEF Select, Step
<1>7. CASE NotFound(c)
  BY <1>7 DEF NotFound, End, Release
<1>8. CASE Look(c)
  BY <1>8 DEF Look, Step
<1>9. CASE Write(c)
  BY <1>9 DEF Write, Step
<1>10. CASE Commit(c)
  BY <1>10 DEF Commit, Release, Step
<1>11. CASE Refresh(c)
  BY <1>11 DEF Refresh, Step
<1>12. CASE RefusedByBlock(c)
  BY <1>12 DEF RefusedByBlock, End, Release
<1>13. CASE Send(c)
  BY <1>13 DEF Send, Step
<1>14. CASE Leave(c)
  BY <1>14 DEF Leave, Release, Step
<1>15. CASE Raise(c)
  BY <1>15 DEF Raise, End, Release
<1>16. CASE Finish(c)
  BY <1>16 DEF Finish, End, Release
<1>17. CASE Absent(c)
  BY <1>17 DEF Absent, End, Release
<1>18. QED
  BY <1>1, <1>2, <1>3, <1>4, <1>5, <1>6, <1>7, <1>8, <1>9, <1>10, <1>11, <1>12,
     <1>13, <1>14, <1>15, <1>16, <1>17 DEF CallStep

\* A call whose row is stored needs its session again only to refresh.
LEMMA OnlyRefreshNeedsTheSession ==
  ASSUME IInv, NEW c \in Calls, At(c, {"begin"} \cup Statements), c \in stored
  PROVE  "refresh" \in Ops(call[c].kind)
<1> DEFINE program == Program[call[c].kind]
<1>1. /\ call[c] # NoCall /\ call[c].kind \in Kinds /\ pc[c] \in DOMAIN program
      /\ program[pc[c]] \in {"begin"} \cup Statements
  BY DEF At, UnderWay, IInv, TypeOK, Call
<1>2. PICK j \in DOMAIN program : program[j] = "commit" /\ j < pc[c]
  BY <1>1 DEF IInv, Behind
<1>3. program[pc[c]] = "refresh"
  BY <1>1, <1>2, ProgramsOrdered DEF Ordered
<1>4. QED
  BY <1>1, <1>3 DEF Ops

\* Of its own a call fails only where it needs a connection or runs a statement.
LEMMA UnfailingStep ==
  ASSUME IInv, NEW c \in Calls, CallStep(c) PROVE Unfailing'
<1> USE NoCallIsNoCall DEF IInv, TypeOK, Unfailing
<1>1. CASE PoolTimeout(c) \/ RefusedByBlock(c)
  <2>1. /\ At(c, {"begin"} \cup Statements)
        /\ UNCHANGED <<call, stored, failures>> /\ \A d \in Calls \ {c} : answer'[d] = answer[d]
    BY <1>1 DEF PoolTimeout, RefusedByBlock, End, NeedsConnection, At
  <2>2. call[c] # NoCall
    BY <2>1 DEF At, UnderWay
  <2>3. c \in stored => "refresh" \in Ops(call[c].kind)
    BY <2>1, OnlyRefreshNeedsTheSession
  <2>4. QED
    BY <2>1, <2>2, <2>3
<1>2. CASE Raise(c)
  <2>1. failures' # 0
    BY <1>2 DEF Raise
  <2>2. QED
    BY <2>1
<1>3. CASE Arrive(c) \/ RefuseToken(c) \/ Autobegin(c)
  BY <1>3 DEF Arrive, RefuseToken, Autobegin, Fresh
<1>4. CASE NotFound(c) \/ Absent(c) \/ Finish(c)
  BY <1>4 DEF NotFound, Absent, Finish, End
<1>5. CASE \/ Begin(c) \/ Select(c) \/ Look(c) \/ Write(c) \/ Refresh(c) \/ Send(c)
            \/ Leave(c)
  BY <1>5 DEF Begin, Select, Look, Write, Refresh, Send, Leave
<1>6. CASE Commit(c)
  BY <1>6 DEF Commit, At, UnderWay
<1>7. QED
  BY <1>1, <1>2, <1>3, <1>4, <1>5, <1>6 DEF CallStep

\* A step that neither opens a block nor commits nor leaves moves the program on
\* and keeps the block.
LEMMA BlockKept ==
  ASSUME IInv, NEW c \in Calls, At(c, {"select", "look", "write", "refresh", "send"}),
         Step(c), UNCHANGED <<call, block, answer>>
  PROVE  BlockFollows'
<1>1. call[c].kind \in Kinds /\ pc[c] \in Nat \ {0} /\ UnderWay(c)
  BY DEF IInv, TypeOK, Call, At, UnderWay
<1>2. \A i \in DOMAIN Program[call[c].kind] : i < pc'[c] <=> i < pc[c] \/ i = pc[c]
  BY <1>1, ProgramsOrdered DEF Ordered, Step, IInv, TypeOK
<1>3. \A d \in Calls \ {c} : pc'[d] = pc[d]
  BY DEF Step, IInv, TypeOK
<1>4. Program[call[c].kind][pc[c]] \notin {"begin", "commit", "leave"}
  BY DEF At
<1>5. QED
  BY <1>1, <1>2, <1>3, <1>4 DEF IInv, BlockFollows, UnderWay

\* The block of a call follows its program.
LEMMA BlockFollowsStep ==
  ASSUME IInv, NEW c \in Calls, CallStep(c) PROVE BlockFollows'
<1> USE NoCallIsNoCall DEF IInv, TypeOK, UnderWay, At
<1>1. CASE Arrive(c)
  <2>1. pc[c] = 1 /\ pc' = pc /\ block' = block /\ answer' = answer
    BY <1>1 DEF Arrive, Fresh
  <2>2. call'[c].kind \in Kinds /\ \A d \in Calls \ {c} : call'[d] = call[d]
    BY <1>1 DEF Arrive
  <2>3. \A i \in DOMAIN Program[call'[c].kind] : ~(i < 1)
    BY <2>2, ProgramsOrdered DEF Ordered
  <2>4. QED
    BY <2>1, <2>2, <2>3 DEF BlockFollows
<1>2. CASE RefuseToken(c)
  BY <1>2 DEF RefuseToken, BlockFollows
<1>3. ASSUME Begin(c) \/ Commit(c) \/ Leave(c) PROVE BlockFollows'
  <2> DEFINE program == Program[call[c].kind]
  <2>1. /\ UnderWay(c) /\ pc[c] \in DOMAIN program /\ call[c].kind \in Kinds
        /\ UNCHANGED <<call, answer>> /\ pc' = [pc EXCEPT ![c] = @ + 1]
    BY <1>3 DEF Begin, Commit, Leave, Step, Call
  <2>2. Ordered(program) /\ pc[c] \in Nat \ {0}
    BY <2>1, ProgramsOrdered
  <2>3. \A i \in DOMAIN program : i < pc'[c] <=> i < pc[c] \/ i = pc[c]
    BY <2>1, <2>2 DEF Ordered
  <2>4. \A d \in Calls \ {c} : pc'[d] = pc[d] /\ block'[d] = block[d]
    BY <1>3, <2>1 DEF Begin, Commit, Leave
  <2>5. CASE Begin(c)
    <3>1. pc[c] = 1 /\ program[pc[c]] = "begin" /\ block'[c] = "open"
      BY <2>1, <2>2, <2>5 DEF Begin, Ordered
    <3>2. \A i \in DOMAIN program : ~(i < pc[c])
      BY <2>2, <3>1 DEF Ordered
    <3>3. QED
      BY <2>1, <2>3, <2>4, <3>1, <3>2 DEF BlockFollows
  <2>6. CASE Commit(c)
    <3>1. /\ program[pc[c]] = "commit" /\ block[c] # "over"
          /\ block'[c] = IF block[c] = "open" THEN "over" ELSE block[c]
      BY <2>6 DEF Commit, Usable
    <3>2. QED
      BY <2>1, <2>3, <2>4, <3>1 DEF BlockFollows
  <2>7. CASE Leave(c)
    <3>1. program[pc[c]] = "leave"
      BY <2>7 DEF Leave
    <3>2. QED
      BY <2>1, <2>3, <2>4, <3>1 DEF BlockFollows
  <2>8. QED
    BY <1>3, <2>5, <2>6, <2>7
<1>4. CASE Autobegin(c)
  BY <1>4 DEF Autobegin, BlockFollows
<1>5. CASE Select(c) \/ Look(c) \/ Write(c) \/ Refresh(c) \/ Send(c)
  BY <1>5, BlockKept DEF Select, Look, Write, Refresh, Send
<1>6. CASE \/ PoolTimeout(c) \/ NotFound(c) \/ Absent(c) \/ RefusedByBlock(c)
            \/ Raise(c) \/ Finish(c)
  <2>1. /\ UNCHANGED <<call, pc>> /\ answer'[c] # "none"
        /\ \A d \in Calls \ {c} : answer'[d] = answer[d] /\ block'[d] = block[d]
    BY <1>6 DEF PoolTimeout, NotFound, Absent, RefusedByBlock, Raise, Finish, End
  <2>2. QED
    BY <2>1 DEF BlockFollows
<1>7. QED
  BY <1>1, <1>2, <1>3, <1>4, <1>5, <1>6 DEF CallStep

\* A refresh comes after the commit and before the end of the block, where the
\* block is over and refuses it.
LEMMA NoRefreshInBlock ==
  ASSUME IInv, NEW c \in Calls, Refresh(c)
  PROVE  \A j \in DOMAIN Program[call[c].kind] : Program[call[c].kind][j] # "begin"
<1> DEFINE program == Program[call[c].kind]
<1>1. /\ UnderWay(c) /\ pc[c] \in DOMAIN program /\ program[pc[c]] = "refresh"
      /\ block[c] # "over" /\ call[c].kind \in Kinds
  BY NoCallIsNoCall DEF Refresh, At, UnderWay, Usable, IInv, TypeOK, Call
<1>2. Ordered(program)
  BY <1>1, ProgramsOrdered
<1> SUFFICES ASSUME NEW j \in DOMAIN program, program[j] = "begin" PROVE FALSE
  OBVIOUS
<1>3. PICK k \in DOMAIN program : program[k] = "commit" /\ k < pc[c]
  BY <1>1, <1>2 DEF Ordered
<1>4. j = 1 /\ j < pc[c]
  BY <1>1, <1>2 DEF Ordered, IInv, TypeOK
<1>5. \A i \in DOMAIN program : program[i] = "leave" => ~(i < pc[c])
  BY <1>1, <1>2 DEF Ordered
<1>6. block[c] = "over"
  BY <1>1, <1>3, <1>4, <1>5 DEF IInv, BlockFollows
<1>7. QED
  BY <1>1, <1>6

\* So a program with a block stops at its refresh.
LEMMA RefreshAheadStep ==
  ASSUME IInv, NEW c \in Calls, CallStep(c) PROVE RefreshAhead'
<1> USE NoCallIsNoCall DEF IInv, TypeOK, UnderWay, At
<1>1. CASE Arrive(c)
  <2>1. pc[c] = 1 /\ pc' = pc
    BY <1>1 DEF Arrive, Fresh
  <2>2. call'[c].kind \in Kinds /\ \A d \in Calls \ {c} : call'[d] = call[d]
    BY <1>1 DEF Arrive
  <2>3. \A i \in DOMAIN Program[call'[c].kind] : 1 <= i
    BY <2>2, ProgramsOrdered DEF Ordered
  <2>4. QED
    BY <2>1, <2>2, <2>3 DEF RefreshAhead
<1>2. CASE Refresh(c)
  <2>1. call' = call /\ \A d \in Calls \ {c} : pc'[d] = pc[d]
    BY <1>2 DEF Refresh, Step
  <2>2. \A j \in DOMAIN Program[call[c].kind] : Program[call[c].kind][j] # "begin"
    BY <1>2, NoRefreshInBlock
  <2> SUFFICES ASSUME NEW d \in Calls, call'[d] # NoCall,
                      NEW i \in DOMAIN Program[call'[d].kind], NEW j \in DOMAIN Program[call'[d].kind],
                      Program[call'[d].kind][i] = "refresh", Program[call'[d].kind][j] = "begin"
               PROVE  pc'[d] <= i
    BY DEF RefreshAhead
  <2>3. d # c
    BY <2>1, <2>2
  <2>4. QED
    BY <2>1, <2>3 DEF RefreshAhead
<1>3. CASE Begin(c) \/ Select(c) \/ Look(c) \/ Write(c) \/ Commit(c) \/ Send(c) \/ Leave(c)
  <2>1. /\ call' = call /\ pc' = [pc EXCEPT ![c] = @ + 1] /\ call[c] # NoCall
        /\ call[c].kind \in Kinds
        /\ Program[call[c].kind][pc[c]] # "refresh"
    BY <1>3 DEF Begin, Select, Look, Write, Commit, Send, Leave, Step, Call
  <2>2. \A i \in DOMAIN Program[call[c].kind] : i \in Nat /\ (i = pc[c] \/ ~(pc[c] <= i) \/ pc'[c] <= i)
    BY <2>1, ProgramsOrdered DEF Ordered
  <2>3. QED
    BY <2>1, <2>2 DEF RefreshAhead
<1>4. CASE \/ RefuseToken(c) \/ Autobegin(c) \/ PoolTimeout(c) \/ NotFound(c) \/ Absent(c)
            \/ RefusedByBlock(c) \/ Raise(c) \/ Finish(c)
  BY <1>4 DEF RefuseToken, Autobegin, PoolTimeout, NotFound, Absent, RefusedByBlock, Raise,
     Finish, End, RefreshAhead
<1>5. QED
  BY <1>1, <1>2, <1>3, <1>4 DEF CallStep

\* The invariant holds at first.
LEMMA InitEstablishesIInv == Init => IInv
BY NoCallIsNoCall, SentinelAssumption
   DEF Init, IInv, TypeOK, Fresh, BeginsClean, Behind, Ended, Unfailing,
       BlockFollows, RefreshAhead, OpenIsSet, SettingIsTheHolders, OwnRowsOnly, At,
       UnderWay

\* Every step keeps the invariant.
LEMMA NextPreservesIInv == IInv /\ [Next]_vars => IInv'
<1> SUFFICES ASSUME IInv, [Next]_vars PROVE IInv'
  OBVIOUS
<1>1. CASE \E c \in Calls : CallStep(c)
  BY <1>1, TypeStep, FreshStep, BeginsCleanStep, HoldersStep, OwnRowsStep, BehindStep,
     EndedStep, UnfailingStep, BlockFollowsStep, RefreshAheadStep, OpenIsSetStep DEF IInv
<1>2. CASE UNCHANGED vars
  BY <1>2 DEF vars, IInv, TypeOK, Fresh, BeginsClean, Behind, Ended, Unfailing,
              BlockFollows, RefreshAhead, OpenIsSet, SettingIsTheHolders, OwnRowsOnly,
              At, UnderWay
<1>3. QED
  BY <1>1, <1>2 DEF Next

\* So it holds always.
LEMMA IInvHolds == Spec => []IInv
BY InitEstablishesIInv, NextPreservesIInv, PTL DEF Spec

\* What a call that ended with 404 had passed: no commit, and a send exactly if it
\* is the polling one.
LEMMA NotFoundFollows ==
  ASSUME IInv, NEW c \in Calls, answer[c] = "not_found"
  PROVE  c \notin stored /\ (c \in queue <=> call[c].kind = "poll_verdict")
<1> DEFINE program == Program[call[c].kind]
<1>1. /\ call[c] # NoCall /\ call[c].kind \in Kinds /\ pc[c] \in DOMAIN program
      /\ program[pc[c]] \in {"select", "absent"}
  BY DEF IInv, Ended, TypeOK, Call
<1>2. Ordered(program) /\ pc[c] \in Nat
  BY <1>1, ProgramsOrdered DEF IInv, TypeOK
<1>3. \A i \in DOMAIN program : i \in Nat
  BY <1>2 DEF Ordered
<1>4. /\ c \in stored <=> \E i \in DOMAIN program : program[i] = "commit" /\ i < pc[c]
      /\ c \in queue <=> \E i \in DOMAIN program : program[i] = "send" /\ i < pc[c]
  BY <1>1 DEF IInv, Behind
<1>5. \A i \in DOMAIN program : program[i] = "commit" => pc[c] < i
  BY <1>1, <1>2 DEF Ordered
<1>6. c \notin stored
  BY <1>2, <1>3, <1>4, <1>5
<1>7. CASE call[c].kind = "poll_verdict"
  <2>1. \E j \in DOMAIN program : program[j] = "send" /\ j < pc[c]
    BY <1>1, <1>7, OnlyPollSendsFirst
  <2>2. QED
    BY <1>4, <1>6, <1>7, <2>1
<1>8. CASE call[c].kind # "poll_verdict"
  <2>1. \A j \in DOMAIN program : program[j] = "send" => pc[c] < j
    BY <1>1, <1>2, <1>8, OnlyPollSendsFirst DEF Ordered
  <2>2. QED
    BY <1>2, <1>3, <1>4, <1>6, <1>8, <2>1
<1>9. QED
  BY <1>7, <1>8

\* What the programs have done is what the answers tell.
LEMMA AnswersFollow == IInv => AnswerTells
<1> SUFFICES ASSUME IInv, NEW c \in Calls
             PROVE  /\ answer[c] = "ok" =>
                         /\ "commit" \in Ops(call[c].kind) => c \in stored
                         /\ "send" \in Ops(call[c].kind) => c \in queue
                    /\ answer[c] = "unauthorized" => c \notin stored \cup queue
                    /\ c \in queue /\ "commit" \in Ops(call[c].kind) => c \in stored
  BY NotFoundFollows DEF AnswerTells, IInv, Unfailing
<1>1. CASE call[c] = NoCall
  BY <1>1 DEF IInv, Fresh, Ended
<1>2. CASE call[c] # NoCall
  <2> DEFINE program == Program[call[c].kind]
  <2>1. Ordered(program) /\ pc[c] \in Nat \ {0}
    BY <1>2, ProgramsOrdered DEF IInv, TypeOK, Call
  <2>2. /\ c \in stored <=> \E i \in DOMAIN program : program[i] = "commit" /\ i < pc[c]
        /\ c \in queue <=> \E i \in DOMAIN program : program[i] = "send" /\ i < pc[c]
    BY <1>2 DEF IInv, Behind
  <2>3. answer[c] = "ok" => \A i \in DOMAIN program : i < pc[c]
    BY <2>1 DEF IInv, Ended, Ordered
  <2>4. answer[c] # "unauthorized"
    BY <1>2 DEF IInv, Fresh
  <2>5. \A op : op \in Ops(call[c].kind) <=> \E i \in DOMAIN program : program[i] = op
    BY DEF Ops
  <2>6. c \in queue /\ "commit" \in Ops(call[c].kind) => c \in stored
    BY <2>1, <2>2, <2>5 DEF Ordered
  <2>7. QED
    BY <2>2, <2>3, <2>4, <2>5, <2>6
<1>3. QED
  BY <1>1, <1>2

\* The state keeps its types.
THEOREM TypeCorrect == Spec => []TypeOK
<1>1. IInv => TypeOK
  BY DEF IInv
<1>2. QED
  BY <1>1, IInvHolds, PTL

\* A connection carries an organization only within a transaction of it, and
\* belongs to one call at a time.
THEOREM ConnectionsClean == Spec => []SettingIsTheHolders
<1>1. IInv => SettingIsTheHolders
  BY DEF IInv
<1>2. QED
  BY <1>1, IInvHolds, PTL

\* I2: no call ever reads a row of another organization.
THEOREM OrganizationsIsolated == Spec => []OwnRowsOnly
<1>1. IInv => OwnRowsOnly
  BY DEF IInv
<1>2. QED
  BY <1>1, IInvHolds, PTL

\* Success means stored and sent, a 401 neither, a 404 not stored and sent only by
\* read_verdict; no task is ahead of its row; and only the refresh fails a call
\* whose row is stored, unless something fails of its own.
THEOREM AnswersTell == Spec => []AnswerTells
BY AnswersFollow, IInvHolds, PTL

\* Where a call is when it reads or writes decides what its connection carries.
LEMMA PolicyFollows == IInv => PolicyIsExact
<1> SUFFICES ASSUME IInv, NEW c \in Calls, Usable(c), At(c, {"write", "select"})
             PROVE  /\ setting[conn[c]] = call[c].org
                    /\ At(c, {"select"}) => (Visible(c) # {} <=> call[c].target = call[c].org)
  BY DEF PolicyIsExact, At
<1> DEFINE program == Program[call[c].kind]
<1>1. /\ UnderWay(c) /\ call[c] \in Call /\ pc[c] \in DOMAIN program
      /\ program[pc[c]] \in {"write", "select"}
      /\ conn[c] \in Connections /\ block[c] # "over"
  BY DEF At, UnderWay, Usable, IInv, TypeOK
<1>2. Ordered(program)
  BY <1>1, ProgramsOrdered DEF Call
<1>3. CASE "begin" \in Ops(call[c].kind)
  <2>1. PICK j \in DOMAIN program : program[j] = "begin"
    BY <1>3 DEF Ops
  <2>2. j < pc[c]
    BY <1>1, <1>2, <2>1 DEF Ordered
  <2>3. \A i \in DOMAIN program : program[i] = "leave" => ~(i < pc[c])
    BY <1>1, <1>2 DEF Ordered
  <2>4. block[c] = "open"
    BY <1>1, <2>1, <2>2, <2>3 DEF IInv, BlockFollows
  <2>5. QED
    BY <1>1, <2>4 DEF IInv, OpenIsSet, Visible
<1>4. CASE "begin" \notin Ops(call[c].kind)
  <2>1. call[c].org = NoOrg
    BY <1>1, <1>4 DEF Call
  <2>2. setting[conn[c]] = NoOrg
    <3> SUFFICES ASSUME setting[conn[c]] # NoOrg PROVE FALSE
      OBVIOUS
    <3>1. PICK d \in Calls : conn[d] = conn[c] /\ call[d].org = setting[conn[c]]
      BY <1>1 DEF IInv, SettingIsTheHolders
    <3>2. d = c
      BY <1>1, <3>1, SentinelAssumption DEF IInv, SettingIsTheHolders
    <3>3. QED
      BY <2>1, <3>1, <3>2
  <2>3. ~At(c, {"select"})
    BY <1>1, <1>2, <1>4 DEF At, Ordered, Ops
  <2>4. QED
    BY <2>1, <2>2, <2>3
<1>5. QED
  BY <1>3, <1>4

\* Row-level security refuses a call other organizations' rows and nothing else.
THEOREM PolicyExact == Spec => []PolicyIsExact
BY PolicyFollows, IInvHolds, PTL

\* A call that holds a connection never waits for another.
THEOREM NoHoldAndWait == Spec => []HoldersNeedNoOther
<1>1. IInv => HoldersNeedNoOther
  <2> SUFFICES ASSUME IInv, NEW c \in Calls, conn[c] # NoConnection
               PROVE  UnderWay(c) /\ ~NeedsConnection(c)
    BY DEF HoldersNeedNoOther
  <2>1. UnderWay(c)
    BY DEF IInv, Fresh, SettingIsTheHolders, UnderWay
  <2>2. ~NeedsConnection(c)
    BY DEF IInv, BeginsClean, NeedsConnection
  <2>3. QED
    BY <2>1, <2>2
<1>2. QED
  BY <1>1, IInvHolds, PTL

\* Where a program stands when it is done, or has sent, is past its refresh.
LEMMA RefreshFollows == IInv => RefreshIsFatal
<1> SUFFICES ASSUME IInv, NEW c \in Calls, call[c] # NoCall,
                    {"begin", "refresh"} \subseteq Ops(call[c].kind)
             PROVE  answer[c] # "ok" /\ c \notin queue
  BY DEF RefreshIsFatal
<1> DEFINE program == Program[call[c].kind]
<1>1. PICK i, j \in DOMAIN program : program[i] = "refresh" /\ program[j] = "begin"
  BY DEF Ops
<1>2. pc[c] <= i /\ pc[c] \in Nat
  BY <1>1 DEF IInv, RefreshAhead, TypeOK
<1>3. Ordered(program)
  BY ProgramsOrdered DEF IInv, TypeOK, Call
<1>4. \A k \in DOMAIN program : k \in Nat
  BY <1>3 DEF Ordered
<1>5. answer[c] # "ok"
  <2>1. pc[c] \notin DOMAIN program => i < pc[c]
    BY <1>2, <1>3 DEF Ordered, IInv, TypeOK
  <2>2. QED
    BY <1>2, <1>4, <2>1 DEF IInv, Ended
<1>6. c \notin queue
  <2>1. \A k \in DOMAIN program : program[k] = "send" => i < k
    BY <1>1, <1>3 DEF Ordered
  <2>2. QED
    BY <1>2, <1>4, <2>1 DEF IInv, Behind
<1>7. QED
  BY <1>5, <1>6

\* The general form of stored_not_enqueued: whatever the pool, the calls and the
\* failures, a call that refreshes inside its block ends with an error after its
\* commit, and its task is not enqueued.
THEOREM RefreshNeverSurvived == Spec => []RefreshIsFatal
BY RefreshFollows, IInvHolds, PTL
=============================================================================
