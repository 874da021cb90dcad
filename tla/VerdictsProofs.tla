---------------------------- MODULE VerdictsProofs ----------------------------
(***************************************************************************)
(* Two parts, each about a module of its own: the verdicts, and chunk_text, *)
(* which cuts the texts whose chunks the judge's context is retrieved from. *)
(*                                                                         *)
(* Verdicts.  A task checks its interview long before it writes the row,   *)
(* and several tasks write the same row column by column.  CheckedTask     *)
(* carries the check to the write: no step takes an interview out of       *)
(* "completed".  RowStays is what an UPDATE relies on: the row it selected *)
(* is still there.                                                         *)
(*                                                                         *)
(* Chunking.  PhrasesIntact speaks of the returned list only.  Its         *)
(* induction over the passes of the loop is Progress: where the loop       *)
(* variable stands after the last chunk, and that the phrases up to its    *)
(* end are intact already.                                                 *)
(***************************************************************************)
EXTENDS Verdicts, Chunking, TLAPS

(***************************************************************************)
(* Verdicts: the inductive invariant.                                      *)
(***************************************************************************)
FromCompleted(s) == s \in Interviews => status[s] = "completed"

\* A task past its check works on the resume or on a completed interview.
CheckedTask ==
  \A w \in Workers : at[w] \in {"read", "selected"} => FromCompleted(task[w][1])

\* A row that a session has loaded is still there.
RowStays == \A w \in Workers : loaded[w] # NoVerdict => verdict # NoVerdict

IInv ==
  TypeOK /\ CheckedTask /\ RowStays /\ OnlyFromCompleted /\ OneSubject /\ NeverFlagged

\* No row, no task.
LEMMA InitInvariant == Init => IInv
<1> SUFFICES ASSUME Init PROVE IInv
  OBVIOUS
<1>1. Resume \in Subjects /\ 0 \in Versions /\ 0 \in Retries
  BY BoundsAssumption DEF Subjects, Versions, Retries
<1>2. NoTask \in Tasks
  BY <1>1 DEF NoTask, Tasks
<1>3. TypeOK
  <2>1. /\ service \in Services
        /\ status \in [Interviews -> {"absent", "scheduled", "completed", "cancelled"}]
        /\ text \in [Subjects -> Versions] /\ queue \in [Tasks -> Nat]
    BY <1>1 DEF Init
  <2>2. /\ task \in [Workers -> Tasks] /\ reading \in [Workers -> Versions]
        /\ loaded \in [Workers -> Verdict \cup {NoVerdict}]
    BY <1>1, <1>2 DEF Init
  <2>3. /\ at \in [Workers -> {"idle", "delivered", "read", "selected", "committed",
                              "raised", "closing"}]
        /\ verdict \in Verdict \cup {NoVerdict}
        /\ overlapped \in BOOLEAN
    BY DEF Init
  <2>4. faults \in 0 .. MaxFaults
    BY BoundsAssumption DEF Init
  <2>5. QED
    BY <2>1, <2>2, <2>3, <2>4 DEF TypeOK
<1>4. CheckedTask /\ RowStays /\ OnlyFromCompleted /\ OneSubject /\ NeverFlagged
  BY DEF Init, CheckedTask, RowStays, OnlyFromCompleted, OneSubject, NeverFlagged
<1>5. QED
  BY <1>3, <1>4 DEF IInv

\* A step that leaves the interviews and the row alone keeps what is said of
\* the row.
LEMMA RowKept ==
  ASSUME IInv, UNCHANGED <<status, verdict, overlapped>>
  PROVE  (OnlyFromCompleted /\ OneSubject /\ NeverFlagged)'
BY DEF IInv, OnlyFromCompleted, OneSubject, NeverFlagged

\* The inputs: a completed interview stays completed.
LEMMA InputStep ==
  ASSUME IInv, Input PROVE IInv'
<1>1. CASE \E i \in Interviews : Schedule(i) \/ Conclude(i)
  <2>1. PICK i \in Interviews, from \in {"absent", "scheduled"},
             to \in {"scheduled", "completed", "cancelled"} : SetStatus(i, from, to)
    BY <1>1 DEF Schedule, Conclude
  <2>2. /\ status[i] # "completed" /\ status' = [status EXCEPT ![i] = to]
        /\ UNCHANGED <<service, text, verdict, queue, at, task, reading, loaded,
                       overlapped, faults>>
    BY <2>1 DEF SetStatus, workerVars
  <2>3. TypeOK'
    BY <2>2 DEF IInv, TypeOK
  <2>4. \A s : FromCompleted(s) => FromCompleted(s)'
    BY <2>2 DEF IInv, TypeOK, FromCompleted
  <2>5. CheckedTask' /\ RowStays'
    BY <2>2, <2>4 DEF IInv, CheckedTask, RowStays
  <2>6. OnlyFromCompleted' /\ OneSubject' /\ NeverFlagged'
    BY <2>2, <2>4 DEF IInv, OnlyFromCompleted, OneSubject, NeverFlagged, FromCompleted
  <2>7. QED
    BY <2>3, <2>5, <2>6 DEF IInv
<1>2. ASSUME NEW s \in Subjects, WriteText(s) PROVE IInv'
  <2>1. /\ text[s] < MaxVersion /\ text' = [text EXCEPT ![s] = @ + 1]
        /\ UNCHANGED <<service, status, verdict, queue, at, task, reading, loaded,
                       overlapped, faults>>
    BY <1>2 DEF WriteText, workerVars
  <2>2. TypeOK'
    BY <2>1, BoundsAssumption DEF IInv, TypeOK, Versions
  <2>3. CheckedTask' /\ RowStays'
    BY <2>1 DEF IInv, CheckedTask, RowStays, FromCompleted
  <2>4. QED
    BY <2>1, <2>2, <2>3, RowKept DEF IInv
<1>3. QED
  BY <1>1, <1>2 DEF Input

\* The route only adds messages.
LEMMA PollStep ==
  ASSUME IInv, Poll PROVE IInv'
<1>1. PICK s \in MostRecent : queue' = [queue EXCEPT ![<<s, 0>>] = @ + 1]
  BY DEF Poll, Publish
<1>2. UNCHANGED <<service, status, text, verdict, at, task, reading, loaded,
                  overlapped, faults>>
  BY DEF Poll, inputs, workerVars
<1>3. <<s, 0>> \in Tasks
  BY BoundsAssumption DEF MostRecent, Current, Subjects, Tasks, Retries
<1>4. TypeOK'
  BY <1>1, <1>2, <1>3 DEF IInv, TypeOK
<1>5. CheckedTask' /\ RowStays'
  BY <1>2 DEF IInv, CheckedTask, RowStays, FromCompleted
<1>6. QED
  BY <1>2, <1>4, <1>5, RowKept DEF IInv

\* What one worker does without touching the row: it moves on with the task it
\* has, or takes another before its check, and messages come or go.
LEMMA LocalStep ==
  ASSUME IInv, NEW w \in Workers,
         NEW next \in {"idle", "delivered", "read", "selected", "raised", "closing"},
         at' = [at EXCEPT ![w] = next] \/ UNCHANGED at,
         UNCHANGED <<service, status, text, verdict, overlapped>>,
         queue' \in [Tasks -> Nat], faults' \in 0 .. MaxFaults,
         NEW m \in Tasks, task' = [task EXCEPT ![w] = m],
         NEW v \in Versions, reading' = [reading EXCEPT ![w] = v],
         NEW row \in {NoVerdict, verdict, loaded[w]}, loaded' = [loaded EXCEPT ![w] = row],
         at'[w] \in {"read", "selected"} => FromCompleted(m[1])
  PROVE  IInv'
<1>1. TypeOK'
  BY DEF IInv, TypeOK
<1>2. CheckedTask'
  BY DEF IInv, TypeOK, CheckedTask, FromCompleted
<1>3. RowStays'
  BY DEF IInv, TypeOK, RowStays
<1>4. QED
  BY <1>1, <1>2, <1>3, RowKept DEF IInv

\* A task that returns: nothing to judge yet, its verdict is done, or given up.
LEMMA ProgressStep ==
  ASSUME IInv, NEW w \in Workers,
         Deliver(w) \/ Skip(w) \/ Read(w) \/ Select(w) \/ Conflict(w) \/ Finish(w)
           \/ Retry(w) \/ GiveUp(w) \/ Ack(w)
  PROVE  IInv'
<1> USE DEF GoTo, inputs, workerVars
<1>1. /\ task[w] \in Tasks /\ task[w][1] \in Subjects /\ task[w][2] \in Retries
      /\ reading[w] \in Versions /\ 0 \in Versions
      /\ queue \in [Tasks -> Nat] /\ faults \in 0 .. MaxFaults
      /\ at = [at EXCEPT ![w] = at[w]] /\ task = [task EXCEPT ![w] = task[w]]
      /\ reading = [reading EXCEPT ![w] = reading[w]]
      /\ loaded = [loaded EXCEPT ![w] = loaded[w]]
  BY BoundsAssumption DEF IInv, TypeOK, Tasks, Versions
<1>2. CASE Deliver(w)
  <2>1. PICK m \in Tasks : /\ queue[m] > 0 /\ queue' = [queue EXCEPT ![m] = @ - 1]
                           /\ task' = [task EXCEPT ![w] = m]
    BY <1>2 DEF Deliver
  <2>2. queue' \in [Tasks -> Nat] /\ at'[w] = "delivered"
    BY <1>2, <2>1 DEF Deliver, IInv, TypeOK
  <2>3. QED
    BY <1>1, <1>2, <2>1, <2>2, LocalStep DEF Deliver
<1>3. CASE Skip(w)
  BY <1>1, <1>3, LocalStep DEF Skip, IInv, TypeOK
<1>4. CASE Read(w)
  <2>1. text[task[w][1]] \in Versions
    BY <1>1 DEF IInv, TypeOK
  <2>2. FromCompleted(task[w][1])
    BY <1>4 DEF Read, Eligible, FromCompleted
  <2>3. QED
    BY <1>1, <1>4, <2>1, <2>2, LocalStep DEF Read
<1>5. CASE Select(w)
  <2>1. FromCompleted(task[w][1])
    BY <1>5 DEF Select, IInv, CheckedTask
  <2>2. QED
    BY <1>1, <1>5, <2>1, LocalStep DEF Select
<1>6. CASE Conflict(w)
  BY <1>1, <1>6, LocalStep DEF Conflict, Forget, IInv, TypeOK
<1>7. CASE Finish(w)
  <2>1. PICK next \in {"closing", "raised"} : at' = [at EXCEPT ![w] = next]
    BY <1>7 DEF Finish
  <2>2. at'[w] \notin {"read", "selected"}
    BY <2>1 DEF IInv, TypeOK
  <2>3. QED
    BY <1>1, <1>7, <2>1, <2>2, LocalStep DEF Finish, Forget
<1>8. CASE Retry(w)
  <2>1. <<task[w][1], task[w][2] + 1>> \in Tasks
    BY <1>1, <1>8, BoundsAssumption DEF Retry, Tasks, Retries
  <2>2. queue' \in [Tasks -> Nat] /\ at'[w] = "closing"
    BY <1>8, <2>1 DEF Retry, Publish, IInv, TypeOK
  <2>3. QED
    BY <1>1, <1>8, <2>2, LocalStep DEF Retry
<1>9. CASE GiveUp(w)
  BY <1>1, <1>9, LocalStep DEF GiveUp, IInv, TypeOK
<1>10. CASE Ack(w)
  <2>1. NoTask \in Tasks
    BY BoundsAssumption DEF NoTask, Tasks, Subjects, Retries
  <2>2. at'[w] = "idle"
    BY <1>10 DEF Ack, IInv, TypeOK
  <2>3. QED
    BY <1>1, <1>10, <2>1, <2>2, LocalStep DEF Ack, Drop, Forget
<1>11. QED
  BY <1>2, <1>3, <1>4, <1>5, <1>6, <1>7, <1>8, <1>9, <1>10

\* A failure loses what the session has read, never the row.
LEMMA FaultStep ==
  ASSUME IInv, NEW w \in Workers, Fault(w) PROVE IInv'
<1> USE DEF GoTo, inputs, workerVars
<1>1. /\ task[w] \in Tasks /\ NoTask \in Tasks /\ reading[w] \in Versions /\ 0 \in Versions
      /\ queue \in [Tasks -> Nat] /\ [queue EXCEPT ![task[w]] = @ + 1] \in [Tasks -> Nat]
      /\ at[w] \in {"idle", "delivered", "read", "selected", "committed", "raised", "closing"}
      /\ task = [task EXCEPT ![w] = task[w]]
      /\ reading = [reading EXCEPT ![w] = reading[w]]
      /\ loaded = [loaded EXCEPT ![w] = loaded[w]]
  BY BoundsAssumption DEF IInv, TypeOK, Tasks, Versions, NoTask, Subjects, Retries
<1>2. faults' \in 0 .. MaxFaults
  BY BoundsAssumption DEF Fault, Raise, Crash, Redeliver, IInv, TypeOK
<1>3. CASE Raise(w)
  <2>1. at'[w] = "raised"
    BY <1>3 DEF Raise, IInv, TypeOK
  <2>2. QED
    BY <1>1, <1>2, <1>3, <2>1, LocalStep DEF Raise, Forget
<1>4. CASE Crash(w)
  <2>1. at'[w] = "idle"
    BY <1>4 DEF Crash, IInv, TypeOK
  <2>2. QED
    BY <1>1, <1>2, <1>4, <2>1, LocalStep DEF Crash, Drop, Forget
<1>5. CASE Redeliver(w)
  <2>1. at[w] \in {"read", "selected"} => FromCompleted(task[w][1])
    BY DEF IInv, CheckedTask
  <2>2. QED
    BY <1>1, <1>2, <1>5, <2>1, LocalStep DEF Redeliver
<1>6. QED
  BY <1>3, <1>4, <1>5 DEF Fault

\* A row is written: what its columns must be for the invariant to hold.
LEMMA WriteStep ==
  ASSUME IInv, NEW w \in Workers, NEW new \in Verdict,
         ~new.stale,
         FromCompleted(new.subject), FromCompleted(new.scored[1]), FromCompleted(new.told[1]),
         overlapped' \in BOOLEAN,
         ~overlapped' => new.scored[1] = new.subject /\ new.told = new.scored,
         verdict' = new, at' = [at EXCEPT ![w] = "committed"],
         UNCHANGED <<service, status, text, queue, task, reading, loaded, faults>>
  PROVE  IInv'
<1>1. TypeOK'
  BY DEF IInv, TypeOK
<1>2. CheckedTask'
  BY DEF IInv, TypeOK, CheckedTask, FromCompleted
<1>3. RowStays'
  BY SentinelAssumption DEF RowStays
<1>4. OnlyFromCompleted' /\ OneSubject'
  BY DEF OnlyFromCompleted, OneSubject, FromCompleted
<1>5. new.stale = FALSE /\ new \in Fresh
  BY DEF Verdict, Fresh
<1>6. QED
  BY <1>1, <1>2, <1>3, <1>4, <1>5 DEF IInv, NeverFlagged

\* What a task has generated comes from the subject it has checked.
LEMMA MineChecked ==
  ASSUME IInv, NEW w \in Workers, at[w] = "selected"
  PROVE  /\ Mine(w) \in Verdict /\ ~Mine(w).stale
         /\ Mine(w).scored[1] = Mine(w).subject /\ Mine(w).told = Mine(w).scored
         /\ FromCompleted(Mine(w).subject)
<1>1. task[w][1] \in Subjects /\ <<task[w][1], reading[w]>> \in Subjects \X Versions
  BY DEF IInv, TypeOK, Tasks
<1>2. FromCompleted(task[w][1])
  BY DEF IInv, CheckedTask
<1>3. QED
  BY <1>1, <1>2 DEF Mine, Verdict

\* INSERT writes what the task has generated.
LEMMA InsertStep ==
  ASSUME IInv, NEW w \in Workers, Insert(w) PROVE IInv'
<1>1. /\ at[w] = "selected" /\ verdict' = Mine(w) /\ at' = [at EXCEPT ![w] = "committed"]
      /\ UNCHANGED <<service, status, text, queue, task, reading, loaded, faults, overlapped>>
  BY DEF Insert, GoTo, inputs
<1>2. overlapped' \in BOOLEAN
  BY <1>1 DEF IInv, TypeOK
<1>3. QED
  BY <1>1, <1>2, MineChecked, WriteStep

\* UPDATE mixes columns of the task's own with those of the row as it is now;
\* both come from completed interviews, and they agree if the row is the one
\* the task has selected.
LEMMA UpdateStep ==
  ASSUME IInv, NEW w \in Workers, Update(w) PROVE IInv'
<1>1. /\ at[w] = "selected" /\ loaded[w] # NoVerdict /\ at' = [at EXCEPT ![w] = "committed"]
      /\ overlapped' = (overlapped \/ loaded[w] # verdict)
      /\ UNCHANGED <<service, status, text, queue, task, reading, loaded, faults>>
  BY DEF Update, GoTo, inputs
<1>2. PICK mine, old :
        /\ mine = Mine(w) /\ old = loaded[w]
        /\ \E told \in {mine.told} \cup (IF mine.told = old.told THEN {verdict.told} ELSE {}) :
             verdict' =
               [subject |-> IF mine.subject = old.subject THEN verdict.subject ELSE mine.subject,
                scored |-> IF mine.scored = old.scored THEN verdict.scored ELSE mine.scored,
                told |-> told,
                stale |-> IF mine.stale = old.stale THEN verdict.stale ELSE mine.stale]
  BY DEF Update
<1>3. PICK subject \in {mine.subject, verdict.subject}, scored \in {mine.scored, verdict.scored},
           told \in {mine.told, verdict.told}, stale \in {mine.stale, verdict.stale} :
        /\ verdict' = [subject |-> subject, scored |-> scored, told |-> told, stale |-> stale]
        /\ verdict = old => subject = mine.subject /\ scored = mine.scored /\ told = mine.told
  BY <1>2
<1>4. /\ mine \in Verdict /\ ~mine.stale
      /\ mine.scored[1] = mine.subject /\ mine.told = mine.scored
      /\ FromCompleted(mine.subject)
  BY <1>1, <1>2, MineChecked
<1>5. /\ verdict \in Verdict /\ ~verdict.stale
      /\ FromCompleted(verdict.subject) /\ FromCompleted(verdict.scored[1])
      /\ FromCompleted(verdict.told[1])
  BY <1>1 DEF IInv, TypeOK, RowStays, NeverFlagged, OnlyFromCompleted, FromCompleted, Fresh
<1>6. PICK new : new = [subject |-> subject, scored |-> scored, told |-> told, stale |-> stale]
  OBVIOUS
<1>7. /\ new \in Verdict /\ ~new.stale
      /\ FromCompleted(new.subject) /\ FromCompleted(new.scored[1]) /\ FromCompleted(new.told[1])
  BY <1>4, <1>5, <1>6 DEF Verdict
<1>8. /\ overlapped' \in BOOLEAN
      /\ ~overlapped' => new.scored[1] = new.subject /\ new.told = new.scored
  BY <1>1, <1>2, <1>3, <1>4, <1>6 DEF IInv, TypeOK
<1>9. QED
  BY <1>1, <1>3, <1>6, <1>7, <1>8, WriteStep

\* Every step preserves the invariant.
LEMMA StepInvariant ==
  ASSUME IInv, [Next]_vars PROVE IInv'
<1>1. CASE UNCHANGED vars
  BY <1>1 DEF vars, inputs, workerVars, IInv, TypeOK, CheckedTask, RowStays, FromCompleted,
     OnlyFromCompleted, OneSubject, NeverFlagged
<1>2. CASE Input
  BY <1>2, InputStep
<1>3. CASE Poll
  BY <1>3, PollStep
<1>4. ASSUME NEW w \in Workers, WorkerStep(w) PROVE IInv'
  BY <1>4, ProgressStep, InsertStep, UpdateStep DEF WorkerStep
<1>5. ASSUME NEW w \in Workers, Fault(w) PROVE IInv'
  BY <1>5, FaultStep
<1>6. QED
  BY <1>1, <1>2, <1>3, <1>4, <1>5 DEF Next

\* The inductive invariant holds of every reachable state of the verdict.
THEOREM Safety == Spec => []IInv
<1>1. IInv /\ [Next]_vars => IInv'
  BY StepInvariant
<1>2. QED
  BY <1>1, InitInvariant, PTL DEF Spec

\* The row, the messages and the workers' variables keep their types.
THEOREM TypeCorrect == Spec => []TypeOK
<1>1. IInv => TypeOK
  BY DEF IInv
<1>2. QED
  BY <1>1, Safety, PTL

\* I14, however many tasks for however many interviews interleave.
THEOREM CompletedOnly == Spec => []OnlyFromCompleted
<1>1. IInv => OnlyFromCompleted
  BY DEF IInv
<1>2. QED
  BY <1>1, Safety, PTL

\* Only concurrent writes make a verdict name another subject than it judges.
THEOREM SubjectNamed == Spec => []OneSubject
<1>1. IInv => OneSubject
  BY DEF IInv
<1>2. QED
  BY <1>1, Safety, PTL

\* No row is ever flagged stale, so the route never regenerates one.
THEOREM NothingFlagged == Spec => []NeverFlagged
<1>1. IInv => NeverFlagged
  BY DEF IInv
<1>2. QED
  BY <1>1, Safety, PTL

(***************************************************************************)
(* Chunking: the loop invariant.                                           *)
(***************************************************************************)
\* Before the loop there is nothing, in it and after it the window advances.
Position ==
  /\ stage \in {"called", "rejected"} => chunks = <<>> /\ start = 0
  /\ stage \in {"looping", "returned"} => overlap < size
  /\ stage = "looping" => len > 0

Progress ==
  /\ chunks = <<>> => start = 0
  /\ chunks # <<>> => Last.last = Minimum(Last.first + size, len)
  /\ stage = "looping" /\ chunks # <<>> =>
       start = Last.first + step /\ Last.first + size < len
  /\ stage = "looping" /\ overlap >= 0 => start < len
  /\ stage = "returned" /\ overlap >= 0 /\ len > 0 => chunks # <<>> /\ Last.last = len
  /\ overlap >= 0 /\ chunks # <<>> => PhrasesIntactUpTo(Last.last)

\* The number of chunks says where the loop stands.
Counted ==
  /\ stage = "looping" => start = Len(chunks) * step /\ Len(chunks) <= start
  /\ IndexLocates /\ ChunksBounded

Inv == ChunkTypeOK /\ Position /\ Progress /\ Counted /\ Windows /\ NoRedundantChunk

\* The loop invariant holds before a text is chosen.
LEMMA LoopInit == ChunkInit => Inv
BY InputsAssumption
   DEF ChunkInit, Inv, ChunkTypeOK, Position, Progress, Counted, IndexLocates,
       ChunksBounded, Windows, NoRedundantChunk

\* It holds when the loop is entered.
LEMMA BeginPreservesInv == Inv /\ Begin => Inv'
BY DEF Inv, Begin, arguments, ChunkTypeOK, Position, Progress, Counted, IndexLocates,
       ChunksBounded, Windows, NoRedundantChunk, PhrasesIntactUpTo, Intact, Last, step, Minimum

\* It holds when the loop is left.
LEMMA StopPreservesInv == Inv /\ Stop => Inv'
<1> SUFFICES ASSUME Inv, Stop PROVE Inv'
  OBVIOUS
<1> USE DEF Inv, Stop, arguments
<1>1. overlap < 0
  BY DEF ChunkTypeOK, Position, Progress, Slice, Minimum
<1>2. ChunkTypeOK' /\ Position'
  BY DEF ChunkTypeOK, Position
<1>3. Progress'
  BY <1>1 DEF ChunkTypeOK, Progress, Last, Minimum
<1>4. Counted' /\ Windows' /\ NoRedundantChunk'
  BY DEF Counted, IndexLocates, ChunksBounded, step, Windows, NoRedundantChunk
<1>5. QED
  BY <1>2, <1>3, <1>4

\* The list after a pass: the chunks that were there, and the slice.
LEMMA TakeAppends ==
  ASSUME Inv, Take
  PROVE  /\ Slice \in Chunk
         /\ chunks' \in Seq(Chunk)
         /\ Len(chunks') = Len(chunks) + 1
         /\ \A i \in 1 .. Len(chunks) : chunks'[i] = chunks[i]
         /\ chunks'[Len(chunks) + 1] = Slice
         /\ chunks' # <<>>
         /\ Last' = Slice
<1>1. Slice \in Chunk
  BY DEF Inv, ChunkTypeOK, Slice, Chunk, Minimum
<1>2. chunks' = Append(chunks, Slice) /\ chunks \in Seq(Chunk)
  BY DEF Take, Inv, ChunkTypeOK
<1> HIDE DEF Slice
<1>3. /\ chunks' \in Seq(Chunk)
      /\ Len(chunks') = Len(chunks) + 1
      /\ \A i \in 1 .. Len(chunks) : chunks'[i] = chunks[i]
      /\ chunks'[Len(chunks) + 1] = Slice
  BY <1>1, <1>2
<1>4. chunks' # <<>>
  BY <1>2, <1>3
<1>5. QED
  BY <1>1, <1>3, <1>4 DEF Last

\* Where a pass of the loop stands.
LEMMA TakePosition ==
  ASSUME Inv, Take
  PROVE  /\ len \in Nat /\ size \in Nat /\ overlap \in Int /\ start \in Nat
         /\ overlap < size /\ start < len
         /\ Slice.first = start /\ Slice.last = Minimum(start + size, len)
         /\ start < Slice.last
         /\ len' = len /\ size' = size /\ overlap' = overlap
         /\ \/ stage' = "looping" /\ start' = start + step /\ start + size < len
            \/ stage' = "returned" /\ start' = start /\ start + size >= len
         /\ chunks = <<>> => start = 0
         /\ chunks # <<>> =>
              /\ Len(chunks) \in Nat \ {0}
              /\ Last \in Chunk
              /\ start = Last.first + step
              /\ Last.last = Last.first + size
<1>1. /\ len \in Nat /\ size \in Nat /\ overlap \in Int /\ start \in Nat
      /\ overlap < size /\ start < len
      /\ Slice.first = start /\ Slice.last = Minimum(start + size, len)
      /\ start < Slice.last
      /\ len' = len /\ size' = size /\ overlap' = overlap
  BY DEF Inv, ChunkTypeOK, Position, Take, Slice, arguments
<1>2. \/ stage' = "looping" /\ start' = start + step /\ start + size < len
      \/ stage' = "returned" /\ start' = start /\ start + size >= len
  BY <1>1 DEF Take
<1>3. chunks # <<>> => Len(chunks) \in Nat \ {0} /\ Last \in Chunk
  BY DEF Inv, ChunkTypeOK, Last
<1>4. chunks # <<>> => start = Last.first + step /\ Last.last = Last.first + size
  <2>1. SUFFICES ASSUME chunks # <<>>
                 PROVE  start = Last.first + step /\ Last.last = Last.first + size
    OBVIOUS
  <2>2. /\ start = Last.first + step /\ Last.first + size < len
        /\ Last.last = Minimum(Last.first + size, len)
    BY <2>1 DEF Inv, Progress, Take
  <2>3. QED
    BY <1>1, <1>3, <2>1, <2>2 DEF Minimum, Chunk
<1>5. chunks = <<>> => start = 0
  BY DEF Inv, Progress
<1>6. QED
  BY <1>1, <1>2, <1>3, <1>4, <1>5

\* The next chunk begins `overlap` words before the last one ends, so a phrase
\* that starts before the next chunk ends within the last.
LEMMA TakeKeepsPhrases ==
  ASSUME Inv, Take, overlap >= 0
  PROVE  \A from, upto \in 0 .. Slice.last :
           from < upto /\ upto <= from + overlap + 1 =>
             \E i \in 1 .. Len(chunks') : chunks'[i].first <= from /\ upto <= chunks'[i].last
<1> TAKE from, upto \in 0 .. Slice.last
<1> HAVE from < upto /\ upto <= from + overlap + 1
<1>1. from \in Int /\ upto \in Int /\ 0 <= from /\ upto <= Slice.last /\ Len(chunks) \in Nat
  BY TakePosition, TakeAppends DEF Chunk, Inv, ChunkTypeOK
<1>2. CASE from >= start
  <2>1. Len(chunks) + 1 \in 1 .. Len(chunks')
    BY <1>1, TakeAppends
  <2>2. chunks'[Len(chunks) + 1].first <= from /\ upto <= chunks'[Len(chunks) + 1].last
    BY <1>1, <1>2, TakeAppends, TakePosition
  <2>3. QED
    BY <2>1, <2>2
<1>3. CASE from < start
  <2>1. chunks # <<>>
    BY <1>1, <1>3, TakePosition
  <2>2. upto <= Last.last /\ Last.last \in Nat
    <3>1. Last.last = start + overlap /\ Last.last \in Nat
      BY <2>1, TakePosition DEF step, Chunk
    <3>2. QED
      BY <1>1, <1>3, <3>1, TakePosition
  <2>3. from \in 0 .. Last.last /\ upto \in 0 .. Last.last
    BY <1>1, <2>2
  <2>4. PhrasesIntactUpTo(Last.last)
    BY <2>1 DEF Inv, Progress
  <2>5. PICK i \in 1 .. Len(chunks) : chunks[i].first <= from /\ upto <= chunks[i].last
    BY <2>3, <2>4 DEF PhrasesIntactUpTo, Intact
  <2>6. i \in 1 .. Len(chunks') /\ chunks'[i] = chunks[i]
    BY <1>1, TakeAppends
  <2>7. QED
    BY <2>5, <2>6
<1>4. QED
  BY <1>1, <1>2, <1>3, TakePosition

\* A pass of the loop keeps it.
LEMMA TakePreservesInv == Inv /\ Take => Inv'
<1> SUFFICES ASSUME Inv, Take PROVE Inv'
  OBVIOUS
<1>1. start' \in Nat
  BY TakePosition DEF step
<1>2. ChunkTypeOK'
  BY <1>1, TakePosition, TakeAppends DEF ChunkTypeOK
<1>3. Position'
  BY TakePosition, TakeAppends DEF Position, Inv
<1>4. Progress'
  <2>1. Last'.first = start /\ Last'.last = Minimum(start + size, len)
    BY TakePosition, TakeAppends
  <2>2. overlap' >= 0 /\ chunks' # <<>> => PhrasesIntactUpTo(Last.last)'
    <3>1. Last'.last = Slice.last
      BY TakeAppends
    <3>2. QED
      BY <3>1, TakeKeepsPhrases, TakePosition DEF PhrasesIntactUpTo, Intact
  <2>3. stage' = "looping" => start' = Last'.first + step' /\ Last'.first + size' < len'
    BY <2>1, TakePosition DEF step
  <2>4. stage' = "looping" /\ overlap' >= 0 => start' < len'
    BY TakePosition DEF step
  <2>5. stage' = "returned" => Last'.last = len'
    BY <2>1, TakePosition DEF Minimum
  <2>6. Last'.last = Minimum(Last'.first + size', len')
    BY <2>1, TakePosition
  <2>7. QED
    BY <2>2, <2>3, <2>4, <2>5, <2>6, TakeAppends DEF Progress, step, Minimum, Last
<1>5. Len(chunks) \in Nat
  BY DEF Inv, ChunkTypeOK
<1>6. ASSUME NEW i \in 1 .. Len(chunks') - 1
      PROVE  /\ chunks'[i].last = chunks'[i].first + size
             /\ chunks'[i + 1].first = chunks'[i].first + size - overlap
             /\ overlap >= 0 => chunks'[i + 1].last > chunks'[i].last
  <2>1. chunks # <<>> /\ i \in 1 .. Len(chunks) /\ chunks'[i] = chunks[i]
    BY <1>5, TakeAppends
  <2>2. CASE i = Len(chunks)
    <3>1. chunks'[i] = Last /\ chunks'[i + 1] = Slice
      BY <2>1, <2>2, TakeAppends DEF Last
    <3>2. chunks'[i].last = chunks'[i].first + size
      BY <2>1, <3>1, TakePosition
    <3>3. chunks'[i + 1].first = chunks'[i].first + size - overlap
      BY <2>1, <3>1, TakePosition DEF step, Chunk
    <3>4. overlap >= 0 => chunks'[i + 1].last > chunks'[i].last
      <4>1. chunks # <<>> => Last.first + size < len
        BY DEF Inv, Progress, Take
      <4>2. QED
        BY <2>1, <3>1, <4>1, TakePosition DEF step, Chunk, Minimum
    <3>5. QED
      BY <3>2, <3>3, <3>4
  <2>3. CASE i # Len(chunks)
    <3>1. i \in 1 .. Len(chunks) - 1 /\ chunks'[i + 1] = chunks[i + 1]
      BY <1>5, <2>1, <2>3, TakeAppends
    <3>2. QED
      BY <2>1, <3>1 DEF Inv, Windows, NoRedundantChunk
  <2>4. QED
    BY <2>2, <2>3
<1>7. Windows' /\ NoRedundantChunk'
  BY <1>6, TakePosition DEF Windows, NoRedundantChunk
<1>8. Counted'
  <2>1. /\ Len(chunks) \in Nat /\ start = Len(chunks) * step /\ Len(chunks) <= start
        /\ step \in Int /\ step >= 1 /\ start < len /\ UNCHANGED step
    <3>1. Len(chunks) \in Nat /\ start = Len(chunks) * step /\ Len(chunks) <= start
      BY <1>5 DEF Inv, Counted, Take
    <3>2. step \in Int /\ step >= 1 /\ UNCHANGED step
      BY TakePosition DEF step
    <3>3. QED
      BY <3>1, <3>2, TakePosition
  <2>2. \A n, s \in Int : n * s + s = (n + 1) * s
    OBVIOUS
  <2>3. stage' = "looping" => start' = Len(chunks') * step' /\ Len(chunks') <= start'
    <3>1. Len(chunks) * step + step = (Len(chunks) + 1) * step
      BY <2>1, <2>2
    <3>2. Len(chunks') = Len(chunks) + 1
      BY TakeAppends
    <3>3. SUFFICES ASSUME start' = start + step
                   PROVE  start' = Len(chunks') * step' /\ Len(chunks') <= start'
      BY TakePosition
    <3>4. start' = Len(chunks') * step'
      BY <2>1, <3>1, <3>2, <3>3
    <3>5. Len(chunks') <= start'
      BY <2>1, <3>2, <3>3, TakePosition
    <3>6. QED
      BY <3>4, <3>5
  <2>4. \A i \in 1 .. Len(chunks') : chunks'[i].first = (i - 1) * step'
    <3>1. chunks'[Len(chunks) + 1].first = Len(chunks) * step
      BY <2>1, TakePosition, TakeAppends
    <3>2. \A i \in 1 .. Len(chunks) : chunks'[i].first = (i - 1) * step
      BY TakeAppends DEF Inv, Counted, IndexLocates
    <3>3. \A i \in 1 .. Len(chunks') :
            i \in 1 .. Len(chunks) \/ (i = Len(chunks) + 1 /\ i - 1 = Len(chunks))
      BY <2>1, TakeAppends
    <3>4. QED
      BY <2>1, <3>1, <3>2, <3>3
  <2>5. Len(chunks') <= len'
    BY <2>1, TakePosition, TakeAppends
  <2>6. QED
    BY <2>3, <2>4, <2>5 DEF Counted, IndexLocates, ChunksBounded
<1>9. QED
  BY <1>2, <1>3, <1>4, <1>7, <1>8 DEF Inv

\* Every step keeps the loop invariant.
LEMMA LoopStep == Inv /\ [ChunkNext]_chunkVars => Inv'
<1> SUFFICES ASSUME Inv, [ChunkNext]_chunkVars PROVE Inv'
  OBVIOUS
<1>1. CASE Reject
  BY <1>1 DEF Inv, Reject, arguments, ChunkTypeOK, Position, Progress, Counted,
              IndexLocates, ChunksBounded, Windows, NoRedundantChunk, PhrasesIntactUpTo, Intact, Last, step
<1>2. CASE UNCHANGED chunkVars
  BY <1>2 DEF Inv, chunkVars, arguments, ChunkTypeOK, Position, Progress, Counted,
              IndexLocates, ChunksBounded, Windows, NoRedundantChunk, PhrasesIntactUpTo, Intact, Last, step
<1>3. QED
  BY <1>1, <1>2, BeginPreservesInv, TakePreservesInv, StopPreservesInv DEF ChunkNext

\* So it holds always.
LEMMA LoopInvariant == ChunkSpec => []Inv
BY LoopInit, LoopStep, PTL DEF ChunkSpec

\* Positions stay natural numbers: the loop never runs backwards.
THEOREM PositionsAreNatural == ChunkSpec => []ChunkTypeOK
<1>1. Inv => ChunkTypeOK
  BY DEF Inv
<1>2. QED
  BY <1>1, LoopInvariant, PTL

\* No word is lost and no phrase that fits the overlap is cut.
THEOREM NothingLost == ChunkSpec => []PhrasesIntact
<1>1. Inv => PhrasesIntact
  <2> SUFFICES ASSUME Inv, stage = "returned", overlap >= 0 PROVE PhrasesIntactUpTo(len)
    BY DEF PhrasesIntact
  <2>1. CASE len > 0
    BY <2>1 DEF Inv, Progress
  <2>2. CASE len = 0
    BY <2>2 DEF PhrasesIntactUpTo
  <2>3. QED
    BY <2>1, <2>2 DEF Inv, ChunkTypeOK
<1>2. QED
  BY <1>1, LoopInvariant, PTL

\* All chunks but the last are full and share exactly the overlap.
THEOREM RegularWindows == ChunkSpec => []Windows
<1>1. Inv => Windows
  BY DEF Inv
<1>2. QED
  BY <1>1, LoopInvariant, PTL

\* The i-th chunk begins at the i-th multiple of the step.
THEOREM IndexIsPosition == ChunkSpec => []IndexLocates
<1>1. Inv => IndexLocates
  BY DEF Inv, Counted
<1>2. QED
  BY <1>1, LoopInvariant, PTL

\* The loop makes at most one pass for each word.
THEOREM PassesBounded == ChunkSpec => []ChunksBounded
<1>1. Inv => ChunksBounded
  BY DEF Inv, Counted
<1>2. QED
  BY <1>1, LoopInvariant, PTL

\* Every chunk adds words that the one before it did not have.
THEOREM EveryChunkAdds == ChunkSpec => []NoRedundantChunk
<1>1. Inv => NoRedundantChunk
  BY DEF Inv
<1>2. QED
  BY <1>1, LoopInvariant, PTL
=============================================================================
