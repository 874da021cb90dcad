------------------------------ MODULE Scorecards ------------------------------
(***************************************************************************)
(* The scorecards of an organization and the audit log of their            *)
(* amendments, as the database keeps them: the tables, the immutability    *)
(* trigger, amend_scorecard() and the append-only audit log of             *)
(* alembic/versions/607fb6e98882_initial_schema.py.                        *)
(*                                                                         *)
(* No code of the application writes scorecards yet.  The clients here are *)
(* READ COMMITTED transactions that issue any INSERT, UPDATE or            *)
(* amend_scorecard() the schema accepts; a statement it refuses aborts its *)
(* transaction, which Rollback covers, as it covers the deadlocks Postgres *)
(* breaks.  The column interview_id is unique, so a scorecard is named by  *)
(* its interview.                                                          *)
(***************************************************************************)
EXTENDS Naturals, Sequences

CONSTANTS
  Cards,            \* the interviews that may have a scorecard
  Sessions,         \* database sessions
  Contents,         \* what ratings and notes may hold
  NoRow,            \* the interview has no scorecard
  NoAmendment,      \* the session is not inside amend_scorecard()
  MaxTransactions,  \* bound on the transactions begun
  MaxAmendments     \* bound on the amendments of one scorecard

ScorecardStatus == {"draft", "submitted", "amended"}
Scorecard == [content : Contents, status : ScorecardStatus]

\* The diff of an amendment's row of audit_log.
Entry == [before : Scorecard, after : Scorecard]

ASSUME SentinelAssumption ==
  /\ NoRow \notin Scorecard
  /\ NoAmendment \notin [card : Cards, old : Scorecard]
ASSUME BoundsAssumption == MaxTransactions \in Nat /\ MaxAmendments \in Nat

VARIABLES
  scorecards,  \* the committed row of each interview
  audit_log,   \* the committed entries of each scorecard, in commit order
  tx,          \* the transaction of each session
  begun,       \* transactions begun so far
  edited       \* history: <<c, n>> if c was written past the log after n entries

vars == <<scorecards, audit_log, tx, begun, edited>>

\* allow: app.allow_scorecard_amend is 'true'; locked: the rows locked; written:
\* what the transaction made of them; logged: the audit rows it has inserted;
\* amending: what amend_scorecard() has selected into v_old; edited: its part of
\* the history.
Transaction ==
  [open : BOOLEAN, allow : BOOLEAN, locked : SUBSET Cards,
   written : [Cards -> Scorecard \cup {NoRow}], logged : [Cards -> Seq(Entry)],
   amending : [card : Cards, old : Scorecard] \cup {NoAmendment},
   edited : SUBSET (Cards \X Nat)]

NoTransaction ==
  [open |-> FALSE, allow |-> FALSE, locked |-> {},
   written |-> [c \in Cards |-> NoRow], logged |-> [c \in Cards |-> <<>>],
   amending |-> NoAmendment, edited |-> {}]

TypeOK ==
  /\ scorecards \in [Cards -> Scorecard \cup {NoRow}]
  /\ audit_log \in [Cards -> Seq(Entry)]
  /\ tx \in [Sessions -> Transaction]
  /\ begun \in Nat
  /\ edited \subseteq Cards \X Nat

Init ==
  /\ scorecards = [c \in Cards |-> NoRow]
  /\ audit_log = [c \in Cards |-> <<>>]
  /\ tx = [s \in Sessions |-> NoTransaction]
  /\ begun = 0
  /\ edited = {}

(***************************************************************************)
(* What a statement sees.                                                  *)
(***************************************************************************)
Row(s, c) == IF c \in tx[s].locked THEN tx[s].written[c] ELSE scorecards[c]

\* The audit entries of c as s will leave them.
Trail(s, c) == audit_log[c] \o tx[s].logged[c]

\* s may lock the row now; otherwise its statement waits.
Lockable(s, c) == \A t \in Sessions \ {s} : c \notin tx[t].locked

\* s runs a statement of its own, not one inside amend_scorecard().
Ready(s) == tx[s].open /\ tx[s].amending = NoAmendment

\* enforce_scorecard_immutability.
TriggerAllows(s, c) == Row(s, c).status = "submitted" => tx[s].allow

(***************************************************************************)
(* Statements.                                                             *)
(***************************************************************************)
Committed == <<scorecards, audit_log, begun, edited>>

Begin(s) ==
  /\ ~tx[s].open /\ begun < MaxTransactions
  /\ begun' = begun + 1
  /\ tx' = [tx EXCEPT ![s].open = TRUE]
  /\ UNCHANGED <<scorecards, audit_log, edited>>

\* The row becomes `new` by a statement of the client's own.
WriteRow(s, c, new) ==
  /\ Ready(s) /\ Lockable(s, c)
  /\ tx' = [tx EXCEPT ![s].locked = @ \cup {c},
                      ![s].written[c] = new,
                      ![s].edited = @ \cup ({c} \X ({Len(Trail(s, c))} \ {0}))]
  /\ UNCHANGED Committed

Insert(s, c) ==
  /\ Row(s, c) = NoRow
  /\ \E new \in Scorecard : WriteRow(s, c, new)

Update(s, c) ==
  /\ Row(s, c) # NoRow /\ TriggerAllows(s, c)
  /\ \E new \in Scorecard : new # Row(s, c) /\ WriteRow(s, c, new)

\* Faulty variant: amend_scorecard() reads the row without FOR UPDATE.
AmendSelectUnlocked(s, c) ==
  /\ Ready(s) /\ Row(s, c) # NoRow
  /\ Len(Trail(s, c)) < MaxAmendments
  /\ tx' = [tx EXCEPT ![s].amending = [card |-> c, old |-> Row(s, c)]]
  /\ UNCHANGED Committed

\* Faulty variant: amend_scorecard() goes on when the row is NOT FOUND.
AmendSelectMissing(s, c) ==
  /\ Ready(s) /\ Lockable(s, c)
  /\ Len(Trail(s, c)) < MaxAmendments
  /\ tx' = [tx EXCEPT ![s].amending = [card |-> c, old |-> Row(s, c)]]
  /\ UNCHANGED Committed

\* amend_scorecard(): SELECT ... FOR UPDATE.
AmendSelect(s, c) ==
  /\ Ready(s) /\ Lockable(s, c) /\ Row(s, c) # NoRow
  /\ Len(Trail(s, c)) < MaxAmendments
  /\ tx' = [tx EXCEPT ![s].locked = @ \cup {c},
                      ![s].written[c] = Row(s, c),
                      ![s].amending = [card |-> c, old |-> Row(s, c)]]
  /\ UNCHANGED Committed

\* The row and the log entry amend_scorecard() writes, with the flag left as
\* `allow`.
Amended(s, content, allow) ==
  LET c == tx[s].amending.card
      new == [content |-> content, status |-> "amended"]
      entry == [before |-> tx[s].amending.old, after |-> new]
  IN  /\ Lockable(s, c)
      /\ tx' = [tx EXCEPT ![s].locked = @ \cup {c},
                          ![s].written[c] = new,
                          ![s].logged[c] = Append(@, entry),
                          ![s].allow = allow,
                          ![s].amending = NoAmendment]

\* Faulty variant: the flag stays on for the rest of the transaction.
AmendKeepsFlag(s) ==
  /\ tx[s].amending # NoAmendment
  /\ \E content \in Contents : Amended(s, content, TRUE)
  /\ UNCHANGED Committed

\* amend_scorecard(): set the flag, which is why the trigger lets the UPDATE
\* pass whatever the old status, reset it, insert the audit row.
Amend(s) ==
  /\ tx[s].amending # NoAmendment
  /\ \E content \in Contents : Amended(s, content, FALSE)
  /\ UNCHANGED Committed

Commit(s) ==
  /\ Ready(s)
  /\ scorecards' = [c \in Cards |-> Row(s, c)]
  /\ audit_log' = [c \in Cards |-> Trail(s, c)]
  /\ edited' = edited \cup tx[s].edited
  /\ tx' = [tx EXCEPT ![s] = NoTransaction]
  /\ UNCHANGED begun

Rollback(s) ==
  /\ tx[s].open
  /\ tx' = [tx EXCEPT ![s] = NoTransaction]
  /\ UNCHANGED Committed

Next ==
  \E s \in Sessions :
    \/ Begin(s) \/ Amend(s) \/ Commit(s) \/ Rollback(s)
    \/ \E c \in Cards : Insert(s, c) \/ Update(s, c) \/ AmendSelect(s, c)

Spec == Init /\ [][Next]_vars

(***************************************************************************)
(* Properties.                                                             *)
(***************************************************************************)
\* Each entry of c's log ends where the next one begins, the last one at `now`,
\* except where c was written past the log.
Chained(c, log, now, past) ==
  \A n \in DOMAIN log :
    \/ log[n].after = IF n = Len(log) THEN now ELSE log[n + 1].before
    \/ <<c, n>> \in past

\* The audit log is the history of the scorecard: each amendment starts from
\* the row the one before it left, and the last one left the row as it is now,
\* unless a client has updated an amended row directly in between, which the
\* trigger does not refuse.
AuditTrail ==
  \A c \in Cards : Chained(c, audit_log[c], scorecards[c], edited)

\* The log only grows, and what a submitted scorecard said is never lost: a
\* commit that changes it adds an entry that begins with the submitted row.
SubmittedIsPreserved ==
  [][\A c \in Cards :
       LET n == Len(audit_log[c])
       IN  /\ SubSeq(audit_log'[c], 1, n) = audit_log[c]
           /\ /\ scorecards[c] # NoRow /\ scorecards[c].status = "submitted"
              /\ scorecards'[c] # scorecards[c]
              => /\ Len(audit_log'[c]) > n
                 /\ audit_log'[c][n + 1].before = scorecards[c]]_vars
=============================================================================
