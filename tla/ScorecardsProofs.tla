--------------------------- MODULE ScorecardsProofs ---------------------------
(***************************************************************************)
(* Scorecards keeps its audit trail for any number of sessions, scorecards *)
(* and transactions.                                                       *)
(*                                                                         *)
(* The committed log is a gapless history because every transaction's view *)
(* of a row it has locked is one: the committed log continued by its own   *)
(* entries ends at what it has written (TxOK).  The locks are exclusive,   *)
(* so no commit of another session changes a row under such a view.        *)
(***************************************************************************)
EXTENDS Scorecards, SequenceTheorems, TLAPS

(***************************************************************************)
(* The inductive invariant.                                                *)
(***************************************************************************)
\* A submitted row changes only together with an entry that keeps it.
Keeps(log, old, new) ==
  old # NoRow /\ old.status = "submitted" =>
    IF log = <<>> THEN new = old ELSE log[1].before = old

\* What holds of an open transaction t over the committed rows, logs and
\* direct edits.
TxOK(t, rows, logs, past) ==
  /\ t.open \/ t = NoTransaction
  /\ ~t.allow
  /\ \A c \in Cards \ t.locked : t.logged[c] = <<>>
  /\ t.amending # NoAmendment =>
       t.amending.card \in t.locked /\ t.written[t.amending.card] = t.amending.old
  /\ \A c \in t.locked :
       /\ Chained(c, logs[c] \o t.logged[c], t.written[c], past \cup t.edited)
       /\ Keeps(t.logged[c], rows[c], t.written[c])

Exclusive == \A s, u \in Sessions : s # u => tx[s].locked \cap tx[u].locked = {}

IInv ==
  /\ TypeOK
  /\ Exclusive
  /\ AuditTrail
  /\ \A s \in Sessions : TxOK(tx[s], scorecards, audit_log, edited)

(***************************************************************************)
(* Chains.                                                                 *)
(***************************************************************************)
\* Excusing more entries breaks no chain.
LEMMA ChainedWithMore ==
  ASSUME NEW c, NEW log, NEW now, NEW past, NEW more, Chained(c, log, now, past)
  PROVE  Chained(c, log, now, past \cup more)
BY DEF Chained

\* A direct write moves the end of the chain and excuses its last entry.
LEMMA ChainedWritten ==
  ASSUME NEW c \in Cards, NEW log \in Seq(Entry), NEW now, NEW past, NEW new,
         Chained(c, log, now, past)
  PROVE  Chained(c, log, new, past \cup ({c} \X ({Len(log)} \ {0})))
<1> SUFFICES ASSUME NEW n \in DOMAIN log, n = Len(log)
             PROVE  <<c, n>> \in {c} \X ({Len(log)} \ {0})
  BY DEF Chained
<1>1. n \in 1 .. Len(log)
  BY LenProperties
<1>2. QED
  BY <1>1

\* An entry that begins where the chain ends continues it.
LEMMA ChainedAppend ==
  ASSUME NEW c \in Cards, NEW log \in Seq(Entry), NEW past, NEW entry \in Entry,
         Chained(c, log, entry.before, past),
         NEW longer, longer = Append(log, entry)
  PROVE  longer \in Seq(Entry) /\ Chained(c, longer, entry.after, past)
<1>1. /\ longer \in Seq(Entry) /\ Len(longer) = Len(log) + 1
      /\ \A i \in 1 .. Len(log) : longer[i] = log[i]
      /\ longer[Len(log) + 1] = entry
  BY AppendProperties
<1>2. Len(log) \in Nat /\ DOMAIN log = 1 .. Len(log)
  BY LenProperties
<1>3. DOMAIN longer = 1 .. Len(log) + 1
  BY <1>1, LenProperties
<1>4. ASSUME NEW n \in 1 .. Len(log) + 1, <<c, n>> \notin past
      PROVE  longer[n].after = IF n = Len(longer) THEN entry.after
                                                  ELSE longer[n + 1].before
  <2>1. CASE n = Len(log) + 1
    BY <1>1, <2>1
  <2>2. CASE n # Len(log) + 1
    <3>1. n \in 1 .. Len(log) /\ n # Len(longer)
      BY <1>1, <1>2, <2>2
    <3>2. longer[n] = log[n]
      BY <1>1, <3>1
    <3>3. log[n].after = IF n = Len(log) THEN entry.before ELSE log[n + 1].before
      BY <1>2, <1>4, <3>1 DEF Chained
    <3>4. n # Len(log) => n + 1 \in 1 .. Len(log)
      <4>1. \A l \in Nat : \A i \in 1 .. l : i # l => i + 1 \in 1 .. l
        OBVIOUS
      <4>2. QED
        BY <4>1, <1>2, <3>1
    <3>5. longer[n + 1].before = IF n = Len(log) THEN entry.before
                                                 ELSE log[n + 1].before
      BY <1>1, <3>4
    <3>6. QED
      BY <3>1, <3>2, <3>3, <3>5
  <2>3. QED
    BY <2>1, <2>2
<1>5. QED
  BY <1>1, <1>3, <1>4 DEF Chained

\* An entry appended to the second half of a log is appended to the log.
LEMMA AppendToLog ==
  ASSUME NEW log \in Seq(Entry), NEW own \in Seq(Entry), NEW entry \in Entry
  PROVE  /\ Append(own, entry) \in Seq(Entry)
         /\ log \o Append(own, entry) = Append(log \o own, entry)
         /\ Append(own, entry) # <<>>
         /\ Append(own, entry)[1] = IF own = <<>> THEN entry ELSE own[1]
<1>1. /\ Append(own, entry) \in Seq(Entry)
      /\ Len(Append(own, entry)) = Len(own) + 1
      /\ Append(own, entry)[Len(own) + 1] = entry
      /\ \A i \in 1 .. Len(own) : Append(own, entry)[i] = own[i]
  BY AppendProperties
<1>2. log \o own \in Seq(Entry) /\ <<entry>> \in Seq(Entry)
  BY ConcatProperties
<1>3. log \o (own \o <<entry>>) = (log \o own) \o <<entry>>
  BY <1>2, ConcatAssociative
<1>4. log \o Append(own, entry) = Append(log \o own, entry)
  BY <1>2, <1>3, AppendIsConcat
<1>5. Len(own) \in Nat /\ (own = <<>> => Len(own) = 0) /\ (own # <<>> => Len(own) # 0)
  BY EmptySeq, LenProperties
<1>6. Append(own, entry) # <<>>
  <2>1. Len(own) + 1 # 0
    BY <1>5
  <2>2. QED
    BY <1>1, <2>1, EmptySeq
<1>7. own # <<>> => 1 \in 1 .. Len(own)
  BY <1>5
<1>8. QED
  BY <1>1, <1>4, <1>5, <1>6, <1>7

(***************************************************************************)
(* Transactions.                                                           *)
(***************************************************************************)
\* Outside a transaction nothing is seen or held.
LEMMA NoTransactionOK ==
  /\ NoTransaction \in Transaction
  /\ \A rows, logs, past : TxOK(NoTransaction, rows, logs, past)
<1>1. NoTransaction \in Transaction
  <2>1. <<>> \in Seq(Entry)
    BY EmptySeq
  <2>2. QED
    BY <2>1 DEF NoTransaction, Transaction
<1>2. QED
  BY <1>1 DEF NoTransaction, TxOK

\* What a transaction sees of any row, locked or not, is a chain.
LEMMA View ==
  ASSUME NEW t \in Transaction, NEW rows, NEW logs \in [Cards -> Seq(Entry)], NEW past,
         TxOK(t, rows, logs, past), NEW c \in Cards,
         Chained(c, logs[c], rows[c], past),
         NEW row, row = IF c \in t.locked THEN t.written[c] ELSE rows[c]
  PROVE  /\ Chained(c, logs[c] \o t.logged[c], row, past \cup t.edited)
         /\ Keeps(t.logged[c], rows[c], row)
         /\ logs[c] \o t.logged[c] \in Seq(Entry)
<1>1. logs[c] \in Seq(Entry) /\ t.logged[c] \in Seq(Entry)
  BY DEF Transaction
<1>2. logs[c] \o t.logged[c] \in Seq(Entry)
  BY <1>1, ConcatProperties
<1>3. CASE c \in t.locked
  BY <1>2, <1>3 DEF TxOK
<1>4. CASE c \notin t.locked
  <2>1. t.logged[c] = <<>>
    BY <1>4 DEF TxOK
  <2>2. logs[c] \o t.logged[c] = logs[c]
    BY <1>1, <2>1, ConcatEmptySeq
  <2>3. Chained(c, logs[c], rows[c], past \cup t.edited)
    BY ChainedWithMore
  <2>4. QED
    BY <1>2, <1>4, <2>1, <2>2, <2>3 DEF Keeps
<1>5. QED
  BY <1>3, <1>4

\* A statement of the client's own leaves a transaction whose views are chains.
LEMMA WriteOK ==
  ASSUME NEW t \in Transaction, NEW rows, NEW logs \in [Cards -> Seq(Entry)], NEW past,
         TxOK(t, rows, logs, past), NEW c \in Cards,
         Chained(c, logs[c], rows[c], past),
         t.open, t.amending = NoAmendment, NEW new \in Scorecard,
         NEW row, row = IF c \in t.locked THEN t.written[c] ELSE rows[c],
         row # NoRow => row.status # "submitted",
         NEW u, u = [t EXCEPT !.locked = @ \cup {c}, !.written[c] = new,
           !.edited = @ \cup ({c} \X ({Len(logs[c] \o t.logged[c])} \ {0}))]
  PROVE  u \in Transaction /\ TxOK(u, rows, logs, past)
<1> DEFINE more == {c} \X ({Len(logs[c] \o t.logged[c])} \ {0})
<1>1. /\ Chained(c, logs[c] \o t.logged[c], row, past \cup t.edited)
      /\ Keeps(t.logged[c], rows[c], row)
      /\ logs[c] \o t.logged[c] \in Seq(Entry)
  BY View
<1>2. more \subseteq Cards \X Nat
  BY <1>1, LenProperties
<1>3. Chained(c, logs[c] \o t.logged[c], new, (past \cup t.edited) \cup more)
  BY <1>1, ChainedWritten
<1> HIDE DEF more
<1>4. /\ u.open = t.open /\ u.allow = t.allow /\ u.locked = t.locked \cup {c}
      /\ u.written = [t.written EXCEPT ![c] = new] /\ u.logged = t.logged
      /\ u.amending = t.amending /\ u.edited = t.edited \cup more
  BY DEF Transaction, more
<1>5. u \in Transaction
  BY <1>2, <1>4 DEF Transaction, more
<1>6. ASSUME NEW d \in u.locked
      PROVE  /\ Chained(d, logs[d] \o u.logged[d], u.written[d], past \cup u.edited)
             /\ Keeps(u.logged[d], rows[d], u.written[d])
  <2>1. past \cup u.edited = (past \cup t.edited) \cup more
    BY <1>4
  <2>2. CASE d = c
    <3>1. u.written[d] = new
      BY <1>4, <2>2 DEF Transaction
    <3>2. Keeps(t.logged[c], rows[c], new)
      BY <1>1 DEF Keeps
    <3>3. QED
      BY <1>3, <1>4, <2>1, <2>2, <3>1, <3>2
  <2>3. CASE d # c
    <3>1. d \in t.locked /\ u.written[d] = t.written[d]
      BY <1>4, <1>6, <2>3 DEF Transaction
    <3>2. /\ Chained(d, logs[d] \o t.logged[d], t.written[d], past \cup t.edited)
          /\ Keeps(t.logged[d], rows[d], t.written[d])
      BY <3>1 DEF TxOK
    <3>3. Chained(d, logs[d] \o t.logged[d], t.written[d], (past \cup t.edited) \cup more)
      BY <3>2, ChainedWithMore
    <3>4. QED
      BY <1>4, <2>1, <3>1, <3>2, <3>3
  <2>4. QED
    BY <2>2, <2>3
<1>7. QED
  BY <1>4, <1>5, <1>6 DEF TxOK

\* amend_scorecard() locks the row it selects and remembers it as it is.
LEMMA SelectOK ==
  ASSUME NEW t \in Transaction, NEW rows \in [Cards -> Scorecard \cup {NoRow}],
         NEW logs \in [Cards -> Seq(Entry)], NEW past,
         TxOK(t, rows, logs, past), NEW c \in Cards,
         Chained(c, logs[c], rows[c], past), t.open,
         NEW row, row = IF c \in t.locked THEN t.written[c] ELSE rows[c], row # NoRow,
         NEW u, u = [t EXCEPT !.locked = @ \cup {c}, !.written[c] = row,
                              !.amending = [card |-> c, old |-> row]]
  PROVE  u \in Transaction /\ TxOK(u, rows, logs, past)
<1>1. /\ Chained(c, logs[c] \o t.logged[c], row, past \cup t.edited)
      /\ Keeps(t.logged[c], rows[c], row)
  BY View
<1>2. /\ u.open = t.open /\ u.allow = t.allow /\ u.locked = t.locked \cup {c}
      /\ u.written = [t.written EXCEPT ![c] = row] /\ u.logged = t.logged
      /\ u.amending = [card |-> c, old |-> row] /\ u.edited = t.edited
  BY DEF Transaction
<1>3. row \in Scorecard
  BY DEF Transaction
<1>4. u \in Transaction
  BY <1>2, <1>3 DEF Transaction
<1>5. u.written[c] = row /\ \A d \in Cards \ {c} : u.written[d] = t.written[d]
  BY <1>2 DEF Transaction
<1>6. ASSUME NEW d \in u.locked
      PROVE  /\ Chained(d, logs[d] \o u.logged[d], u.written[d], past \cup u.edited)
             /\ Keeps(u.logged[d], rows[d], u.written[d])
  <2>1. CASE d = c
    BY <1>1, <1>2, <1>5, <2>1
  <2>2. CASE d # c
    BY <1>2, <1>5, <1>6, <2>2 DEF TxOK, Transaction
  <2>3. QED
    BY <2>1, <2>2
<1>7. u.open /\ ~u.allow /\ \A d \in Cards \ u.locked : u.logged[d] = <<>>
  BY <1>2 DEF TxOK
<1>8. u.amending.card \in u.locked /\ u.written[u.amending.card] = u.amending.old
  BY <1>2, <1>5
<1>9. QED
  BY <1>4, <1>6, <1>7, <1>8 DEF TxOK

\* What amend_scorecard() writes continues the chain of its row.
LEMMA AmendOK ==
  ASSUME NEW t \in Transaction, NEW rows, NEW logs \in [Cards -> Seq(Entry)], NEW past,
         TxOK(t, rows, logs, past), t.amending # NoAmendment,
         NEW c, c = t.amending.card, NEW new \in Scorecard,
         NEW entry, entry = [before |-> t.amending.old, after |-> new],
         NEW u, u = [t EXCEPT !.locked = @ \cup {c}, !.written[c] = new,
                              !.logged[c] = Append(@, entry), !.allow = FALSE,
                              !.amending = NoAmendment]
  PROVE  u \in Transaction /\ TxOK(u, rows, logs, past)
<1> DEFINE view == logs[c] \o t.logged[c]
<1>1. /\ c \in Cards /\ c \in t.locked /\ t.written[c] = entry.before
      /\ entry \in Entry /\ entry.after = new
  BY DEF TxOK, Transaction, Entry
<1>2. /\ Chained(c, view, entry.before, past \cup t.edited)
      /\ Keeps(t.logged[c], rows[c], entry.before)
  BY <1>1 DEF TxOK
<1>3. logs[c] \in Seq(Entry) /\ t.logged[c] \in Seq(Entry)
  BY <1>1 DEF Transaction
<1>4. view \in Seq(Entry)
  BY <1>3, ConcatProperties
<1>5. /\ Append(t.logged[c], entry) \in Seq(Entry)
      /\ logs[c] \o Append(t.logged[c], entry) = Append(view, entry)
      /\ Append(t.logged[c], entry) # <<>>
      /\ Append(t.logged[c], entry)[1] = IF t.logged[c] = <<>> THEN entry ELSE t.logged[c][1]
  <2>1. PICK log \in Seq(Entry), own \in Seq(Entry) : log = logs[c] /\ own = t.logged[c]
    BY <1>3
  <2>2. /\ Append(own, entry) \in Seq(Entry)
        /\ log \o Append(own, entry) = Append(log \o own, entry)
        /\ Append(own, entry) # <<>>
        /\ Append(own, entry)[1] = IF own = <<>> THEN entry ELSE own[1]
    BY <1>1, AppendToLog
  <2>3. QED
    BY <2>1, <2>2
<1>6. Chained(c, Append(view, entry), new, past \cup t.edited)
  BY <1>1, <1>2, <1>4, ChainedAppend
<1>7. Keeps(Append(t.logged[c], entry), rows[c], new)
  BY <1>2, <1>5 DEF Keeps
<1> HIDE DEF view
<1>8. /\ u.open = t.open /\ u.allow = FALSE /\ u.locked = t.locked
      /\ u.written = [t.written EXCEPT ![c] = new]
      /\ u.logged = [t.logged EXCEPT ![c] = Append(@, entry)]
      /\ u.amending = NoAmendment /\ u.edited = t.edited
  BY <1>1 DEF Transaction
<1>9. u \in Transaction
  BY <1>1, <1>5, <1>8 DEF Transaction
<1>10. /\ u.written[c] = new /\ u.logged[c] = Append(t.logged[c], entry)
       /\ \A d \in Cards \ {c} : u.written[d] = t.written[d] /\ u.logged[d] = t.logged[d]
  BY <1>1, <1>8 DEF Transaction
<1>11. ASSUME NEW d \in u.locked
       PROVE  /\ Chained(d, logs[d] \o u.logged[d], u.written[d], past \cup u.edited)
              /\ Keeps(u.logged[d], rows[d], u.written[d])
  <2>1. CASE d = c
    <3>1. logs[d] \o u.logged[d] = Append(view, entry)
      BY <1>5, <1>10, <2>1
    <3>2. QED
      BY <1>6, <1>7, <1>8, <1>10, <2>1, <3>1
  <2>2. CASE d # c
    BY <1>8, <1>10, <1>11, <2>2 DEF TxOK, Transaction
  <2>3. QED
    BY <2>1, <2>2
<1>12. u.open
  BY <1>8 DEF TxOK, NoTransaction
<1>13. \A d \in Cards \ u.locked : u.logged[d] = <<>>
  BY <1>1, <1>8, <1>10 DEF TxOK
<1>14. QED
  BY <1>8, <1>9, <1>11, <1>12, <1>13 DEF TxOK

(***************************************************************************)
(* Steps.                                                                  *)
(***************************************************************************)
\* The empty database satisfies the invariant.
LEMMA InitInvariant == Init => IInv
<1> SUFFICES ASSUME Init PROVE IInv
  OBVIOUS
<1>1. \A s \in Sessions : tx[s] = NoTransaction
  BY DEF Init
<1>2. TypeOK
  BY NoTransactionOK, EmptySeq DEF Init, TypeOK
<1>3. Exclusive
  BY <1>1 DEF Exclusive, NoTransaction
<1>4. AuditTrail
  <2>1. DOMAIN <<>> = {}
    OBVIOUS
  <2>2. \A c \in Cards : audit_log[c] = <<>>
    BY DEF Init
  <2>3. QED
    BY <2>1, <2>2 DEF AuditTrail, Chained
<1>5. QED
  BY <1>1, <1>2, <1>3, <1>4, NoTransactionOK DEF IInv

\* A step of one transaction that commits nothing.
LEMMA LocalStep ==
  ASSUME IInv, NEW s \in Sessions, NEW u \in Transaction,
         tx' = [tx EXCEPT ![s] = u],
         TxOK(u, scorecards, audit_log, edited),
         \A r \in Sessions \ {s} : u.locked \cap tx[r].locked = {},
         UNCHANGED <<scorecards, audit_log, edited>>, begun' \in Nat
  PROVE  IInv'
<1>1. tx'[s] = u /\ \A r \in Sessions \ {s} : tx'[r] = tx[r]
  BY DEF IInv, TypeOK
<1>2. TypeOK'
  BY DEF IInv, TypeOK
<1>3. Exclusive'
  BY <1>1 DEF IInv, Exclusive
<1>4. AuditTrail'
  BY DEF IInv, AuditTrail
<1>5. \A r \in Sessions : TxOK(tx'[r], scorecards', audit_log', edited')
  BY <1>1 DEF IInv
<1>6. QED
  BY <1>2, <1>3, <1>4, <1>5 DEF IInv

\* BEGIN starts from the state of no transaction.
LEMMA BeginStep ==
  ASSUME IInv, NEW s \in Sessions, Begin(s) PROVE IInv'
<1> DEFINE u == [NoTransaction EXCEPT !.open = TRUE]
<1>1. tx[s] = NoTransaction
  BY DEF IInv, TxOK, Begin
<1>2. u \in Transaction /\ TxOK(u, scorecards, audit_log, edited)
  BY NoTransactionOK DEF Transaction, TxOK, NoTransaction
<1>3. tx' = [tx EXCEPT ![s] = u]
  BY <1>1 DEF Begin
<1>4. u.locked = {}
  BY DEF NoTransaction
<1>5. begun' \in Nat
  BY DEF IInv, TypeOK, Begin
<1> HIDE DEF u
<1>6. QED
  BY <1>2, <1>3, <1>4, <1>5, LocalStep DEF Begin

\* ROLLBACK forgets the transaction, its locks and its entries.
LEMMA RollbackStep ==
  ASSUME IInv, NEW s \in Sessions, Rollback(s) PROVE IInv'
<1>1. NoTransaction.locked = {}
  BY DEF NoTransaction
<1>2. begun' \in Nat
  BY DEF IInv, TypeOK, Rollback, Committed
<1>3. QED
  BY <1>1, <1>2, NoTransactionOK, LocalStep DEF Rollback, Committed

\* INSERT and UPDATE only touch a row that nobody else has locked and that
\* is not submitted.
LEMMA WriteStep ==
  ASSUME IInv, NEW s \in Sessions, NEW c \in Cards, Insert(s, c) \/ Update(s, c)
  PROVE  IInv'
<1>1. PICK new \in Scorecard : WriteRow(s, c, new)
  BY DEF Insert, Update
<1> DEFINE t == tx[s]
           u == [t EXCEPT !.locked = @ \cup {c}, !.written[c] = new,
                   !.edited = @ \cup ({c} \X ({Len(audit_log[c] \o t.logged[c])} \ {0}))]
<1>2. /\ t \in Transaction /\ TxOK(t, scorecards, audit_log, edited)
      /\ audit_log \in [Cards -> Seq(Entry)]
      /\ Chained(c, audit_log[c], scorecards[c], edited)
  BY DEF IInv, TypeOK, AuditTrail
<1>3. t.open /\ t.amending = NoAmendment /\ Lockable(s, c)
  BY <1>1 DEF WriteRow, Ready
<1>4. Row(s, c) # NoRow => Row(s, c).status # "submitted"
  BY <1>2 DEF Insert, Update, TriggerAllows, TxOK
<1>5. u \in Transaction /\ TxOK(u, scorecards, audit_log, edited)
  BY <1>2, <1>3, <1>4, WriteOK DEF Row
<1>6. tx' = [tx EXCEPT ![s] = u]
  BY <1>1 DEF WriteRow, Trail
<1>7. \A r \in Sessions \ {s} : u.locked \cap tx[r].locked = {}
  <2>1. u.locked = t.locked \cup {c}
    BY <1>2 DEF Transaction
  <2>2. QED
    BY <1>3, <2>1 DEF IInv, Exclusive, Lockable
<1>8. UNCHANGED <<scorecards, audit_log, edited>> /\ begun' \in Nat
  BY <1>1 DEF WriteRow, Committed, IInv, TypeOK
<1> HIDE DEF u
<1>9. QED
  BY <1>5, <1>6, <1>7, <1>8, LocalStep

\* The select of amend_scorecard() locks the row first.
LEMMA SelectStep ==
  ASSUME IInv, NEW s \in Sessions, NEW c \in Cards, AmendSelect(s, c)
  PROVE  IInv'
<1> DEFINE t == tx[s]
           row == Row(s, c)
           u == [t EXCEPT !.locked = @ \cup {c}, !.written[c] = row,
                          !.amending = [card |-> c, old |-> row]]
<1>1. /\ t \in Transaction /\ TxOK(t, scorecards, audit_log, edited)
      /\ scorecards \in [Cards -> Scorecard \cup {NoRow}]
      /\ audit_log \in [Cards -> Seq(Entry)]
      /\ Chained(c, audit_log[c], scorecards[c], edited)
  BY DEF IInv, TypeOK, AuditTrail
<1>2. t.open /\ Lockable(s, c) /\ row # NoRow
  BY DEF AmendSelect, Ready
<1>3. u \in Transaction /\ TxOK(u, scorecards, audit_log, edited)
  BY <1>1, <1>2, SelectOK DEF Row
<1>4. tx' = [tx EXCEPT ![s] = u]
  BY DEF AmendSelect
<1>5. \A r \in Sessions \ {s} : u.locked \cap tx[r].locked = {}
  <2>1. u.locked = t.locked \cup {c}
    BY <1>1 DEF Transaction
  <2>2. QED
    BY <1>2, <2>1 DEF IInv, Exclusive, Lockable
<1>6. UNCHANGED <<scorecards, audit_log, edited>> /\ begun' \in Nat
  BY DEF AmendSelect, Committed, IInv, TypeOK
<1> HIDE DEF u
<1>7. QED
  BY <1>3, <1>4, <1>5, <1>6, LocalStep

\* The write of amend_scorecard() adds its entry with it.
LEMMA AmendStep ==
  ASSUME IInv, NEW s \in Sessions, Amend(s) PROVE IInv'
<1>1. PICK content \in Contents : Amended(s, content, FALSE)
  BY DEF Amend
<1> DEFINE t == tx[s]
           c == t.amending.card
           new == [content |-> content, status |-> "amended"]
           entry == [before |-> t.amending.old, after |-> new]
           u == [t EXCEPT !.locked = @ \cup {c}, !.written[c] = new,
                          !.logged[c] = Append(@, entry), !.allow = FALSE,
                          !.amending = NoAmendment]
<1>2. /\ t \in Transaction /\ TxOK(t, scorecards, audit_log, edited)
      /\ audit_log \in [Cards -> Seq(Entry)] /\ t.amending # NoAmendment
  BY DEF IInv, TypeOK, Amend
<1>3. new \in Scorecard
  BY DEF Scorecard, ScorecardStatus
<1>4. u \in Transaction /\ TxOK(u, scorecards, audit_log, edited)
  BY <1>2, <1>3, AmendOK
<1>5. tx' = [tx EXCEPT ![s] = u]
  BY <1>1 DEF Amended
<1>6. \A r \in Sessions \ {s} : u.locked \cap tx[r].locked = {}
  <2>1. u.locked = t.locked
    BY <1>2 DEF Transaction, TxOK
  <2>2. QED
    BY <2>1 DEF IInv, Exclusive
<1>7. UNCHANGED <<scorecards, audit_log, edited>> /\ begun' \in Nat
  BY DEF Amend, Committed, IInv, TypeOK
<1> HIDE DEF u
<1>8. QED
  BY <1>4, <1>5, <1>6, <1>7, LocalStep

\* What a commit makes of each row and its log.
LEMMA CommittedView ==
  ASSUME IInv, NEW s \in Sessions, NEW c \in Cards
  PROVE  /\ Row(s, c) \in Scorecard \cup {NoRow} /\ Trail(s, c) \in Seq(Entry)
         /\ Chained(c, Trail(s, c), Row(s, c), edited \cup tx[s].edited)
         /\ Keeps(tx[s].logged[c], scorecards[c], Row(s, c))
<1>1. /\ tx[s] \in Transaction /\ TxOK(tx[s], scorecards, audit_log, edited)
      /\ scorecards \in [Cards -> Scorecard \cup {NoRow}]
      /\ audit_log \in [Cards -> Seq(Entry)]
      /\ Chained(c, audit_log[c], scorecards[c], edited)
  BY DEF IInv, TypeOK, AuditTrail
<1>2. Row(s, c) \in Scorecard \cup {NoRow}
  BY <1>1 DEF Row, Transaction
<1>3. QED
  BY <1>1, <1>2, View DEF Row, Trail

\* COMMIT changes no row that another transaction has locked.
LEMMA CommitStep ==
  ASSUME IInv, NEW s \in Sessions, Commit(s) PROVE IInv'
<1>1. /\ tx'[s] = NoTransaction /\ \A r \in Sessions \ {s} : tx'[r] = tx[r]
      /\ tx' \in [Sessions -> Transaction]
  BY NoTransactionOK DEF Commit, IInv, TypeOK
<1>2. /\ scorecards' = [c \in Cards |-> Row(s, c)]
      /\ audit_log' = [c \in Cards |-> Trail(s, c)]
      /\ edited' = edited \cup tx[s].edited
  BY DEF Commit
<1>3. TypeOK'
  <2>1. tx[s].edited \subseteq Cards \X Nat
    BY DEF IInv, TypeOK, Transaction
  <2>2. begun' \in Nat
    BY DEF IInv, TypeOK, Commit
  <2>3. QED
    BY <1>1, <1>2, <2>1, <2>2, CommittedView DEF TypeOK, IInv
<1>4. Exclusive'
  <2>1. NoTransaction.locked = {}
    BY DEF NoTransaction
  <2>2. QED
    BY <1>1, <2>1 DEF IInv, Exclusive
<1>5. AuditTrail'
  BY <1>2, CommittedView DEF AuditTrail
<1>6. ASSUME NEW r \in Sessions \ {s}
      PROVE  TxOK(tx[r], scorecards', audit_log', edited')
  <2>1. TxOK(tx[r], scorecards, audit_log, edited) /\ tx[r] \in Transaction
    BY DEF IInv, TypeOK
  <2>2. ASSUME NEW c \in tx[r].locked
        PROVE  /\ Chained(c, audit_log'[c] \o tx[r].logged[c], tx[r].written[c],
                          edited' \cup tx[r].edited)
               /\ Keeps(tx[r].logged[c], scorecards'[c], tx[r].written[c])
    <3>1. c \in Cards /\ c \notin tx[s].locked
      BY <2>1 DEF IInv, Exclusive, Transaction
    <3>2. tx[s].logged[c] = <<>> /\ audit_log[c] \in Seq(Entry)
      BY <3>1 DEF IInv, TypeOK, TxOK
    <3>3. scorecards'[c] = scorecards[c] /\ audit_log'[c] = audit_log[c]
      BY <1>2, <3>1, <3>2, ConcatEmptySeq DEF Row, Trail
    <3>4. /\ Chained(c, audit_log[c] \o tx[r].logged[c], tx[r].written[c],
                     edited \cup tx[r].edited)
          /\ Keeps(tx[r].logged[c], scorecards[c], tx[r].written[c])
      BY <2>1 DEF TxOK
    <3>5. Chained(c, audit_log[c] \o tx[r].logged[c], tx[r].written[c],
                  (edited \cup tx[r].edited) \cup tx[s].edited)
      BY <3>4, ChainedWithMore
    <3>6. (edited \cup tx[r].edited) \cup tx[s].edited = edited' \cup tx[r].edited
      BY <1>2
    <3>7. QED
      BY <3>3, <3>4, <3>5, <3>6
  <2>3. QED
    BY <2>1, <2>2 DEF TxOK
<1>7. \A r \in Sessions : TxOK(tx'[r], scorecards', audit_log', edited')
  BY <1>1, <1>6, NoTransactionOK
<1>8. QED
  BY <1>3, <1>4, <1>5, <1>7 DEF IInv

\* Every step preserves the invariant.
LEMMA StepInvariant ==
  ASSUME IInv, [Next]_vars PROVE IInv'
<1>1. CASE UNCHANGED vars
  BY <1>1 DEF vars, IInv, TypeOK, Exclusive, AuditTrail
<1>2. ASSUME NEW s \in Sessions, Begin(s) \/ Amend(s) \/ Commit(s) \/ Rollback(s)
      PROVE  IInv'
  BY <1>2, BeginStep, AmendStep, CommitStep, RollbackStep
<1>3. ASSUME NEW s \in Sessions, NEW c \in Cards,
             Insert(s, c) \/ Update(s, c) \/ AmendSelect(s, c)
      PROVE  IInv'
  BY <1>3, WriteStep, SelectStep
<1>4. QED
  BY <1>1, <1>2, <1>3 DEF Next

\* The inductive invariant holds of every reachable state of the database.
THEOREM Safety == Spec => []IInv
<1>1. IInv /\ [Next]_vars => IInv'
  BY StepInvariant
<1>2. QED
  BY <1>1, InitInvariant, PTL DEF Spec

\* Rows, log, transactions and history stay in their types.
THEOREM TypeCorrect == Spec => []TypeOK
<1>1. IInv => TypeOK
  BY DEF IInv
<1>2. QED
  BY <1>1, Safety, PTL

\* The committed audit log of every scorecard is a gapless history of its
\* amendments, whatever transactions interleave and abort.
THEOREM TrailComplete == Spec => []AuditTrail
<1>1. IInv => AuditTrail
  BY DEF IInv
<1>2. QED
  BY <1>1, Safety, PTL

\* No commit of any transaction shortens or rewrites the audit log, or changes
\* a submitted scorecard without an entry that keeps it.
THEOREM SubmittedKept == Spec => SubmittedIsPreserved
<1> DEFINE Step(c) ==
      LET n == Len(audit_log[c])
      IN  /\ SubSeq(audit_log'[c], 1, n) = audit_log[c]
          /\ /\ scorecards[c] # NoRow /\ scorecards[c].status = "submitted"
             /\ scorecards'[c] # scorecards[c]
             => /\ Len(audit_log'[c]) > n
                /\ audit_log'[c][n + 1].before = scorecards[c]
<1>1. ASSUME IInv, NEW c \in Cards, UNCHANGED <<scorecards, audit_log>>
      PROVE  Step(c)
  BY <1>1, SubSeqFull DEF IInv, TypeOK
<1>2. ASSUME IInv, NEW s \in Sessions, Commit(s), NEW c \in Cards
      PROVE  Step(c)
  <2>1. scorecards'[c] = Row(s, c) /\ audit_log'[c] = Trail(s, c)
    BY <1>2 DEF Commit
  <2>2. PICK log \in Seq(Entry), own \in Seq(Entry) :
           log = audit_log[c] /\ own = tx[s].logged[c]
    BY <1>2 DEF IInv, TypeOK, Transaction
  <2>3. /\ audit_log'[c] = log \o own /\ log \o own \in Seq(Entry)
        /\ Len(log \o own) = Len(log) + Len(own)
        /\ \A i \in 1 .. Len(log) + Len(own) :
             (log \o own)[i] = IF i <= Len(log) THEN log[i] ELSE own[i - Len(log)]
    BY <2>1, <2>2, ConcatProperties DEF Trail
  <2>4. /\ Len(log) \in Nat /\ Len(own) \in Nat
        /\ own # <<>> => Len(own) # 0
    BY EmptySeq, LenProperties
  <2>5. SubSeq(log \o own, 1, Len(log)) = log
    <3>1. CASE log = <<>>
      BY <3>1, SubSeqEmpty, EmptySeq
    <3>2. CASE log # <<>>
      <4>1. 1 \in 1 .. Len(log) /\ Len(log) \in 1 .. Len(log)
        BY <2>4, <3>2, EmptySeq
      <4>2. SubSeq(log \o own, 1, Len(log)) = SubSeq(log, 1, Len(log))
        BY <4>1, SubSeqOfConcat1
      <4>3. QED
        BY <4>2, SubSeqFull
    <3>3. QED
      BY <3>1, <3>2
  <2>6. ASSUME own # <<>>
        PROVE  Len(log \o own) > Len(log) /\ (log \o own)[Len(log) + 1] = own[1]
    <3>1. Len(log) + 1 \in 1 .. Len(log) + Len(own) /\ ~(Len(log) + 1 <= Len(log))
      BY <2>4, <2>6
    <3>2. (Len(log) + 1) - Len(log) = 1
      BY <2>4
    <3>3. QED
      BY <2>3, <2>4, <2>6, <3>1, <3>2
  <2>7. Keeps(own, scorecards[c], scorecards'[c])
    BY <1>2, <2>1, <2>2, CommittedView
  <2>8. QED
    BY <2>2, <2>3, <2>5, <2>6, <2>7 DEF Keeps
<1>3. ASSUME IInv, [Next]_vars PROVE \A c \in Cards : Step(c)
  <2>1. CASE UNCHANGED <<scorecards, audit_log>>
    BY <1>1, <1>3, <2>1
  <2>2. CASE \E s \in Sessions : Commit(s)
    BY <1>2, <1>3, <2>2
  <2>3. ASSUME NEW s \in Sessions, Begin(s) \/ Amend(s) \/ Rollback(s)
        PROVE  UNCHANGED <<scorecards, audit_log>>
    BY <2>3 DEF Begin, Amend, Rollback, Committed
  <2>4. ASSUME NEW s \in Sessions, NEW c \in Cards,
               Insert(s, c) \/ Update(s, c) \/ AmendSelect(s, c)
        PROVE  UNCHANGED <<scorecards, audit_log>>
    BY <2>4 DEF Insert, Update, WriteRow, AmendSelect, Committed
  <2>5. UNCHANGED vars => UNCHANGED <<scorecards, audit_log>>
    BY DEF vars
  <2>6. QED
    BY <1>3, <2>1, <2>2, <2>3, <2>4, <2>5 DEF Next
<1>4. QED
  BY <1>3, Safety, PTL DEF Spec, SubmittedIsPreserved
=============================================================================
