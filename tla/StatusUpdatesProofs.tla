------------------------- MODULE StatusUpdatesProofs -------------------------
(***************************************************************************)
(* What the unlocked read-check-write of StatusUpdates still guarantees,   *)
(* for any requisitions, users and concurrent callers.                     *)
(*                                                                         *)
(* CallsChecked carries the check across the gap: the status a call read   *)
(* is one its row has had, and the status it will write may follow it.     *)
(***************************************************************************)
EXTENDS StatusUpdates, TLAPS

\* The history holds the present status, and a row that does not exist has no
\* history.
HistoryCovers ==
  \A r \in Rows :
    /\ status[r] # "absent" => status[r] \in been[r]
    /\ been[r] \subseteq StatusOf(r)

CallsChecked ==
  \A c \in Callers :
    call[c] # NoCall =>
      /\ call[c].from \in been[call[c].row]
      /\ call[c].to \in Allowed(call[c].row, call[c].from)

Inv == TypeOK /\ HistoryCovers /\ CallsChecked /\ ThroughOpen /\ TerminalUnlessLost

\* What the table and the two HR calls allow.
LEMMA AllowedStatus ==
  ASSUME NEW r \in Rows, NEW from \in StatusOf(r)
  PROVE  /\ Allowed(r, from) \subseteq StatusOf(r)
         /\ from \in Terminal => Allowed(r, from) \subseteq {from}
         /\ "filled" \in Allowed(r, from) => from = "open"
         /\ "on_hold" \in Allowed(r, from) => from = "open"
         /\ "active" \in Allowed(r, from) => from = "invited"
<1>1. CASE r \in Requisitions
  <2>1. ValidTransitions[from] = Allowed(r, from)
    BY <1>1 DEF Allowed
  <2>2. from \in {"draft", "open", "on_hold", "filled", "cancelled"}
    BY <1>1 DEF StatusOf, RequisitionStatus
  <2>3. QED
    BY <1>1, <2>1, <2>2 DEF StatusOf, RequisitionStatus, Terminal, ValidTransitions
<1>2. CASE r \notin Requisitions
  BY <1>2 DEF Allowed, StatusOf, UserStatus, Terminal
<1>3. QED
  BY <1>1, <1>2

\* The invariant holds at first.
LEMMA InitEstablishesInv == Init => Inv
BY DEF Init, Inv, TypeOK, HistoryCovers, CallsChecked, ThroughOpen,
       TerminalUnlessLost, Status

\* A new row starts with the status of its creation in its history.
LEMMA CreatePreservesInv ==
  ASSUME NEW r \in Rows, Inv, Create(r) PROVE Inv'
<1> DEFINE new == IF r \in Requisitions THEN "draft" ELSE "invited"
<1>0. status[r] = "absent"
  BY DEF Create, CreateRequisition, InviteUser
<1>1. /\ new \in StatusOf(r) /\ new \in Status /\ new \notin Terminal
      /\ new \notin {"on_hold", "filled", "active", "absent"}
  BY DEF StatusOf, RequisitionStatus, UserStatus, Status, Terminal
<1>2. /\ status' = [status EXCEPT ![r] = new]
      /\ been' = [been EXCEPT ![r] = @ \cup {new}]
      /\ UNCHANGED <<call, lost>>
  BY RowsAssumption DEF Create, CreateRequisition, InviteUser, Set
<1> HIDE DEF new
<1> USE DEF Inv
<1>3. TypeOK'
  BY <1>1, <1>2 DEF TypeOK
<1>4. HistoryCovers'
  BY <1>1, <1>2 DEF TypeOK, HistoryCovers
<1>5. CallsChecked'
  BY <1>1, <1>2 DEF TypeOK, CallsChecked, Call
<1>6. ThroughOpen'
  BY <1>1, <1>2 DEF TypeOK, ThroughOpen
<1>7. TerminalUnlessLost'
  <2>1. \A t \in Terminal : t # "absent"
    BY DEF Terminal
  <2>2. QED
    BY <1>0, <1>1, <1>2, <2>1 DEF TypeOK, TerminalUnlessLost
<1>8. QED
  BY <1>3, <1>4, <1>5, <1>6, <1>7

\* A call carries only a transition it has checked.
LEMMA ReadPreservesInv ==
  ASSUME NEW c \in Callers, Inv, Read(c) PROVE Inv'
<1>1. PICK r \in Rows : /\ status[r] # "absent"
                        /\ \E to \in Allowed(r, status[r]) :
                             call' = [call EXCEPT ![c] = [row |-> r, from |-> status[r], to |-> to]]
  BY DEF Read
<1>2. PICK to \in Allowed(r, status[r]) :
        call' = [call EXCEPT ![c] = [row |-> r, from |-> status[r], to |-> to]]
  BY <1>1
<1>3. UNCHANGED <<status, been, lost>>
  BY DEF Read
<1> USE DEF Inv
<1>4. /\ status[r] \in StatusOf(r) /\ status[r] \in Status
      /\ to \in Status
  <2>1. status[r] \in StatusOf(r)
    BY <1>1 DEF TypeOK
  <2>2. StatusOf(r) \subseteq Status
    BY DEF StatusOf, Status
  <2>3. QED
    BY <1>2, <2>1, <2>2, AllowedStatus
<1>5. [row |-> r, from |-> status[r], to |-> to] \in Call
  BY <1>4 DEF Call
<1>6. TypeOK'
  BY <1>2, <1>3, <1>5 DEF TypeOK
<1>7. CallsChecked'
  BY <1>1, <1>2, <1>3 DEF TypeOK, HistoryCovers, CallsChecked
<1>8. HistoryCovers' /\ ThroughOpen' /\ TerminalUnlessLost'
  BY <1>3 DEF HistoryCovers, ThroughOpen, TerminalUnlessLost
<1>9. QED
  BY <1>6, <1>7, <1>8

\* A call that ends without a write.
LEMMA EndPreservesInv ==
  ASSUME NEW c \in Callers, Inv,
         call' = [call EXCEPT ![c] = NoCall], UNCHANGED <<status, been, lost>>
  PROVE  Inv'
BY DEF Inv, TypeOK, HistoryCovers, CallsChecked, ThroughOpen, TerminalUnlessLost

\* What a call that writes has checked.
LEMMA WriteChecked ==
  ASSUME NEW c \in Callers, Inv, call[c] # NoCall
  PROVE  /\ call[c] \in Call
         /\ call[c].row \in Rows
         /\ call[c].from \in StatusOf(call[c].row)
         /\ call[c].to \in StatusOf(call[c].row)
         /\ call[c].to \in Allowed(call[c].row, call[c].from)
<1>1. call[c] \in Call /\ call[c].row \in Rows
  BY DEF Inv, TypeOK, Call
<1>2. call[c].from \in been[call[c].row] /\ call[c].to \in Allowed(call[c].row, call[c].from)
  BY DEF Inv, CallsChecked
<1>3. call[c].from \in StatusOf(call[c].row)
  BY <1>1, <1>2 DEF Inv, HistoryCovers
<1>4. QED
  BY <1>1, <1>2, <1>3, AllowedStatus

\* A write over the status read is allowed; over another one it is a lost update.
LEMMA WritePreservesInv ==
  ASSUME NEW c \in Callers, Inv, Write(c) PROVE Inv'
<1> DEFINE r == call[c].row
           from == call[c].from
           to == call[c].to
<1>0. call[c] # NoCall
  BY DEF Write
<1>1. r \in Rows /\ from \in StatusOf(r) /\ to \in StatusOf(r) /\ to \in Allowed(r, from)
  BY <1>0, WriteChecked
<1>2. call' = [call EXCEPT ![c] = NoCall]
  BY DEF Write
<1>3. CASE to = from
  <2>1. UNCHANGED <<status, been, lost>>
    BY <1>3 DEF Write
  <2>2. QED
    BY <1>2, <2>1, EndPreservesInv
<1>4. CASE to # from
  <2>1. /\ status' = [status EXCEPT ![r] = to]
        /\ been' = [been EXCEPT ![r] = @ \cup {to}]
        /\ lost' = IF status[r] = from THEN lost ELSE lost \cup {r}
    BY <1>4 DEF Write, Set
  <2>2. /\ from \in been[r]
        /\ to \in Status /\ to # "absent"
        /\ from \notin Terminal
        /\ to \in {"filled", "on_hold"} => from = "open"
        /\ to = "active" => from = "invited"
    <3>1. from \in been[r]
      BY <1>0 DEF Inv, CallsChecked
    <3>2. to \in Status /\ to # "absent"
      BY <1>1 DEF StatusOf, Status, RequisitionStatus, UserStatus
    <3>3. QED
      BY <1>1, <1>4, <3>1, <3>2, AllowedStatus
  <2> HIDE DEF r, from, to
  <2> USE DEF Inv
  <2>3. TypeOK'
    BY <1>1, <1>2, <2>1, <2>2 DEF TypeOK
  <2>4. HistoryCovers'
    BY <1>1, <2>1 DEF TypeOK, HistoryCovers
  <2>5. CallsChecked'
    BY <1>1, <1>2, <2>1 DEF TypeOK, CallsChecked, Call
  <2>6. ThroughOpen'
    BY <1>1, <2>1, <2>2 DEF TypeOK, ThroughOpen
  <2>7. TerminalUnlessLost'
    BY <1>1, <2>1, <2>2 DEF TypeOK, TerminalUnlessLost
  <2>8. QED
    BY <2>3, <2>4, <2>5, <2>6, <2>7
<1>5. QED
  BY <1>3, <1>4

\* Every step keeps the invariant.
LEMMA NextPreservesInv == Inv /\ [Next]_vars => Inv'
<1> SUFFICES ASSUME Inv, [Next]_vars PROVE Inv'
  OBVIOUS
<1>1. CASE \E r \in Rows : Create(r)
  BY <1>1, CreatePreservesInv
<1>2. ASSUME NEW c \in Callers, Read(c) PROVE Inv'
  BY <1>2, ReadPreservesInv
<1>3. ASSUME NEW c \in Callers, Write(c) PROVE Inv'
  BY <1>3, WritePreservesInv
<1>4. ASSUME NEW c \in Callers, Abort(c) PROVE Inv'
  BY <1>4, EndPreservesInv DEF Abort
<1>5. CASE UNCHANGED vars
  BY <1>5 DEF vars, Inv, TypeOK, HistoryCovers, CallsChecked, ThroughOpen, TerminalUnlessLost
<1>6. QED
  BY <1>1, <1>2, <1>3, <1>4, <1>5 DEF Next

\* So it holds always.
LEMMA InvHolds == Spec => []Inv
BY InitEstablishesInv, NextPreservesInv, PTL DEF Spec

\* Every status is one of its row's own enumeration.
THEOREM TypeCorrect == Spec => []TypeOK
<1>1. Inv => TypeOK
  BY DEF Inv
<1>2. QED
  BY <1>1, InvHolds, PTL

\* However calls race, a requisition is filled or on hold only after it was
\* open, and a user active only after an invitation.
THEOREM OpenFirst == Spec => []ThroughOpen
<1>1. Inv => ThroughOpen
  BY DEF Inv
<1>2. QED
  BY <1>1, InvHolds, PTL

\* A terminal status is left only through a lost update.
THEOREM TerminalKept == Spec => []TerminalUnlessLost
<1>1. Inv => TerminalUnlessLost
  BY DEF Inv
<1>2. QED
  BY <1>1, InvHolds, PTL

\* A step that the table forbids is the write of a call that had read another
\* status.
THEOREM JumpsAreStale == Spec => OnlyStaleWritesJump
<1> DEFINE Jump(r) == OutOfTurn(r) => \E c \in Callers : Stale(c, r) /\ call'[c] = NoCall
<1>1. Inv /\ [Next]_vars => [\A r \in Rows : Jump(r)]_vars
  <2> SUFFICES ASSUME Inv, Next, NEW r \in Rows, OutOfTurn(r)
               PROVE  \E c \in Callers : Stale(c, r) /\ call'[c] = NoCall
    OBVIOUS
  <2>1. status'[r] # status[r] /\ status[r] # "absent"
    BY DEF OutOfTurn
  <2>2. PICK c \in Callers : Write(c)
    BY <2>1 DEF Next, Create, CreateRequisition, InviteUser, Set, Read, Abort, Inv, TypeOK
  <2>3. call[c] # NoCall /\ call'[c] = NoCall
    BY <2>2 DEF Write, Inv, TypeOK
  <2>4. call[c].row = r /\ status'[r] = call[c].to
    BY <2>1, <2>2, <2>3, WriteChecked DEF Write, Set, Inv, TypeOK
  <2>5. call[c].from # status[r]
    BY <2>3, <2>4, WriteChecked DEF OutOfTurn
  <2>6. QED
    BY <2>3, <2>4, <2>5 DEF Stale
<1>2. QED
  BY <1>1, InvHolds, PTL DEF Spec, OnlyStaleWritesJump
=============================================================================
