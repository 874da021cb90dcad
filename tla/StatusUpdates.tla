---------------------------- MODULE StatusUpdates ----------------------------
(***************************************************************************)
(* The status of job requisitions (app/services/requisitions.py) and of HR *)
(* users (app/services/hr_users.py).                                       *)
(*                                                                         *)
(* Both services change it the same way: SELECT the row, check the status  *)
(* read, assign the new one and commit.  The SELECT locks nothing and the  *)
(* UPDATE does not repeat the check, so a call may write over a status it  *)
(* never read.                                                             *)
(***************************************************************************)
CONSTANTS
  Requisitions,  \* job requisitions
  Users,         \* HR users
  Callers,       \* concurrent API requests
  NoCall         \* the caller has no call under way

ASSUME RowsAssumption == Requisitions \cap Users = {}

Rows == Requisitions \cup Users

RequisitionStatus == {"draft", "open", "on_hold", "filled", "cancelled"}
UserStatus == {"invited", "active", "deactivated"}
StatusOf(r) == IF r \in Requisitions THEN RequisitionStatus ELSE UserStatus
Status == RequisitionStatus \cup UserStatus \cup {"absent"}

Terminal == {"filled", "cancelled", "deactivated"}

\* Faulty variant: a filled requisition may be opened again.
FilledReopens ==
  [draft |-> {"open", "cancelled"},
   open |-> {"on_hold", "filled", "cancelled"},
   on_hold |-> {"open", "cancelled"},
   filled |-> {"open"},
   cancelled |-> {}]

\* _VALID_TRANSITIONS.
ValidTransitions ==
  [draft |-> {"open", "cancelled"},
   open |-> {"on_hold", "filled", "cancelled"},
   on_hold |-> {"open", "cancelled"},
   filled |-> {},
   cancelled |-> {}]

\* The statuses a call that reads `from` may write: a requisition is checked
\* against the table, a user is activated only when invited and deactivated
\* always.
Allowed(r, from) ==
  IF r \in Requisitions THEN ValidTransitions[from]
  ELSE {"deactivated"} \cup (IF from = "invited" THEN {"active"} ELSE {})

Call == [row : Rows, from : Status, to : Status]

VARIABLES
  status,  \* the committed status of each row
  call,    \* what each caller has read and is about to write
  been,    \* history: the statuses each row has had
  lost     \* history: the rows of which a call has overwritten an unread status

vars == <<status, call, been, lost>>

TypeOK ==
  /\ \A r \in Rows : status[r] \in StatusOf(r) \cup {"absent"}
  /\ status \in [Rows -> Status]
  /\ call \in [Callers -> Call \cup {NoCall}]
  /\ been \in [Rows -> SUBSET Status]
  /\ lost \subseteq Rows

Init ==
  /\ status = [r \in Rows |-> "absent"]
  /\ call = [c \in Callers |-> NoCall]
  /\ been = [r \in Rows |-> {}]
  /\ lost = {}

Set(r, new) ==
  /\ status' = [status EXCEPT ![r] = new]
  /\ been' = [been EXCEPT ![r] = @ \cup {new}]

CreateRequisition(r) ==
  /\ r \in Requisitions /\ status[r] = "absent"
  /\ Set(r, "draft")
  /\ UNCHANGED <<call, lost>>

\* Faulty variant: both tables share one default status.
InviteAsDraft(r) ==
  /\ r \in Users /\ status[r] = "absent"
  /\ Set(r, "draft")
  /\ UNCHANGED <<call, lost>>

\* invite_hr_user.
InviteUser(r) ==
  /\ r \in Users /\ status[r] = "absent"
  /\ Set(r, "invited")
  /\ UNCHANGED <<call, lost>>

Create(r) == CreateRequisition(r) \/ InviteUser(r)

\* Faulty variant: any status of the enumeration may be requested.
ReadUnchecked(c) ==
  /\ call[c] = NoCall
  /\ \E r \in Rows, to \in Status \ {"absent"} :
       /\ status[r] # "absent"
       /\ to \in StatusOf(r)
       /\ call' = [call EXCEPT ![c] = [row |-> r, from |-> status[r], to |-> to]]
  /\ UNCHANGED <<status, been, lost>>

\* SELECT and check.  A call that fails the check ends here and changes nothing:
\* an error for a requisition, a no-op for a user.
Read(c) ==
  /\ call[c] = NoCall
  /\ \E r \in Rows :
       /\ status[r] # "absent"
       /\ \E to \in Allowed(r, status[r]) :
            call' = [call EXCEPT ![c] = [row |-> r, from |-> status[r], to |-> to]]
  /\ UNCHANGED <<status, been, lost>>

\* UPDATE and COMMIT; a status equal to the one loaded is not written.
Write(c) ==
  /\ call[c] # NoCall
  /\ LET r == call[c].row
     IN  IF call[c].to = call[c].from THEN UNCHANGED <<status, been, lost>>
         ELSE /\ Set(r, call[c].to)
              /\ lost' = IF status[r] = call[c].from THEN lost ELSE lost \cup {r}
  /\ call' = [call EXCEPT ![c] = NoCall]

\* The call raises before its commit, and is rolled back.
Abort(c) ==
  /\ call[c] # NoCall
  /\ call' = [call EXCEPT ![c] = NoCall]
  /\ UNCHANGED <<status, been, lost>>

Next ==
  \/ \E r \in Rows : Create(r)
  \/ \E c \in Callers : Read(c) \/ Write(c) \/ Abort(c)

Spec == Init /\ [][Next]_vars

(***************************************************************************)
(* Properties.                                                             *)
(***************************************************************************)
\* A requisition is on hold or filled only if it was open at some time, and a
\* user active only after an invitation, however calls race: each checked a
\* status that the row did have.
ThroughOpen ==
  \A r \in Rows :
    /\ status[r] \in {"on_hold", "filled"} => "open" \in been[r]
    /\ status[r] = "active" => "invited" \in been[r]

\* "filled/cancelled are terminal", and a deactivated user is not active again,
\* unless a call has overwritten a status it had not read.
TerminalUnlessLost ==
  \A r \in Rows : \A t \in Terminal \cap been[r] : status[r] = t \/ r \in lost

\* A status changes to one that may not follow it only in the write of a call
\* that read another one.
Stale(c, r) == call[c] # NoCall /\ call[c].row = r /\ call[c].from # status[r]
OutOfTurn(r) ==
  status[r] # "absent" /\ status'[r] # status[r] /\ status'[r] \notin Allowed(r, status[r])
OnlyStaleWritesJump ==
  [][\A r \in Rows : OutOfTurn(r) =>
       \E c \in Callers : Stale(c, r) /\ call'[c] = NoCall]_vars
=============================================================================
