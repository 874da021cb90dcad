--------------------------- MODULE SerialSubmission ---------------------------
(***************************************************************************)
(* What submit_resume promises about the committed tables: they are those  *)
(* that the submissions leave when each happens at one instant, one after  *)
(* another, with the look-up of the candidate, the checks and the three    *)
(* insertions in one step, and after its file has been stored.             *)
(***************************************************************************)

CONSTANTS Requests, Emails, Requisitions, OrgOf

VARIABLES candidates, resumes, applications, files

vars == <<candidates, resumes, applications, files>>

Init ==
  /\ candidates = {}
  /\ resumes = {}
  /\ applications = {}
  /\ files = {}

\* A file may be stored for a submission that never takes effect.
Store(q) ==
  /\ files' = files \cup {q}
  /\ UNCHANGED <<candidates, resumes, applications>>

\* The candidates there are with this key, or else the new one of submission q.
CandidatesFor(q, org, email) ==
  LET known == {c \in candidates : c.org = org /\ c.email = email}
  IN  IF known = {} THEN {[id |-> q, org |-> org, email |-> email]} ELSE known

NoneActive(c, j) ==
  \A a \in applications : a.active => a.candidate # c.id \/ a.requisition # j

\* Submission q takes effect, once, in the organization of its requisition.
Submit(q) ==
  /\ q \in files /\ \A r \in resumes : r.id # q
  /\ \E j \in Requisitions, email \in Emails :
       LET org == OrgOf[j]
       IN  \E c \in CandidatesFor(q, org, email) :
             /\ NoneActive(c, j)
             /\ candidates' = candidates \cup {c}
             /\ resumes' = resumes \cup {[id |-> q, org |-> org, candidate |-> c.id]}
             /\ applications' = applications \cup
                  {[id |-> q, org |-> org, candidate |-> c.id, requisition |-> j,
                    resume |-> q, active |-> TRUE]}
  /\ UNCHANGED files

Close(a) ==
  /\ a.active
  /\ applications' = (applications \ {a}) \cup {[a EXCEPT !.active = FALSE]}
  /\ UNCHANGED <<candidates, resumes, files>>

Next ==
  \/ \E q \in Requests : Store(q) \/ Submit(q)
  \/ \E a \in applications : Close(a)

Spec == Init /\ [][Next]_vars
=============================================================================
