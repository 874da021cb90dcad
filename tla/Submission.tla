------------------------------ MODULE Submission ------------------------------
(***************************************************************************)
(* Resume submission up to its commit: app/services/ingestion.py, with the *)
(* organization-scoped transaction of app/api/deps.py and the constraints  *)
(* of the initial migration on candidates and applications.                *)
(*                                                                         *)
(* A request reuses or creates the candidate, stores the file in S3, then  *)
(* commits candidate, resume and application together.  Concurrent         *)
(* requests check before they write; only the unique keys and the trigger  *)
(* of the database stand between two of them.  What follows the commit is  *)
(* module ResumePipeline.                                                  *)
(***************************************************************************)
EXTENDS Integers, FiniteSets

CONSTANTS
  Requests,      \* the submission requests; each names the rows it inserts
  Emails,        \* candidate e-mail addresses
  Requisitions,  \* job requisitions
  OrgOf,         \* the organization of each requisition
  NoCandidate    \* the request has no candidate yet

ASSUME RequisitionsAssumption == DOMAIN OrgOf = Requisitions

Orgs == {OrgOf[j] : j \in Requisitions}

\* organization from the verified token, the rest from the submitted form.
Input == [org : Orgs, email : Emails, requisition : Requisitions]
Candidate == [id : Requests, org : Orgs, email : Emails]
Resume == [id : Requests, org : Orgs, candidate : Requests]
Application == [id : Requests, org : Orgs, candidate : Requests,
                requisition : Requisitions, resume : Requests, active : BOOLEAN]

VARIABLES
  phase,         \* how far each request is
  input,         \* what each request submits
  candidate,     \* the candidate each request works with
  candidates,    \* committed rows
  resumes,       \* committed rows
  applications,  \* committed rows
  files          \* the resume files in S3, by resume id

tables == <<candidates, resumes, applications>>
vars == <<phase, input, candidate, tables, files>>

Open == {"missing", "resolved", "uploaded"}

TypeOK ==
  /\ phase \in [Requests -> Open \cup {"new", "committed", "failed"}]
  /\ input \in [Requests -> Input \cup {NoCandidate}]
  /\ candidate \in [Requests -> Candidate \cup {NoCandidate}]
  /\ candidates \subseteq Candidate
  /\ resumes \subseteq Resume
  /\ applications \subseteq Application
  /\ files \subseteq Requests

Init ==
  /\ phase = [q \in Requests |-> "new"]
  /\ input = [q \in Requests |-> NoCandidate]
  /\ candidate = [q \in Requests |-> NoCandidate]
  /\ candidates = {}
  /\ resumes = {}
  /\ applications = {}
  /\ files = {}

Enter(q, step) == phase' = [phase EXCEPT ![q] = step]

SamePerson(c, i) == c.org = i.org /\ c.email = i.email

\* q's open transaction has inserted its candidate, and not yet committed it.
HoldsKeyOf(q, i) ==
  /\ phase[q] \in {"resolved", "uploaded"}
  /\ candidate[q].id = q /\ SamePerson(candidate[q], i)

\* SELECT the candidate by organization and e-mail.
Find(q) ==
  /\ phase[q] = "new"
  /\ \E i \in Input :
       /\ input' = [input EXCEPT ![q] = i]
       /\ \/ \E c \in candidates :
               /\ SamePerson(c, i)
               /\ candidate' = [candidate EXCEPT ![q] = c]
               /\ Enter(q, "resolved")
          \/ /\ \A c \in candidates : ~SamePerson(c, i)
             /\ UNCHANGED candidate
             /\ Enter(q, "missing")
  /\ UNCHANGED <<tables, files>>

NewCandidate(q) == [id |-> q, org |-> input[q].org, email |-> input[q].email]

\* Faulty variant: uq_candidates_org_email is missing.
CreateCandidateUnchecked(q) ==
  /\ phase[q] = "missing"
  /\ candidate' = [candidate EXCEPT ![q] = NewCandidate(q)]
  /\ Enter(q, "resolved")
  /\ UNCHANGED <<input, tables, files>>

\* Faulty variant: the candidate is committed on its own.
CreateCandidateCommits(q) ==
  /\ phase[q] = "missing"
  /\ \A c \in candidates : ~SamePerson(c, input[q])
  /\ candidate' = [candidate EXCEPT ![q] = NewCandidate(q)]
  /\ candidates' = candidates \cup {NewCandidate(q)}
  /\ Enter(q, "resolved")
  /\ UNCHANGED <<input, resumes, applications, files>>

\* INSERT and flush.  It waits for an uncommitted candidate with the same key,
\* and succeeds only if that one is rolled back.
CreateCandidate(q) ==
  /\ phase[q] = "missing"
  /\ \A p \in Requests : ~HoldsKeyOf(p, input[q])
  /\ \A c \in candidates : ~SamePerson(c, input[q])
  /\ candidate' = [candidate EXCEPT ![q] = NewCandidate(q)]
  /\ Enter(q, "resolved")
  /\ UNCHANGED <<input, tables, files>>

\* Faulty variant: the transaction goes on after the IntegrityError.
CandidateConflictIgnored(q) ==
  /\ phase[q] = "missing"
  /\ \E c \in candidates : SamePerson(c, input[q])
  /\ UNCHANGED vars

\* The candidate appeared since the SELECT: IntegrityError.
CandidateConflict(q) ==
  /\ phase[q] = "missing"
  /\ \E c \in candidates : SamePerson(c, input[q])
  /\ Enter(q, "failed")
  /\ UNCHANGED <<input, candidate, tables, files>>

\* Faulty variant: the object key names the candidate, not the resume.
UploadByEmail(q) ==
  /\ phase[q] = "resolved"
  /\ files' = files \cup {input[q].email}
  /\ Enter(q, "uploaded")
  /\ UNCHANGED <<input, candidate, tables>>

\* The file goes to S3 before the resume row exists.
Upload(q) ==
  /\ phase[q] = "resolved"
  /\ files' = files \cup {q}
  /\ Enter(q, "uploaded")
  /\ UNCHANGED <<input, candidate, tables>>

\* The partial unique index: an application that is neither rejected nor
\* withdrawn, of the same candidate to the same requisition.
HasActiveApplication(q) ==
  \E a \in applications :
    /\ a.active
    /\ a.candidate = candidate[q].id /\ a.requisition = input[q].requisition

\* The trigger: organization_id must be that of candidate and requisition.
OrgConsistent(q) ==
  input[q].org = candidate[q].org /\ input[q].org = OrgOf[input[q].requisition]

\* Resume and application are inserted and the transaction is committed.
Insertions(q) ==
  /\ candidates' = candidates \cup {candidate[q]}
  /\ resumes' = resumes \cup {[id |-> q, org |-> input[q].org, candidate |-> candidate[q].id]}
  /\ applications' = applications \cup
       {[id |-> q, org |-> input[q].org, candidate |-> candidate[q].id,
         requisition |-> input[q].requisition, resume |-> q, active |-> TRUE]}
  /\ Enter(q, "committed")
  /\ UNCHANGED <<input, candidate, files>>

\* Faulty variant: no partial unique index on applications.
CommitTwice(q) == phase[q] = "uploaded" /\ OrgConsistent(q) /\ Insertions(q)

\* Faulty variant: no trigger on applications.
CommitAcrossOrgs(q) == phase[q] = "uploaded" /\ ~HasActiveApplication(q) /\ Insertions(q)

Commit(q) ==
  /\ phase[q] = "uploaded"
  /\ ~HasActiveApplication(q)
  /\ OrgConsistent(q)
  /\ Insertions(q)

\* The index or the trigger refuses the application: rollback.
CommitRefused(q) ==
  /\ phase[q] = "uploaded"
  /\ HasActiveApplication(q) \/ ~OrgConsistent(q)
  /\ Enter(q, "failed")
  /\ UNCHANGED <<input, candidate, tables, files>>

\* A call to Postgres or S3 raises, or the API process dies: rollback.  An
\* upload that raises may have stored the file.
Fail(q) ==
  /\ phase[q] \in Open
  /\ files' = files \/ (phase[q] = "resolved" /\ files' = files \cup {q})
  /\ Enter(q, "failed")
  /\ UNCHANGED <<input, candidate, tables>>

\* An application is rejected or withdrawn (no code under app/ does it yet).
Close(a) ==
  /\ a.active
  /\ applications' = (applications \ {a}) \cup {[a EXCEPT !.active = FALSE]}
  /\ UNCHANGED <<phase, input, candidate, candidates, resumes, files>>

RequestStep(q) ==
  \/ Find(q) \/ CreateCandidate(q) \/ CandidateConflict(q) \/ Upload(q)
  \/ Commit(q) \/ CommitRefused(q)

Next ==
  \/ \E q \in Requests : RequestStep(q) \/ Fail(q)
  \/ \E a \in applications : Close(a)

\* A request that has begun runs on; whether one begins is up to the clients.
Spec ==
  /\ Init /\ [][Next]_vars
  /\ \A q \in Requests : WF_vars(phase[q] # "new" /\ RequestStep(q))

(***************************************************************************)
(* Properties.                                                             *)
(***************************************************************************)
\* A8's dedup key: concurrent submissions for a new e-mail address do not
\* create the candidate twice, although each looked before it inserted.
OneCandidatePerEmail ==
  \A c, d \in candidates : SamePerson(c, d) => c = d

\* I3's uniqueness half: one active application per candidate and requisition,
\* whatever the concurrent submissions saw; reapplying needs the first closed.
OneActiveApplication ==
  \A a, b \in applications :
    a.active /\ b.active /\ a.candidate = b.candidate /\ a.requisition = b.requisition
      => a = b

\* One transaction: there is no candidate without an application, no resume
\* without its application and no application without its resume.
AllOrNothing ==
  /\ \A c \in candidates : \E a \in applications : a.candidate = c.id
  /\ {r.id : r \in resumes} = {a.resume : a \in applications}

\* I1 and I3: application, resume, candidate and requisition belong to one
\* organization, and the resume is the candidate's own.
OneOrganization ==
  \A a \in applications :
    /\ OrgOf[a.requisition] = a.org
    /\ \E c \in candidates : c.id = a.candidate /\ c.org = a.org
    /\ \E r \in resumes : r.id = a.resume /\ r.candidate = a.candidate /\ r.org = a.org

\* Overlapping submissions are serializable: whatever each has read before the
\* others committed, the tables are those of one submission after another.
Serial == INSTANCE SerialSubmission
ImplementsSerial == Serial!Spec

\* Every submission ends: waiting for a candidate's key is bounded by the
\* request that holds it.
Ends == \A q \in Requests : phase[q] \in Open ~> phase[q] \in {"committed", "failed"}
=============================================================================
