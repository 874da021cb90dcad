--------------------------- MODULE SubmissionProofs ---------------------------
(***************************************************************************)
(* Submission keeps its safety properties for any number of requests,      *)
(* addresses, requisitions and organizations.                              *)
(*                                                                         *)
(* Between the look-up and the commit a request relies on something        *)
(* nobody locked: that its candidate stays what it found, or that nobody   *)
(* else commits the same person.  The unique key makes the second true:    *)
(* of the requests that hold an uncommitted candidate no two hold the same *)
(* person, and none holds one that is committed (Working).                 *)
(*                                                                         *)
(* The same facts make the submissions serializable: what a request looked *)
(* up when it began is what it would look up at its commit (CommitIsSubmit).*)
(***************************************************************************)
EXTENDS Submission, TLAPS

(***************************************************************************)
(* The inductive invariant.                                                *)
(***************************************************************************)
\* A request knows its input once it has begun, and its candidate once it has
\* found one or inserted its own, which no committed row shares.
Working ==
  \A q \in Requests :
    /\ phase[q] \in Open => input[q] \in Input
    /\ phase[q] \in {"resolved", "uploaded"} =>
         /\ candidate[q] \in Candidate /\ SamePerson(candidate[q], input[q])
         /\ \/ candidate[q] \in candidates
            \/ /\ candidate[q].id = q
               /\ \A c \in candidates : ~SamePerson(c, candidate[q])

\* No two open requests have inserted the same person.
KeysExclusive ==
  \A p, q \in Requests :
    /\ phase[p] \in {"resolved", "uploaded"} /\ candidate[p].id = p
    /\ phase[q] \in {"resolved", "uploaded"} /\ candidate[q].id = q
    /\ SamePerson(candidate[p], candidate[q])
    => p = q

\* Every row was committed by the request it is named after, and an
\* application names its resume after itself.
RowsCommitted ==
  /\ \A c \in candidates : phase[c.id] = "committed"
  /\ \A r \in resumes : phase[r.id] = "committed"
  /\ \A a \in applications : phase[a.id] = "committed" /\ a.resume = a.id

\* A request that has passed its upload has stored its file.
Stored == \A q \in Requests : phase[q] = "uploaded" => q \in files

IInv ==
  /\ TypeOK /\ Working /\ KeysExclusive /\ RowsCommitted /\ Stored
  /\ OneCandidatePerEmail /\ OneActiveApplication /\ AllOrNothing /\ OneOrganization

\* No request, no row.
LEMMA InitInvariant == Init => IInv
BY DEF Init, IInv, TypeOK, Working, KeysExclusive, RowsCommitted, Stored,
   OneCandidatePerEmail, OneActiveApplication, AllOrNothing, OneOrganization, Open

\* A step of one request that leaves the tables alone keeps what is said of
\* the rows.
LEMMA TablesKept ==
  ASSUME IInv, UNCHANGED tables,
         \A q \in Requests : phase[q] = "committed" => phase'[q] = "committed"
  PROVE  (RowsCommitted /\ OneCandidatePerEmail /\ OneActiveApplication
            /\ AllOrNothing /\ OneOrganization)'
<1>1. UNCHANGED <<candidates, resumes, applications>>
  BY DEF tables
<1>2. RowsCommitted'
  BY <1>1 DEF IInv, TypeOK, RowsCommitted, Candidate, Resume, Application
<1>3. QED
  BY <1>1, <1>2 DEF IInv, OneCandidatePerEmail, OneActiveApplication, AllOrNothing,
     OneOrganization

\* A candidate that is found is committed, so it is nobody's own.
LEMMA FindStep ==
  ASSUME IInv, NEW q \in Requests, Find(q) PROVE IInv'
<1>1. PICK i \in Input :
        /\ input' = [input EXCEPT ![q] = i]
        /\ \/ /\ \E c \in candidates : SamePerson(c, i) /\ candidate' = [candidate EXCEPT ![q] = c]
              /\ phase' = [phase EXCEPT ![q] = "resolved"]
           \/ /\ UNCHANGED candidate
              /\ phase' = [phase EXCEPT ![q] = "missing"]
  BY DEF Find, Enter
<1>2. phase[q] = "new" /\ UNCHANGED tables /\ UNCHANGED files
  BY DEF Find
<1>3. UNCHANGED <<candidates, resumes, applications>>
  BY <1>2 DEF tables
<1>4. TypeOK'
  BY <1>1, <1>2, <1>3 DEF IInv, TypeOK, Open
<1>5. Working'
  BY <1>1, <1>3 DEF IInv, TypeOK, Working, Open
<1>6. candidate'[q] \in candidates => candidate'[q].id # q
  BY <1>2 DEF IInv, RowsCommitted
<1>7. KeysExclusive'
  BY <1>1, <1>3, <1>6 DEF IInv, TypeOK, KeysExclusive
<1>8. Stored'
  BY <1>1, <1>2 DEF IInv, TypeOK, Stored
<1>9. QED
  BY <1>1, <1>2, <1>4, <1>5, <1>7, <1>8, TablesKept DEF IInv, TypeOK

\* The unique key admits one holder of a person.
LEMMA CreateCandidateStep ==
  ASSUME IInv, NEW q \in Requests, CreateCandidate(q) PROVE IInv'
<1>1. /\ phase[q] = "missing" /\ phase' = [phase EXCEPT ![q] = "resolved"]
      /\ candidate' = [candidate EXCEPT ![q] = NewCandidate(q)]
      /\ UNCHANGED <<input, files, tables>>
      /\ \A c \in candidates : ~SamePerson(c, input[q])
      /\ \A p \in Requests : ~HoldsKeyOf(p, input[q])
  BY DEF CreateCandidate, Enter
<1>2. UNCHANGED <<candidates, resumes, applications>>
  BY <1>1 DEF tables
<1>3. /\ NewCandidate(q) \in Candidate /\ NewCandidate(q).id = q
      /\ SamePerson(NewCandidate(q), input[q])
      /\ \A c : SamePerson(c, NewCandidate(q)) <=> SamePerson(c, input[q])
      /\ \A c : SamePerson(NewCandidate(q), c) => SamePerson(c, input[q])
  BY <1>1 DEF IInv, Working, Open, NewCandidate, Candidate, Input, SamePerson
<1>4. TypeOK'
  BY <1>1, <1>2, <1>3 DEF IInv, TypeOK, Open
<1>5. Working'
  BY <1>1, <1>2, <1>3 DEF IInv, TypeOK, Working, Open
<1>6. KeysExclusive'
  BY <1>1, <1>3 DEF IInv, TypeOK, KeysExclusive, HoldsKeyOf
<1>7. Stored'
  BY <1>1 DEF IInv, TypeOK, Stored
<1>8. QED
  BY <1>1, <1>4, <1>5, <1>6, <1>7, TablesKept DEF IInv, TypeOK

\* Upload, and every way to fail.
LEMMA LocalStep ==
  ASSUME IInv, NEW q \in Requests, phase[q] \in Open,
         NEW next \in {"uploaded", "failed"}, next = "uploaded" => phase[q] = "resolved",
         phase' = [phase EXCEPT ![q] = next],
         UNCHANGED <<input, candidate, tables>>,
         files \subseteq files', files' \subseteq files \cup {q},
         next = "uploaded" => q \in files'
  PROVE  IInv'
<1>1. UNCHANGED <<candidates, resumes, applications, input, candidate>>
  BY DEF tables
<1>2. TypeOK'
  BY <1>1 DEF IInv, TypeOK, Open
<1>3. Working'
  BY <1>1 DEF IInv, TypeOK, Working, Open
<1>4. KeysExclusive'
  BY <1>1 DEF IInv, TypeOK, KeysExclusive
<1>5. Stored'
  BY DEF IInv, TypeOK, Stored
<1>6. QED
  BY <1>2, <1>3, <1>4, <1>5, TablesKept DEF IInv, TypeOK, Open

\* The rows of one request, checked by the index and the trigger.
LEMMA CommitStep ==
  ASSUME IInv, NEW q \in Requests, Commit(q) PROVE IInv'
<1> DEFINE c == candidate[q]
           r == [id |-> q, org |-> input[q].org, candidate |-> c.id]
           a == [id |-> q, org |-> input[q].org, candidate |-> c.id,
                 requisition |-> input[q].requisition, resume |-> q, active |-> TRUE]
<1>1. /\ phase[q] = "uploaded" /\ phase' = [phase EXCEPT ![q] = "committed"]
      /\ candidates' = candidates \cup {c}
      /\ resumes' = resumes \cup {r} /\ applications' = applications \cup {a}
      /\ UNCHANGED <<input, candidate, files>>
      /\ ~HasActiveApplication(q)
      /\ input[q].org = c.org /\ input[q].org = OrgOf[input[q].requisition]
  BY DEF Commit, Insertions, Enter, OrgConsistent
<1>2. /\ input[q] \in Input /\ c \in Candidate /\ SamePerson(c, input[q])
      /\ \/ c \in candidates
         \/ c.id = q /\ \A d \in candidates : ~SamePerson(d, c)
  BY <1>1 DEF IInv, Working, Open
<1>3. r \in Resume /\ a \in Application
  BY <1>2 DEF Resume, Application, Input, Candidate
<1>4. TypeOK'
  BY <1>1, <1>2, <1>3 DEF IInv, TypeOK
<1>5. Working'
  <2> SUFFICES ASSUME NEW p \in Requests, phase'[p] \in {"resolved", "uploaded"}
               PROVE  \/ candidate[p] \in candidates'
                      \/ /\ candidate[p].id = p
                         /\ \A d \in candidates' : ~SamePerson(d, candidate[p])
    BY <1>1 DEF IInv, TypeOK, Working, Open
  <2>1. p # q /\ phase[p] \in {"resolved", "uploaded"}
    BY <1>1 DEF IInv, TypeOK
  <2>2. CASE candidate[p] \in candidates
    BY <1>1, <2>2
  <2>3. CASE candidate[p].id = p /\ \A d \in candidates : ~SamePerson(d, candidate[p])
    <3>1. c \notin candidates => ~SamePerson(c, candidate[p])
      BY <1>1, <1>2, <2>1, <2>3 DEF IInv, KeysExclusive
    <3>2. QED
      BY <1>1, <2>3, <3>1
  <2>4. QED
    BY <2>1, <2>2, <2>3 DEF IInv, Working
<1>6. KeysExclusive'
  BY <1>1 DEF IInv, TypeOK, KeysExclusive
<1>7. RowsCommitted'
  <2>1. c.id = q \/ phase[c.id] = "committed"
    BY <1>2 DEF IInv, RowsCommitted
  <2>2. c.id \in Requests
    BY <1>2 DEF Candidate
  <2>3. QED
    BY <1>1, <2>1, <2>2 DEF IInv, TypeOK, RowsCommitted, Candidate, Resume, Application
<1>8. OneCandidatePerEmail'
  <2>1. \A d \in candidates : SamePerson(d, c) \/ SamePerson(c, d) => d = c
    BY <1>2 DEF IInv, OneCandidatePerEmail, SamePerson
  <2>2. QED
    BY <1>1, <2>1 DEF IInv, OneCandidatePerEmail
<1>9. OneActiveApplication'
  <2>1. /\ a.candidate = c.id /\ a.requisition = input[q].requisition
        /\ \A b \in applications :
             b.active => b.candidate # c.id \/ b.requisition # input[q].requisition
    BY <1>1 DEF HasActiveApplication
  <2> HIDE DEF a
  <2>2. QED
    BY <1>1, <2>1 DEF IInv, OneActiveApplication
<1>10. AllOrNothing'
  <2>1. a.candidate = c.id /\ a.resume = r.id
    OBVIOUS
  <2> HIDE DEF a, r
  <2>2. \A d \in candidates' : \E b \in applications' : b.candidate = d.id
    BY <1>1, <2>1 DEF IInv, AllOrNothing
  <2>3. {s.id : s \in resumes'} = {s.id : s \in resumes} \cup {r.id}
    BY <1>1
  <2>4. {b.resume : b \in applications'} = {b.resume : b \in applications} \cup {a.resume}
    BY <1>1
  <2>5. QED
    BY <2>1, <2>2, <2>3, <2>4 DEF IInv, AllOrNothing
<1>11. OneOrganization'
  <2>1. /\ OrgOf[a.requisition] = a.org /\ a.candidate = c.id /\ c.org = a.org
        /\ r.id = a.resume /\ r.candidate = a.candidate /\ r.org = a.org
    BY <1>1
  <2> HIDE DEF a, r
  <2>2. QED
    BY <1>1, <2>1 DEF IInv, OneOrganization
<1>12. Stored'
  BY <1>1 DEF IInv, TypeOK, Stored
<1>13. QED
  BY <1>4, <1>5, <1>6, <1>7, <1>8, <1>9, <1>10, <1>11, <1>12 DEF IInv

\* Closing an application changes nothing else about it.
LEMMA CloseStep ==
  ASSUME IInv, NEW a \in applications, Close(a) PROVE IInv'
<1> DEFINE b == [a EXCEPT !.active = FALSE]
<1>1. /\ applications' = (applications \ {a}) \cup {b}
      /\ UNCHANGED <<phase, input, candidate, candidates, resumes, files>>
  BY DEF Close
<1>2. a \in Application
  BY DEF IInv, TypeOK
<1>3. /\ b \in Application /\ b.id = a.id /\ b.org = a.org /\ b.candidate = a.candidate
      /\ b.requisition = a.requisition /\ b.resume = a.resume /\ b.active = FALSE
  BY <1>2 DEF Application
<1> HIDE DEF b
<1>4. TypeOK' /\ Working' /\ KeysExclusive' /\ RowsCommitted' /\ Stored'
  BY <1>1, <1>3 DEF IInv, TypeOK, Working, KeysExclusive, RowsCommitted, Stored
<1>5. OneCandidatePerEmail' /\ OneActiveApplication' /\ OneOrganization'
  BY <1>1, <1>3 DEF IInv, OneCandidatePerEmail, OneActiveApplication, OneOrganization
<1>6. AllOrNothing'
  BY <1>1, <1>3 DEF IInv, AllOrNothing
<1>7. QED
  BY <1>4, <1>5, <1>6 DEF IInv

\* Every step preserves the invariant.
LEMMA StepInvariant ==
  ASSUME IInv, [Next]_vars PROVE IInv'
<1>1. CASE UNCHANGED vars
  BY <1>1 DEF vars, tables, IInv, TypeOK, Working, KeysExclusive, RowsCommitted, Stored,
     OneCandidatePerEmail, OneActiveApplication, AllOrNothing, OneOrganization
<1>2. ASSUME NEW q \in Requests, RequestStep(q) \/ Fail(q) PROVE IInv'
  <2>1. CASE Find(q)
    BY <2>1, FindStep
  <2>2. CASE CreateCandidate(q)
    BY <2>2, CreateCandidateStep
  <2>3. CASE CandidateConflict(q)
    BY <2>3, LocalStep DEF CandidateConflict, Enter, Open
  <2>4. CASE Upload(q)
    BY <2>4, LocalStep DEF Upload, Enter, Open
  <2>5. CASE Commit(q)
    BY <2>5, CommitStep
  <2>6. CASE CommitRefused(q)
    BY <2>6, LocalStep DEF CommitRefused, Enter, Open
  <2>7. CASE Fail(q)
    BY <2>7, LocalStep DEF Fail, Enter
  <2>8. QED
    BY <1>2, <2>1, <2>2, <2>3, <2>4, <2>5, <2>6, <2>7 DEF RequestStep
<1>3. QED
  BY <1>1, <1>2, CloseStep DEF Next

\* The inductive invariant holds of every reachable state of the submissions.
THEOREM Safety == Spec => []IInv
<1>1. IInv /\ [Next]_vars => IInv'
  BY StepInvariant
<1>2. QED
  BY <1>1, InitInvariant, PTL DEF Spec

\* Requests and rows stay in their types.
THEOREM TypeCorrect == Spec => []TypeOK
<1>1. IInv => TypeOK
  BY DEF IInv
<1>2. QED
  BY <1>1, Safety, PTL

\* However many submissions for a new address overlap, one candidate results.
THEOREM NoDuplicateCandidate == Spec => []OneCandidatePerEmail
<1>1. IInv => OneCandidatePerEmail
  BY DEF IInv
<1>2. QED
  BY <1>1, Safety, PTL

\* No candidate ever has two active applications to one requisition.
THEOREM NoDuplicateApplication == Spec => []OneActiveApplication
<1>1. IInv => OneActiveApplication
  BY DEF IInv
<1>2. QED
  BY <1>1, Safety, PTL

\* Candidate, resume and application are committed together or not at all.
THEOREM Atomic == Spec => []AllOrNothing
<1>1. IInv => AllOrNothing
  BY DEF IInv
<1>2. QED
  BY <1>1, Safety, PTL

\* Every application, its resume, candidate and requisition are of one organization.
THEOREM Consistent == Spec => []OneOrganization
<1>1. IInv => OneOrganization
  BY DEF IInv
<1>2. QED
  BY <1>1, Safety, PTL

(***************************************************************************)
(* The refinement.                                                         *)
(***************************************************************************)
\* What a request looked up is what the tables say when it commits: its
\* candidate is there, or nobody else has inserted one with its key.
LEMMA CandidateIsCurrent ==
  ASSUME IInv, NEW q \in Requests, phase[q] = "uploaded"
  PROVE  candidate[q] \in Serial!CandidatesFor(q, input[q].org, input[q].email)
<1> DEFINE known == {c \in candidates : c.org = input[q].org /\ c.email = input[q].email}
<1>1. /\ candidate[q] \in Candidate /\ SamePerson(candidate[q], input[q])
      /\ \/ candidate[q] \in candidates
         \/ candidate[q].id = q /\ \A c \in candidates : ~SamePerson(c, candidate[q])
  BY DEF IInv, Working
<1>2. CASE candidate[q] \in candidates
  <2>1. candidate[q] \in known
    BY <1>1, <1>2 DEF SamePerson
  <2>2. QED
    BY <2>1 DEF Serial!CandidatesFor
<1>3. CASE candidate[q].id = q /\ \A c \in candidates : ~SamePerson(c, candidate[q])
  <2>1. known = {}
    BY <1>1, <1>3 DEF SamePerson
  <2>2. candidate[q] = [id |-> q, org |-> input[q].org, email |-> input[q].email]
    BY <1>1, <1>3 DEF Candidate, SamePerson
  <2>3. QED
    BY <2>1, <2>2 DEF Serial!CandidatesFor
<1>4. QED
  BY <1>1, <1>2, <1>3

\* The commit is the instant at which a submission takes effect.
LEMMA CommitIsSubmit ==
  ASSUME IInv, NEW q \in Requests, Commit(q) PROVE Serial!Submit(q)
<1>1. /\ phase[q] = "uploaded" /\ OrgConsistent(q) /\ ~HasActiveApplication(q)
      /\ Insertions(q)
  BY DEF Commit
<1>2. input[q] \in Input
  BY <1>1 DEF IInv, Working, Open
<1>3. input[q].requisition \in Requisitions /\ input[q].email \in Emails
  BY <1>2 DEF Input
<1>4. input[q].org = OrgOf[input[q].requisition]
  BY <1>1 DEF OrgConsistent
<1>5. q \in files /\ \A r \in resumes : r.id # q
  BY <1>1 DEF IInv, Stored, RowsCommitted
<1>6. candidate[q] \in Serial!CandidatesFor(q, OrgOf[input[q].requisition], input[q].email)
  BY <1>1, <1>4, CandidateIsCurrent
<1>7. Serial!NoneActive(candidate[q], input[q].requisition)
  BY <1>1 DEF HasActiveApplication, Serial!NoneActive
<1>8. QED
  BY <1>1, <1>3, <1>4, <1>5, <1>6, <1>7 DEF Insertions, Serial!Submit

\* Every step stores a file, takes effect as a whole, closes an application, or
\* shows nothing.
LEMMA SerialStep ==
  ASSUME IInv, [Next]_vars PROVE [Serial!Next]_(Serial!vars)
<1> USE DEF Serial!vars, Serial!Next
<1>1. CASE UNCHANGED vars
  BY <1>1 DEF vars, tables
<1>2. ASSUME NEW q \in Requests, RequestStep(q) \/ Fail(q) PROVE [Serial!Next]_(Serial!vars)
  <2>1. CASE Find(q) \/ CreateCandidate(q) \/ CandidateConflict(q) \/ CommitRefused(q)
    BY <2>1 DEF Find, CreateCandidate, CandidateConflict, CommitRefused, tables
  <2>2. CASE Upload(q)
    BY <2>2 DEF Upload, tables, Serial!Store
  <2>3. CASE Commit(q)
    BY <2>3, CommitIsSubmit
  <2>4. CASE Fail(q)
    BY <2>4 DEF Fail, tables, Serial!Store
  <2>5. QED
    BY <1>2, <2>1, <2>2, <2>3, <2>4 DEF RequestStep
<1>3. ASSUME NEW a \in applications, Close(a) PROVE [Serial!Next]_(Serial!vars)
  BY <1>3 DEF Close, Serial!Close
<1>4. QED
  BY <1>1, <1>2, <1>3 DEF Next

\* However submissions overlap and fail, the tables are those of one submission
\* after another.
THEOREM Serializable == Spec => ImplementsSerial
<1>1. Init => Serial!Init
  BY DEF Init, Serial!Init
<1>2. IInv /\ [Next]_vars => [Serial!Next]_(Serial!vars)
  BY SerialStep
<1>3. QED
  BY <1>1, <1>2, Safety, PTL DEF Spec, ImplementsSerial, Serial!Spec
=============================================================================
