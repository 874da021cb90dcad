---------------------------- MODULE Organizations ----------------------------
(***************************************************************************)
(* One organization: app/services/organizations.py, whose Postgres row and *)
(* Qdrant collection share no transaction.  Each call of                   *)
(* create_organization draws a fresh id, so an organization has a single   *)
(* creating call; any number of calls may deactivate it.                   *)
(*                                                                         *)
(* A call to either store may raise before or after it took effect, and    *)
(* the API process may die between two calls.                              *)
(***************************************************************************)
CONSTANT Callers    \* the calls of deactivate_organization

VARIABLES
  row,              \* organizations.status, "none" while there is no row
  collection,       \* the organization's Qdrant collection exists
  creation,         \* how far create_organization is, or how it ended
  deactivation      \* the same of each call of deactivate_organization

vars == <<row, collection, creation, deactivation>>

\* The creating call's commit has raised: it compensates, or has done so with
\* or without an error.
CommitRaised == {"compensating", "compensated", "orphaned"}

TypeOK ==
  /\ row \in {"none", "active", "deactivated"}
  /\ collection \in BOOLEAN
  /\ creation \in {"new", "provisioned", "committed", "created", "refused", "failed"}
                  \cup CommitRaised
  /\ deactivation \in
       [Callers -> {"new", "found", "committed", "ok", "not_found", "failed"}]

Init ==
  /\ row = "none"
  /\ collection = FALSE
  /\ creation = "new"
  /\ deactivation = [d \in Callers |-> "new"]

(***************************************************************************)
(* create_organization.                                                    *)
(***************************************************************************)
\* vector_store.provision_collection.
Provision ==
  /\ creation = "new"
  /\ collection' = TRUE
  /\ creation' = "provisioned"
  /\ UNCHANGED <<row, deactivation>>

\* It raises; Qdrant may have created the collection.  The route turns a
\* ResponseHandlingException into the 503, any other exception becomes a 500.
ProvisionFails ==
  /\ creation = "new"
  /\ collection' \in BOOLEAN
  /\ creation' \in {"refused", "failed"}
  /\ UNCHANGED <<row, deactivation>>

Commit ==
  /\ creation = "provisioned"
  /\ row' = "active"
  /\ creation' = "committed"
  /\ UNCHANGED <<collection, deactivation>>

\* commit() raises: the insertion failed, or its acknowledgement was lost.
CommitFails ==
  /\ creation = "provisioned"
  /\ row' \in {"none", "active"}
  /\ creation' = "compensating"
  /\ UNCHANGED <<collection, deactivation>>

\* Faulty variant: the compensating delete is forgotten.
CompensateNot ==
  /\ creation = "compensating"
  /\ creation' = "compensated"
  /\ UNCHANGED <<row, collection, deactivation>>

\* The compensating vector_store.delete_collection; the database error is raised.
Compensate ==
  /\ creation = "compensating"
  /\ collection' = FALSE
  /\ creation' = "compensated"
  /\ UNCHANGED <<row, deactivation>>

\* It raises as well: logged, and the database error is raised.
CompensationFails ==
  /\ creation = "compensating"
  /\ collection' \in {collection, FALSE}
  /\ creation' = "orphaned"
  /\ UNCHANGED <<row, deactivation>>

\* session.refresh, and the 201.
AnswerCreated ==
  /\ creation = "committed"
  /\ creation' = "created"
  /\ UNCHANGED <<row, collection, deactivation>>

\* The refresh raises, or the process dies: before the commit, while Postgres
\* executes it, or after it.
CreationDies ==
  /\ creation \in {"provisioned", "committed", "compensating"}
  /\ row' \in IF creation = "provisioned" THEN {"none", "active"} ELSE {row}
  /\ creation' = IF creation = "compensating" THEN "orphaned" ELSE "failed"
  /\ UNCHANGED <<collection, deactivation>>

(***************************************************************************)
(* deactivate_organization.                                                *)
(***************************************************************************)
Advance(d, step) == deactivation' = [deactivation EXCEPT ![d] = step]

Find(d) ==
  /\ deactivation[d] = "new"
  /\ Advance(d, IF row = "none" THEN "not_found" ELSE "found")
  /\ UNCHANGED <<row, collection, creation>>

\* Faulty variant: the collection is torn down while the row is active.
DeleteThenCommit(d) ==
  /\ deactivation[d] = "found"
  /\ collection' = FALSE
  /\ Advance(d, "committed")
  /\ UNCHANGED <<row, creation>>

\* Faulty variant: the row gets a status that the enumeration does not have.
CommitUnknownStatus(d) ==
  /\ deactivation[d] = "found"
  /\ row' = "inactive"
  /\ Advance(d, "committed")
  /\ UNCHANGED <<collection, creation>>

CommitDeactivated(d) ==
  /\ deactivation[d] = "found"
  /\ row' = "deactivated"
  /\ Advance(d, "committed")
  /\ UNCHANGED <<collection, creation>>

\* Faulty variant: the answer does not wait for the delete.
AnswerWithoutDelete(d) ==
  /\ deactivation[d] = "committed"
  /\ Advance(d, "ok")
  /\ UNCHANGED <<row, collection, creation>>

\* vector_store.delete_collection.  Nothing recreates a collection once there
\* is a row, so its existence check and its delete are one step.
DeleteCollection(d) ==
  /\ deactivation[d] = "committed"
  /\ collection' = FALSE
  /\ Advance(d, "ok")
  /\ UNCHANGED <<row, creation>>

\* A call raises, with or without effect, or the process dies.
DeactivationDies(d) ==
  /\ deactivation[d] \in {"found", "committed"}
  /\ row' \in {row, "deactivated"}
  /\ collection' \in IF deactivation[d] = "committed" THEN {collection, FALSE} ELSE {collection}
  /\ Advance(d, "failed")
  /\ UNCHANGED creation

Create ==
  \/ Provision \/ ProvisionFails \/ Commit \/ CommitFails
  \/ Compensate \/ CompensationFails \/ AnswerCreated \/ CreationDies

Deactivate(d) == Find(d) \/ CommitDeactivated(d) \/ DeleteCollection(d) \/ DeactivationDies(d)

Next == Create \/ \E d \in Callers : Deactivate(d)

Spec == Init /\ [][Next]_vars

(***************************************************************************)
(* Properties.                                                             *)
(***************************************************************************)
\* I11 as far as the code keeps it: an active organization has its collection,
\* whatever calls fail or die, unless its own creation compensated for a commit
\* that had in fact taken effect, whose acknowledgement was lost.
ServedUntilDeactivated ==
  row = "active" => collection \/ creation \in {"compensated", "orphaned"}

\* "vector store unavailable; organization was not created": after the 503 no
\* row ever appears.
RefusedHasNoRow == creation = "refused" => row = "none"

\* A creation that failed and compensated leaves no collection behind, also
\* when deactivations of a row it did not know of ran at the same time.
CompensatedLeavesNothing == creation = "compensated" => ~collection

\* An answered deactivation is complete and final: no call still running brings
\* the row or the collection back.
DeactivatedIsTornDown ==
  \A d \in Callers : deactivation[d] = "ok" => row = "deactivated" /\ ~collection

\* Once there is a row, everything goes one way: the row stays, a deactivated
\* one is never active again, and no call makes the collection anew.  This is
\* what lets DeleteCollection take its existence check and its delete as one step.
OneWay ==
  [][row # "none" => /\ row' # "none"
                     /\ row = "deactivated" => row' = "deactivated"
                     /\ collection' => collection]_vars
=============================================================================
