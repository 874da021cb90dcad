------------------------- MODULE OrganizationsProofs -------------------------
(***************************************************************************)
(* Organizations keeps its safety properties for any number of             *)
(* deactivating calls.                                                     *)
(*                                                                         *)
(* The four properties are not inductive on their own.  RowFollows says    *)
(* when a row can be there at all, and CallsSawARow what a deactivation    *)
(* has found and done by each of its phases; together they close the       *)
(* induction, because only Provision makes a collection and it runs before *)
(* there is a row.                                                         *)
(***************************************************************************)
EXTENDS Organizations, TLAPS

\* A row implies that the creation got as far as its commit, and the
\* collection is there from provisioning until a compensation or a deletion.
RowFollows ==
  /\ creation \in {"new", "provisioned", "refused"} => row = "none"
  /\ creation \in {"committed", "created"} => row # "none"
  /\ creation = "provisioned" => collection

\* A call past Find has seen a row, one past its commit has deactivated it,
\* and one that answered has deleted the collection.
CallsSawARow ==
  \A d \in Callers :
    /\ deactivation[d] \in {"found", "committed", "ok"} => row # "none"
    /\ deactivation[d] = "committed" => row = "deactivated"

Inv ==
  /\ TypeOK
  /\ RowFollows
  /\ CallsSawARow
  /\ ServedUntilDeactivated
  /\ CompensatedLeavesNothing
  /\ DeactivatedIsTornDown

\* The invariant holds at first.
LEMMA InitEstablishesInv == Init => Inv
BY DEF Init, Inv, TypeOK, RowFollows, CallsSawARow, ServedUntilDeactivated,
       CompensatedLeavesNothing, DeactivatedIsTornDown, CommitRaised

\* Every step of the creating call preserves the invariant; the deactivations
\* are where they were.
LEMMA CreatePreservesInv == Inv /\ Create => Inv'
<1> SUFFICES ASSUME Inv, Create PROVE Inv'
  OBVIOUS
<1> USE DEF Inv, TypeOK, RowFollows, CallsSawARow, ServedUntilDeactivated,
            CompensatedLeavesNothing, DeactivatedIsTornDown, CommitRaised
<1>1. CASE Provision
  BY <1>1 DEF Provision
<1>2. CASE ProvisionFails
  BY <1>2 DEF ProvisionFails
<1>3. CASE Commit
  BY <1>3 DEF Commit
<1>4. CASE CommitFails
  BY <1>4 DEF CommitFails
<1>5. CASE Compensate
  BY <1>5 DEF Compensate
<1>6. CASE CompensationFails
  <2>1. CASE collection' = collection
    BY <1>6, <2>1 DEF CompensationFails
  <2>2. CASE collection' = FALSE
    BY <1>6, <2>2 DEF CompensationFails
  <2>3. QED
    BY <1>6, <2>1, <2>2 DEF CompensationFails
<1>7. CASE AnswerCreated
  BY <1>7 DEF AnswerCreated
<1>8. CASE CreationDies
  BY <1>8 DEF CreationDies
<1>9. QED
  BY <1>1, <1>2, <1>3, <1>4, <1>5, <1>6, <1>7, <1>8 DEF Create

\* A deactivation only moves the row to "deactivated" and only removes the
\* collection, so it cannot undo what another call has finished.
LEMMA DeactivatePreservesInv ==
  ASSUME NEW d \in Callers, Inv, Deactivate(d) PROVE Inv'
<1> USE DEF Inv, TypeOK, RowFollows, CallsSawARow, ServedUntilDeactivated,
            CompensatedLeavesNothing, DeactivatedIsTornDown, CommitRaised, Advance
<1>1. CASE Find(d)
  BY <1>1 DEF Find
<1>2. CASE CommitDeactivated(d)
  BY <1>2 DEF CommitDeactivated
<1>3. CASE DeleteCollection(d)
  BY <1>3 DEF DeleteCollection
<1>4. CASE DeactivationDies(d)
  BY <1>4 DEF DeactivationDies
<1>5. QED
  BY <1>1, <1>2, <1>3, <1>4 DEF Deactivate

\* Every step keeps the invariant.
LEMMA NextPreservesInv == Inv /\ [Next]_vars => Inv'
<1> SUFFICES ASSUME Inv, [Next]_vars PROVE Inv'
  OBVIOUS
<1>1. CASE Create
  BY <1>1, CreatePreservesInv
<1>2. CASE \E d \in Callers : Deactivate(d)
  BY <1>2, DeactivatePreservesInv
<1>3. CASE UNCHANGED vars
  BY <1>3 DEF vars, Inv, TypeOK, RowFollows, CallsSawARow, ServedUntilDeactivated,
              CompensatedLeavesNothing, DeactivatedIsTornDown, CommitRaised
<1>4. QED
  BY <1>1, <1>2, <1>3 DEF Next

\* So it holds always.
LEMMA InvHolds == Spec => []Inv
BY InitEstablishesInv, NextPreservesInv, PTL DEF Spec

\* The state keeps its types.
THEOREM TypeCorrect == Spec => []TypeOK
<1>1. Inv => TypeOK
  BY DEF Inv
<1>2. QED
  BY <1>1, InvHolds, PTL

\* An active organization has its collection unless its creation compensated
\* for a commit that had taken effect.
THEOREM Served == Spec => []ServedUntilDeactivated
<1>1. Inv => ServedUntilDeactivated
  BY DEF Inv
<1>2. QED
  BY <1>1, InvHolds, PTL

\* A creation answered with the 503 never has a row.
THEOREM Refused == Spec => []RefusedHasNoRow
<1>1. Inv => RefusedHasNoRow
  BY DEF Inv, RowFollows, RefusedHasNoRow
<1>2. QED
  BY <1>1, InvHolds, PTL

\* A completed compensation is never undone.
THEOREM Compensated == Spec => []CompensatedLeavesNothing
<1>1. Inv => CompensatedLeavesNothing
  BY DEF Inv
<1>2. QED
  BY <1>1, InvHolds, PTL

\* However many calls race, a deactivation that answered stays complete.
THEOREM TornDown == Spec => []DeactivatedIsTornDown
<1>1. Inv => DeactivatedIsTornDown
  BY DEF Inv
<1>2. QED
  BY <1>1, InvHolds, PTL

\* A step over a row takes nothing back: only Provision and a failing Provision
\* make a collection, and they precede the row.
LEMMA StepIsOneWay ==
  ASSUME Inv, Next, row # "none"
  PROVE  /\ row' # "none"
         /\ row = "deactivated" => row' = "deactivated"
         /\ collection' => collection
<1> USE DEF Inv, TypeOK, RowFollows
<1>1. CASE Provision \/ ProvisionFails \/ Commit \/ CommitFails
  BY <1>1 DEF Provision, ProvisionFails, Commit, CommitFails
<1>2. CASE Compensate \/ AnswerCreated \/ CreationDies
  BY <1>2 DEF Compensate, AnswerCreated, CreationDies
<1>3. CASE CompensationFails
  <2>1. row' = row /\ (collection' = collection \/ collection' = FALSE)
    BY <1>3 DEF CompensationFails
  <2>2. QED
    BY <2>1
<1>4. ASSUME NEW d \in Callers, Deactivate(d)
      PROVE  /\ row' # "none"
             /\ row = "deactivated" => row' = "deactivated"
             /\ collection' => collection
  BY <1>4 DEF Deactivate, Find, CommitDeactivated, DeleteCollection, DeactivationDies
<1>5. QED
  BY <1>1, <1>2, <1>3, <1>4 DEF Next, Create

\* Once there is a row, no call, however late, undoes a deactivation or brings
\* a collection back.
THEOREM NothingComesBack == Spec => OneWay
<1>1. Inv /\ [Next]_vars =>
        [row # "none" => /\ row' # "none"
                         /\ row = "deactivated" => row' = "deactivated"
                         /\ collection' => collection]_vars
  BY StepIsOneWay
<1>2. QED
  BY <1>1, InvHolds, PTL DEF Spec, OneWay
=============================================================================
