---------------------------- MODULE MCSubmission ----------------------------
(* Submission for TLC: two organizations with one requisition each. *)
EXTENDS Submission, TLC

MCOrgOf == "j1" :> "org1" @@ "j2" :> "org2"
=============================================================================
