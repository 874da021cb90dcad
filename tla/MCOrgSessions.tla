---------------------------- MODULE MCOrgSessions ----------------------------
(* OrgSessions for TLC: two calls may go any way.  The third makes the pool  *)
(* of two connections too small for all of them; it creates an organization, *)
(* which needs a connection twice.                                           *)
EXTENDS OrgSessions, TLC

CONSTANT third

ThirdCreatesAnOrganization ==
  call[third] = NoCall \/ call[third].kind = "create_organization"

Symmetry ==
  Permutations(Calls \ {third}) \cup Permutations(Orgs) \cup Permutations(Connections)
=============================================================================
