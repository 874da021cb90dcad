SPECIFICATION Spec
CONSTANTS
  Calls = {a1, a2, third}
  third = third
  Orgs = {o1, o2}
  Connections = {k1, k2}
  NoOrg = NoOrg
  NoConnection = NoConnection
  MaxFailures = 1
SYMMETRY Symmetry
CONSTRAINT ThirdCreatesAnOrganization
INVARIANTS
  TypeOK
  OwnRowsOnly
  SettingIsTheHolders
  AnswerTells
CHECK_DEADLOCK FALSE
