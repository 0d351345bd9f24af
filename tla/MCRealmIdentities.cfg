SPECIFICATION MCSpec
CONSTANTS
  cms = cms
  ann = ann
  ben = ben
  s1 = s1
  s2 = s2
  None = None
  Identities <- IdentitiesDef
  Operators <- IdentitiesDef
  FirstOwner = cms
  Servers <- ServersDef
  MaxSessions = 1
SYMMETRY Symmetry
INVARIANTS RealmIsWhole
PROPERTIES OwnerStands
CHECK_DEADLOCK FALSE
