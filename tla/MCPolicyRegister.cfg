SPECIFICATION RegisterSpec
CONSTANTS
  FullAccess = "full-access"
  CmsOwner = "cms-owner"
  Subjects <- SubjectsDef
  LevelIds <- LevelsDef
  RoleIds <- RolesDef
  BindingIds <- BindingsDef
  MembershipIds <- MembershipsDef
  Resources <- ResourcesDef
  Above <- AboveDef
  RootResource = "realm"
  Permissions <- PermissionsDef
  Guard <- GuardDef
  Delegatable <- DelegatableDef
  Mutations <- AllMutations
  InitialPolicy <- InitialPolicyDef
  MaxRevision = 5
  s1 = s1
  s2 = s2
  None = None
  Servers <- ServersDef
  Workloads <- WorkloadsDef
SYMMETRY Symmetry
INVARIANTS DecidesByThePolicy
PROPERTIES ImplementsAuthority NobodyClimbs
CHECK_DEADLOCK FALSE
