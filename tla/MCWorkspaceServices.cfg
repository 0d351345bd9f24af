SPECIFICATION Spec
CONSTANTS
    a = a b = b third = third p = p news = news x = x y = y
    posts = posts pages = pages users = users
    k1 = k1 k2 = k2 u = u m1 = m1 h1 = h1 h2 = h2 r1 = r1 r2 = r2 s1 = s1 s2 = s2
    SiteIds <- SiteIdsDef
    SiteCollections <- SiteCollectionsDef
    Admins <- AdminsDef
    Content = Content
    MaxSiteRevision = 3
    MaxSitePolicy = 6
    Owners <- OwnersDef
    Checks <- ChecksDef
    Schemas <- SchemasDef
    ProfileCollection = users
    Granted <- GrantedDef
    Terms <- TermsDef
    NoRow = NoRow
    MaxVersion = 3
    Accounts = {u}
    ContentRealms = {"staff", "shop", "club"}
    HomeOf <- HomeDef
    Delegators = {x}
    Scopes <- ScopesDef
    MaxAccountRevision = 3
    MaxDelegationRevision = 2
    Migrators = {"s1", "s2"}
    People <- PeopleDef
    Databases <- DatabasesDef
    Joiners <- JoinersDef
    Passwords <- PasswordsDef
    DefaultRoles = {"member"}
    MaxProfiles = 2
    MaxPolicyRevision = 4
    MaxMemberRevision = 3
SYMMETRY Symmetry
INVARIANTS SitesAreWhole CeilingsHold
PROPERTIES ArchivedSitesGainNothing ProvisioningIsSafe UpgradesAreSound CmsAccountsAreOutOfReach
CHECK_DEADLOCK FALSE
