SPECIFICATION Services
CONSTANTS
    Media = {m1, m2}
    Docs = {d1, d2}
    a1 = a1 a2 = a2 t1 = t1 t2 = t2
    AppIds <- AppIdsDef
    Authors <- AuthorsDef
    Roles <- RolesDef
    Manifests <- ManifestsDef
    MaxRoute = 3
    MaxRevisions = 2
    MaxDraftVersion = 2
    MaxDrafts = 3
    Visitors = {v1}
    Keys = {"x"}
    Realms = {"system", "staff"}
    Batches <- BatchesDef
    MaxPolicy = 3
    RowIds <- RowsDef
    Values = {1, 2}
    Null = Null
    Sorts <- SortsDef
    Limits = {1, 2}
    MinBatch = 1
    MaxBatch = 2
    ScanLimits = {2, 5}
    MaxWrites = 1
    Seeds <- SeedsDef
    Asks <- AsksDef
    PolicyServers = {w1, w2}
    PluginKey = "plugin.use"
    Protected = {"authorization.manage"}
    Unrestricted = Unrestricted
    NoIdentity = NoIdentity
    NoPolicyYet = NoPolicyYet
    MaxTableRevision = 4
    Fields = {"title", "body"}
SYMMETRY Symmetry
INVARIANTS LibraryIsWhole AppsAreWhole ServedAsGranted WalksMissNothing TablesAreSound
PROPERTIES AppliesWhatWasShown StoredAsDecided
CHECK_DEADLOCK FALSE
