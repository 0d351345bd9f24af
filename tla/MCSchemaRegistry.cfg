CONSTANTS
  posts = posts
  users = users
  title = title
  body = body
  r1 = r1
  Collections <- MCCollections
  Fields <- MCFields
  Realms <- MCRealms
  Editors = {e1, e2}
  Proposals <- MCProposals
  Batches <- MCBatches
  MaxSaves = 3
  MaxRuns = 3
  None = None
SPECIFICATION RegistrySpec
SYMMETRY Symmetry
INVARIANTS RegistryIsSound
PROPERTIES AppliesWhatWasApproved
CHECK_DEADLOCK FALSE
