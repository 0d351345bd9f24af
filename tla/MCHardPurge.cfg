CONSTANTS
  Docs = {1, 2, 3}
  Editors = {c1}
  MayReference <- Anything
  Multiple = {2}
  OnDelete <- Mixed
  MaxVersion = 2
  NoEdit = NoEdit
SPECIFICATION FairSpec
INVARIANTS ReferencesAreWhole
PROPERTIES PurgesWhatWasPlanned EverybodyIsAnswered
CHECK_DEADLOCK FALSE
