CONSTANTS
  Docs = {d1, d2, d3, d4}
  Root = Root
  Limits = {1, 3}
  MaxTreeVersion = 6
  Editors = {c1}
SPECIFICATION EditorsSpec
SYMMETRY Symmetry
INVARIANTS TreeIsWhole
PROPERTIES ImplementsOrderedForest EditsWhatWasRead
