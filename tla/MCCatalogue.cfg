SPECIFICATION Spec
CONSTANTS
  Editors = {ann, ben}
  MaxPhotos = 2
  MaxListed = 2
  MaxNew = 1
  MaxEdits = 2
SYMMETRY Symmetry
INVARIANTS TypeOK BoughtVariantsStay SkuNamesOneVariant OneCover
PROPERTIES SavedAsListed
CHECK_DEADLOCK FALSE
