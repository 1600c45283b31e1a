CONSTANTS
  Members <- MCMembers
  Values <- MCValues
  Pointers <- MCPointers
  Patches <- MCPatches
  Loaded <- MCLoaded
  Others <- MCOthers
  MaxText = 32
  MaxNodes = 4
SPECIFICATION Spec
INVARIANTS BinaryRoundTrip TextRoundTrip PointersAgree OrderedDocuments IteratorsAgree
