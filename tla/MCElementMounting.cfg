CONSTANTS
  Pages <- MCPages
  Slots = {"tip", "box"}
  Content <- MCContent
  Names <- MCNames
  Matches <- MCMatches
  Global = "tooltip"
  Inline <- MCInline
  Deferred <- MCDeferred
  Appending = {"menu"}
  Islands = {"island", "panel"}
  Variant <- MCVariant
  Fallible = {"island"}
  MaxSwaps = 2
SPECIFICATION Spec
INVARIANTS MountedOnce AppendedStays RootsUsedSafely
PROPERTIES ComponentsFollowThePage
CHECK_DEADLOCK FALSE
